-------------------------- MODULE LocomotiveStateMC --------------------------
(* Instances of the simulator's locomotive for TLC. *)
EXTENDS LocomotiveState

MCRoute == [long |-> 4, short |-> 2]

\* One body for each way of arriving, dispatched in the middle of the long route.
MCCreations ==
    {[route |-> "long", mode |-> "depot", scenario |-> "normal", auto |-> TRUE, speed |-> 0,
      start |-> 1, end |-> 3, onArrival |-> a] : a \in OnArrival}

NoChange == [route |-> None, mode |-> None, scenario |-> None, auto |-> None,
             speed |-> None, start |-> None, end |-> None, onArrival |-> None]

\* Bodies of one field: one of several fields is several of these between two ticks.
MCPatches ==
    {[NoChange EXCEPT !.route = r] : r \in DOMAIN MCRoute}
      \cup {[NoChange EXCEPT !.mode = m] : m \in Mode}
      \cup {[NoChange EXCEPT !.scenario = c] : c \in Scenario}
      \cup {[NoChange EXCEPT !.auto = b] : b \in BOOLEAN}
      \cup {[NoChange EXCEPT !.speed = v] : v \in {0, MaxSpeed}}
      \cup {[NoChange EXCEPT !.start = d] : d \in {0, 3}}
      \cup {[NoChange EXCEPT !.end = d] : d \in {2, 4}}
      \cup {[NoChange EXCEPT !.onArrival = a] : a \in OnArrival}
=============================================================================
