------------------------ MODULE ConnectionManagerMC ------------------------
(* The instance of ConnectionManager for TLC: three sockets on two channels. *)
EXTENDS ConnectionManager, TLC

CONSTANTS w1, w2, w3, ch1, ch2

\* w1 and w2 watch one locomotive and its alerts, w3 another one and the same alerts.
TwoChannels == (w1 :> <<ch1, ch2>>) @@ (w2 :> <<ch1, ch2>>) @@ (w3 :> <<ch2>>)
=============================================================================
