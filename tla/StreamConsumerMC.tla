-------------------------- MODULE StreamConsumerMC --------------------------
(***************************************************************************)
(* Small instances of StreamConsumer.  Payload "ab" has two rows, "b" shares *)
(* its row with it (a reading the simulator sent twice), "bad" does not      *)
(* decode.                                                                   *)
(***************************************************************************)
EXTENDS StreamConsumer, TLC

MCRow == {"ra", "rb"}
MCPayload == {"ab", "b", "bad"}
MCRowsOf == [p \in MCPayload |->
    CASE p = "ab" -> {"ra", "rb"} [] p = "b" -> {"rb"} [] p = "bad" -> {}]
MCMalformed == {"bad"}

MCSymmetry == Permutations(Consumer) \cup Permutations(Worker)
=============================================================================
