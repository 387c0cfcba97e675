-------------------------- MODULE DurableDelivery --------------------------
(***************************************************************************)
(* What the processor -> db-writer pipeline promises, without readers,     *)
(* queues or workers: entries are appended, rows of appended entries are   *)
(* committed, and an entry is settled - never offered again - only once    *)
(* its rows are committed, or when there is nothing left of it to write.   *)
(***************************************************************************)
EXTENDS Naturals, Sequences

CONSTANTS Payload, RowsOf, Malformed

VARIABLES
    log,      \* every entry ever appended
    evicted,  \* entries 1..evicted are no longer stored
    settled,  \* entries that are not offered again
    table     \* the committed rows

Init ==
    /\ log = <<>>
    /\ evicted = 0
    /\ settled = {}
    /\ table = {}

RowsOfEntry(i) == RowsOf[log[i]]

\* An append may push old entries out of the stream.
Append1 ==
    /\ \E p \in Payload : log' = Append(log, p)
    /\ evicted' \in evicted..Len(log')
    /\ UNCHANGED <<settled, table>>

Evict ==
    /\ evicted' \in evicted..Len(log)
    /\ UNCHANGED <<log, settled, table>>

\* A transaction: rows of any entries, all at once and never taken back.
Commit ==
    /\ \E rows \in SUBSET UNION {RowsOfEntry(i) : i \in 1..Len(log)} :
          table' = table \cup rows
    /\ UNCHANGED <<log, evicted, settled>>

MaySettle(i) ==
    \/ RowsOfEntry(i) \subseteq table
    \/ log[i] \in Malformed
    \/ i <= evicted

Settle ==
    /\ \E ids \in SUBSET (1..Len(log)) :
          /\ \A i \in ids : MaySettle(i)
          /\ settled' = settled \cup ids
    /\ UNCHANGED <<log, evicted, table>>

Next == Append1 \/ Evict \/ Commit \/ Settle

Spec == Init /\ [][Next]_<<log, evicted, settled, table>>
=============================================================================
