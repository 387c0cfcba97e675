---------------------------- MODULE RedisStream ----------------------------
(***************************************************************************)
(* One Redis Stream with its one consumer group, as the processor and the  *)
(* db-writer replicas use it (shared/shared/streams.py).  Redis itself is  *)
(* external: the operators below are the commands the code issues, each    *)
(* one atomic on the server.                                               *)
(*                                                                         *)
(* Entry number i is the i-th entry ever appended, so the order of the     *)
(* numbers is the order of the stream IDs.  MAXLEN evicts from the old     *)
(* end, hence what is gone is always a prefix 1..trimmed.                  *)
(***************************************************************************)
EXTENDS Naturals, Sequences, FiniteSets

CONSTANTS
    Consumer,      \* consumer names, one per db-writer replica
    Payload,       \* what an entry may carry
    Row,           \* primary keys of the rows the payloads hold
    RowsOf,        \* RowsOf[p]: the rows of payload p
    Malformed,     \* payloads without field "d", or that do not decode
    StreamMaxLen,  \* STREAM_MAXLEN
    MaxEntries     \* bound of the model on the entries ever appended

ASSUME StreamAssumption ==
    /\ RowsOf \in [Payload -> SUBSET Row]
    /\ Malformed \subseteq Payload
    /\ StreamMaxLen \in Nat \ {0}
    /\ MaxEntries \in Nat

VARIABLES
    log,       \* every entry ever appended, evicted ones included
    trimmed,   \* entries 1..trimmed are no longer in the stream
    group,     \* does the consumer group exist?
    cursor,    \* last-delivered id of the group
    pel        \* pel[c]: pending entries of consumer c

streamVars == <<log, trimmed, group, cursor, pel>>

Id == 1..MaxEntries
Entries == 1..Len(log)

StreamTypeOK ==
    /\ log \in Seq(Payload) /\ Len(log) <= MaxEntries
    /\ trimmed \in 0..Len(log)
    /\ group \in BOOLEAN
    /\ cursor \in 0..Len(log)
    /\ pel \in [Consumer -> SUBSET Entries]

StreamInit ==
    /\ log = <<>>
    /\ trimmed = 0
    /\ group = FALSE
    /\ cursor = 0
    /\ pel = [c \in Consumer |-> {}]

\* A delivered entry decodes unless it is malformed or was evicted since: Redis
\* then still lists its id, with no fields.
Readable(i) == i > trimmed /\ log[i] \notin Malformed

RowsOfEntries(S) == UNION {RowsOf[log[i]] : i \in S}

-----------------------------------------------------------------------------

\* XADD with MAXLEN ~ n: the trimming is approximate, it may keep more than n
\* entries and never fewer.
xadd_rows(p) ==
    /\ Len(log) < MaxEntries
    /\ log' = Append(log, p)
    /\ \E t \in trimmed..Len(log') :
          /\ t # trimmed => Len(log') - t >= StreamMaxLen
          /\ trimmed' = t
    /\ UNCHANGED <<group, cursor, pel>>

\* Mutant: the group is created, or created again, with id="$".
ensure_consumer_group_AtEnd ==
    /\ group' = TRUE
    /\ cursor' = Len(log)
    /\ UNCHANGED <<log, trimmed, pel>>

\* XGROUP CREATE id=0 MKSTREAM.  BUSYGROUP is ignored, so an existing group keeps
\* its cursor; a new one starts before the oldest entry, where cursor stands.
ensure_consumer_group ==
    /\ group' = TRUE
    /\ UNCHANGED <<log, trimmed, cursor, pel>>

\* What XREADGROUP ">" COUNT n would deliver now: the oldest entries that the group
\* has not delivered and that are still there.
NewEntries(n) ==
    LET last == IF cursor > trimmed THEN cursor ELSE trimmed IN
    {i \in Entries : last < i /\ i <= last + n}

\* XREADGROUP ">" moves the group's cursor and makes the entries pending for c.
DeliverNew(c, ids) ==
    /\ \E last \in ids : (\A i \in ids : i <= last) /\ cursor' = last
    /\ pel' = [pel EXCEPT ![c] = @ \cup ids]
    /\ UNCHANGED <<log, trimmed, group>>

Smallest(S, n) == {i \in S : Cardinality({j \in S : j < i}) < n}

\* What XREADGROUP "0" COUNT n returns: the oldest entries pending for c, whether
\* or not they were returned before.
PendingEntries(c, n) == Smallest(pel[c], n)

\* XACK: acknowledging what is not pending is not an error.
XAck(c, ids) ==
    /\ pel' = [pel EXCEPT ![c] = @ \ ids]
    /\ UNCHANGED <<log, trimmed, group, cursor>>

\* Redis runs with neither AOF nor RDB (docker-compose.yml): a restart forgets the
\* entries, the group and its pending lists.
StreamWiped ==
    /\ trimmed' = Len(log)
    /\ group' = FALSE
    /\ cursor' = Len(log)
    /\ pel' = [c \in Consumer |-> {}]
    /\ UNCHANGED log
=============================================================================
