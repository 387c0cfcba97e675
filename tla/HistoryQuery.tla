---------------------------- MODULE HistoryQuery ----------------------------
(***************************************************************************)
(* How Analytics answers the trend chart's query (telemetry_repository.py, *)
(* TrendsPanel.tsx): which table and bucket width a window is read from,   *)
(* where gap markers are put, and how the rows are thinned to the chart's  *)
(* width.  Times are in seconds; the database returns the buckets of one   *)
(* sensor in the order of time.                                            *)
(***************************************************************************)
EXTENDS Integers, FiniteSets, Sequences, SequencesExt

NoBucket == 0
Minute == 60
Hour == 3600

RawRetention == 72 * Hour
AllowedBuckets == {2, 5, 10, 15, 20, 30, 40, 60, 300, 600, 900, 1800, 3600}

\* The bucket width of the aggregate a window of this span is read from; NoBucket is raw_telemetry.
PickLevel(span) ==
    IF span <= 15 * Minute THEN NoBucket
    ELSE IF span <= 2 * Hour THEN Minute
    ELSE IF span <= 24 * Hour THEN 15 * Minute
    ELSE Hour

RawBucketSize(span) ==
    IF span <= 2 * Minute THEN 2
    ELSE IF span <= 5 * Minute THEN 5
    ELSE IF span <= 10 * Minute THEN 10
    ELSE 15

\* query_bucketed(): age is how long ago the window starts, requested the caller's bucket.
BucketFor(span, age, requested) ==
    IF requested \in AllowedBuckets /\ age <= RawRetention THEN requested
    ELSE IF PickLevel(span) = NoBucket THEN RawBucketSize(span)
    ELSE PickLevel(span)

\* Mutant: long windows keep the buckets of half a day.
AutoBucket_NoMinute(span) ==
    IF span <= 5 * Minute THEN 2
    ELSE IF span <= 15 * Minute THEN 5
    ELSE IF span <= 30 * Minute THEN 10
    ELSE IF span <= Hour THEN 15
    ELSE IF span <= 6 * Hour THEN 20
    ELSE 40

\* TrendsPanel's autoBucket(), and the rows it asks for at most.
AutoBucket(span) ==
    IF span <= 5 * Minute THEN 2
    ELSE IF span <= 15 * Minute THEN 5
    ELSE IF span <= 30 * Minute THEN 10
    ELSE IF span <= Hour THEN 15
    ELSE IF span <= 6 * Hour THEN 20
    ELSE IF span <= 12 * Hour THEN 40
    ELSE Minute

ChartLimit == 5000

-----------------------------------------------------------------------------
(* Gap markers.                                                            *)

Gap == -1
IsGap(row) == row.value = Gap

Marker(previous, current) == [bucket |-> (previous.bucket + current.bucket) \div 2, value |-> Gap]

\* Mutant: the marker takes the place of the row before the gap's end.
InsertGapMarkers_Replaces(rows, width) ==
    FlattenSeq([i \in DOMAIN rows |->
        IF i > 1 /\ rows[i].bucket - rows[i - 1].bucket > 3 * width
          THEN <<Marker(rows[i - 1], rows[i])>>
          ELSE <<rows[i]>>])

\* Rows further apart than three buckets get a marker between them.
InsertGapMarkers(rows, width) ==
    FlattenSeq([i \in DOMAIN rows |->
        IF i > 1 /\ rows[i].bucket - rows[i - 1].bucket > 3 * width
          THEN <<Marker(rows[i - 1], rows[i]), rows[i]>>
          ELSE <<rows[i]>>])

-----------------------------------------------------------------------------
(* Largest-Triangle-Three-Buckets.  Indices are the code's, from 0.        *)

Area2(ax, ay, cx, cy, x, y) ==
    LET signed == (ax - cx) * (y - ay) - (ax - x) * (cy - ay) IN
    IF signed < 0 THEN -signed ELSE signed

\* Mutant: the lowest row wins.
PickRow_Lowest(rows, threshold, i, a) ==
    LET start(b) == (b * (Len(rows) - 2)) \div (threshold - 2) + 1
        current == start(i)..start(i + 1) - 1
    IN CHOOSE j \in current : \A k \in current : rows[j + 1].value <= rows[k + 1].value

\* Mutant: a gap's row is skipped like one that says nothing, not preserved.
PickRow_SkipsGaps(rows, threshold, i, a) ==
    LET start(b) == (b * (Len(rows) - 2)) \div (threshold - 2) + 1
        current == start(i)..start(i + 1) - 1
        live == {j \in current : ~IsGap(rows[j + 1])}
    IN IF live = {} THEN start(i)
       ELSE CHOOSE j \in live : \A k \in live : rows[j + 1].value >= rows[k + 1].value

\* The index of the row that bucket i of the sample contributes, when a contributed the last.
PickRow(rows, threshold, i, a) ==
    LET n == Len(rows)
        at(j) == rows[j + 1]
        start(b) == (b * (n - 2)) \div (threshold - 2) + 1
        current == start(i)..start(i + 1) - 1
        nextEnd == IF start(i + 2) < n THEN start(i + 2) ELSE n
        next == start(i + 1)..nextEnd - 1
        live == {j \in next : ~IsGap(at(j))}
        count == Cardinality(live)
        cx == FoldFunction(+, 0, [j \in live |-> at(j).bucket])
        cy == FoldFunction(+, 0, [j \in live |-> at(j).value])
        \* The corner at a and the point j, scaled by count like the centroid.
        ax == count * at(a).bucket
        ay == IF IsGap(at(a)) THEN cy ELSE count * at(a).value
        area(j) == Area2(ax, ay, cx, cy, count * at(j).bucket, count * at(j).value)
        gaps == {j \in current : IsGap(at(j))}
    IN IF live = {} THEN (start(i + 1) + nextEnd - 1) \div 2
       ELSE IF gaps # {} THEN CHOOSE j \in gaps : \A k \in gaps : j <= k
       ELSE CHOOSE j \in current :
              \A k \in current : area(k) < area(j) \/ (area(k) = area(j) /\ j <= k)

\* The indices of the rows kept.
SampledIndices(rows, threshold) ==
    LET n == Len(rows)
        picked[i \in 0..threshold - 2] ==
            IF i = 0 THEN 0 ELSE PickRow(rows, threshold, i - 1, picked[i - 1])
    IN IF threshold <= 2 \/ n <= threshold
         THEN [i \in 1..n |-> i - 1]
         ELSE [i \in 1..threshold - 1 |-> picked[i - 1]] \o <<n - 1>>

Lttb(rows, threshold) ==
    LET kept == SampledIndices(rows, threshold) IN [i \in DOMAIN kept |-> rows[kept[i] + 1]]

-----------------------------------------------------------------------------
(* The inputs the functions above mistreat, over every short series.       *)

Width == 2
MaxRows == 7

\* Series of up to MaxRows rows, each one bucket after the one before, or four after a gap.
Times(n) ==
    {[i \in 1..n |-> Width * (i - 1) + 3 * Width * Cardinality({j \in late : j <= i})] :
        late \in SUBSET (2..n)}
SeriesOf(n) == {[i \in 1..n |-> [bucket |-> t[i], value |-> v[i]]] : t \in Times(n), v \in [1..n -> {0, 3}]}
Series == UNION {SeriesOf(n) : n \in 2..MaxRows}

Ascending(rows) == \A i \in 2..Len(rows) : rows[i - 1].bucket < rows[i].bucket

\* The series the markers of which do not say exactly where its gaps are.  With markers or
\* without them the rows ascend, so the same rows are the same series.
MismarkedSeries ==
    {rows \in Series :
        LET marked == InsertGapMarkers(rows, Width) IN
        ~ /\ {r \in Range(marked) : ~IsGap(r)} = Range(rows)
          /\ Ascending(marked)
          /\ \A i \in 2..Len(marked) :
               ~IsGap(marked[i - 1]) /\ ~IsGap(marked[i]) =>
                   marked[i].bucket - marked[i - 1].bucket <= 3 * Width
          /\ \A i \in DOMAIN marked : IsGap(marked[i]) =>
                   marked[i + 1].bucket - marked[i - 1].bucket > 3 * Width}

GapFree == {rows \in Series : \A i \in 2..Len(rows) : rows[i].bucket - rows[i - 1].bucket = Width}
Spikes(rows) == {i \in 2..Len(rows) - 1 : rows[i].value = 3 /\ \A j \in DOMAIN rows \ {i} : rows[j].value = 0}

\* The gap-free series whose sample has the wrong size, loses an end, goes back in time, or
\* misses the only spike of the series.
MisdrawnSeries ==
    {rows \in GapFree :
        \E threshold \in 3..MaxRows :
            LET sample == Lttb(rows, threshold) IN
            ~ /\ Len(sample) = IF Len(rows) <= threshold THEN Len(rows) ELSE threshold
              /\ sample[1] = rows[1] /\ Last(sample) = Last(rows)
              /\ Ascending(sample)
              /\ \A i \in Spikes(rows) : rows[i] \in Range(sample)}

\* The chart draws a line between neighbours that are both data.
IsLine(sample, i) == ~IsGap(sample[i - 1]) /\ ~IsGap(sample[i])
\* Time stands still only where a marker is repeated.
GoesOn(sample, i) ==
    sample[i - 1].bucket < sample[i].bucket \/ (sample[i - 1] = sample[i] /\ IsGap(sample[i]))

\* The series whose sample, taken from the rows with their markers as query_bucketed() does, has
\* the wrong size, loses an end, goes back in time, or is joined across a gap.  That markers "pass
\* through" (:116), "always" (:162), is more than the code does: of the markers of a bucket only
\* the first is kept, and a bucket followed by one that is nothing but a marker contributes that
\* marker in place of a row of its own, so the marker is repeated and x stands still.
BridgedSeries ==
    {rows \in Series :
        LET marked == InsertGapMarkers(rows, Width) IN
        \E threshold \in 3..MaxRows :
            LET sample == Lttb(marked, threshold) IN
            ~ /\ Len(sample) = IF Len(marked) <= threshold THEN Len(marked) ELSE threshold
              /\ sample[1] = rows[1] /\ Last(sample) = Last(rows)
              /\ \A i \in 2..Len(sample) :
                    /\ GoesOn(sample, i)
                    /\ IsLine(sample, i) =>
                         ~ \E r \in Range(marked) :
                             /\ IsGap(r)
                             /\ sample[i - 1].bucket < r.bucket /\ r.bucket < sample[i].bucket}

\* The windows the chart may show, by their span and how long ago they end, whose rows are
\* more than the chart asks for.
TruncatedWindows ==
    {w \in {m * Minute : m \in 1..72 * 60} \X {0, 24 * Hour, 71 * Hour} :
        LET age == w[1] + w[2] IN
        w[1] \div BucketFor(w[1], age, AutoBucket(w[1])) + 1 > ChartLimit}
=============================================================================
