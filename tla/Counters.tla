------------------------------ MODULE Counters ------------------------------
(***************************************************************************)
(* The counters every token and cost figure is made of (queries.js): a     *)
(* client exports counter samples, ClickHouse keeps them raw and in an     *)
(* hourly roll-up, and a figure for [from, to) is the growth of each       *)
(* series, as one number (incFlat) or per bucket (incBucket).              *)
(*                                                                         *)
(* The work of one session is exported here under both temporalities, so   *)
(* that one sample carries its cumulative value (cum, since the process    *)
(* segment began) and its delta (inc).  A segment is one SeriesKey.  Time  *)
(* is counted in minutes; MaxNow, MaxSamples, MaxWire bound it.            *)
(***************************************************************************)
EXTENDS Integers, FiniteSets, FiniteSetsExt

CONSTANTS
    HOUR, DAY,   \* minutes in an hour and in a day
    Minute,      \* a narrow chart's minute buckets: intervalHours below 1, five minutes or more
    Lookback,    \* LOOKBACK_DAYS
    RawSpan,     \* MAX_SNAPSHOT_RAW_RANGE_MS and MAX_MINUTE_BUCKET_RANGE_MS
    Fine,        \* the client pages' ten-minute buckets
    Live,        \* LIVE_TOLERANCE_MS
    Segments, MaxNow, MaxSamples, MaxWire

ASSUME CountersAssumption ==
    /\ {HOUR, DAY, Minute, Lookback, RawSpan, Fine, Live, Segments, MaxNow} \subseteq Nat \ {0}
    /\ DAY % HOUR = 0 /\ Lookback % HOUR = 0
    /\ Minute < HOUR /\ HOUR <= RawSpan /\ Fine <= HOUR /\ DAY <= Lookback

VARIABLES
    now,
    segment, cum,   \* the exporting process: its segment and its counter
    wire,           \* samples exported and not yet inserted
    raw,            \* otel_metrics_sum
    hourly          \* otel_metrics_sum_hourly: <<segment, hour>> -> row

vars == <<now, segment, cum, wire, raw, hourly>>

Temporalities == {"cumulative", "delta"}
Times == 0..MaxNow
Sample == [seg : 1..Segments, t : Times, cum : Nat, inc : Nat]

Bucket(width, t) == t - (t % width)
Total(f) == SumFunction(f)
MaxOr0(S) == Max(S \cup {0})
Positive(n) == IF n > 0 THEN n ELSE 0

Init ==
    /\ now = 0 /\ segment = 1 /\ cum = 0
    /\ wire = {} /\ raw = {} /\ hourly = <<>>

-----------------------------------------------------------------------------
(* The exporter and the tables.                                            *)

Tick ==
    /\ now < MaxNow
    /\ now' = now + 1
    /\ UNCHANGED <<segment, cum, wire, raw, hourly>>

\* The counter grew by inc since the last export; an idle process exports too.
Export(inc) ==
    /\ Cardinality(wire) < MaxWire /\ Cardinality(wire \cup raw) < MaxSamples
    /\ \A s \in wire \cup raw : s.seg = segment => s.t < now
    /\ cum' = cum + inc
    /\ wire' = wire \cup {[seg |-> segment, t |-> now, cum |-> cum', inc |-> inc]}
    /\ UNCHANGED <<now, segment, raw, hourly>>

\* The session is resumed by a new process: a counter and a SeriesKey of its own.
Restart ==
    /\ segment < Segments
    /\ segment' = segment + 1
    /\ cum' = 0
    /\ UNCHANGED <<now, wire, raw, hourly>>

\* The row the materialized view's insert of s merges into.
Merge(s) ==
    LET k == <<s.seg, Bucket(HOUR, s.t)>>
        old == IF k \in DOMAIN hourly THEN hourly[k] ELSE [mv |-> 0, sv |-> 0]
    IN [j \in DOMAIN hourly \cup {k} |->
            IF j # k THEN hourly[j]
            ELSE [mv |-> MaxOr0({old.mv, s.cum}), sv |-> old.sv + s.inc]]

\* A sample is inserted, in any order; the view folds it into its hour.
Insert(s) ==
    /\ wire' = wire \ {s}
    /\ raw' = raw \cup {s}
    /\ hourly' = Merge(s)
    /\ UNCHANGED <<now, segment, cum>>

Next ==
    \/ Tick
    \/ \E inc \in 0..1 : Export(inc)
    \/ Restart
    \/ \E s \in wire : Insert(s)

Spec == Init /\ [][Next]_vars

-----------------------------------------------------------------------------
(* The bounds of a question.                                               *)

\* incFlatRaw: short spans are read from the raw table.
IncFlatRaw(from, to) == to - from <= RawSpan

\* alignHistoricalTo and range: a past end of an hourly question moves to its hour.
RangeEnd(from, to, isRaw) ==
    LET aligned == IF now - to < Live THEN to ELSE Bucket(HOUR, to)
    IN IF isRaw \/ aligned <= from THEN to ELSE aligned

-----------------------------------------------------------------------------
(* incFlat: one increment per series.                                      *)

RawOf(seg, a, b) == {s \in raw : s.seg = seg /\ s.t >= a /\ s.t < b}
Hours(seg, a, b) == {k \in DOMAIN hourly : k[1] = seg /\ k[2] >= a /\ k[2] < b}

\* The scan begins at since, before from: what precedes it is no baseline.
RawIncrement(temp, seg, from, to, since) ==
    LET last(b) == MaxOr0({s.cum : s \in RawOf(seg, since, b)})
    IN IF temp = "cumulative" THEN Positive(last(to) - last(from))
       ELSE Total([s \in RawOf(seg, from, to) |-> s.inc])

\* Faulty: the hour of from is counted from its start, without the raw samples.
RollupIncrementNoStitch(temp, seg, from, to, since) ==
    LET h == Bucket(HOUR, from)
        top(b) == MaxOr0({hourly[k].mv : k \in Hours(seg, since, b)})
    IN IF temp = "cumulative" THEN Positive(top(to) - top(h))
       ELSE Total([k \in Hours(seg, h, to) |-> hourly[k].sv])

\* The hour of from is split by its raw samples: those before from raise the
\* baseline of a cumulative series, those after it replace a delta hour's sum.
RollupIncrement(temp, seg, from, to, since) ==
    LET h == Bucket(HOUR, from)
        top(b) == MaxOr0({hourly[k].mv : k \in Hours(seg, since, b)})
        baseline == MaxOr0({s.cum : s \in RawOf(seg, h, from)})
    IN IF temp = "cumulative" THEN Positive(top(to) - MaxOr0({top(h), baseline}))
       ELSE Total([k \in Hours(seg, h + 1, to) |-> hourly[k].sv])
                + Total([s \in RawOf(seg, from, h + HOUR) |-> s.inc])

\* The snapshot an endpoint asks for: incFlat over range().
Snapshot(temp, from, to) ==
    LET isRaw == IncFlatRaw(from, to)
        end == RangeEnd(from, to, isRaw)
        one(seg) == IF isRaw THEN RawIncrement(temp, seg, from, end, from - Lookback)
                    ELSE RollupIncrement(temp, seg, from, end, Bucket(HOUR, from) - Lookback)
    IN Total([seg \in 1..Segments |-> one(seg)])

\* effortMixSql and its kind (versions, languages): dimensions the roll-up lacks, so
\* the raw samples are diffed over [from, to) as it was asked for.
RawFigure(temp, from, to) ==
    Total([seg \in 1..Segments |-> RawIncrement(temp, seg, from, to, from - Lookback)])

\* alignedPrevFrom: the previous period, as long as the hours of the current one.
PreviousFrom(from, end) ==
    LET curFrom == Bucket(HOUR, from)
    IN curFrom - (Max({end, curFrom + HOUR}) - curFrom)

\* costByModelCompare: the window's figure, and that of the period before it.
Compare(temp, from, to) ==
    LET isRaw == IncFlatRaw(from, to)
        end == RangeEnd(from, to, isRaw)
        asked == from - (to - from)
        prevFrom == IF isRaw THEN asked ELSE PreviousFrom(from, end)
        prevTo == IF isRaw THEN from ELSE Bucket(HOUR, from)
        scan == (IF isRaw THEN asked ELSE Bucket(HOUR, asked)) - Lookback
        grown(seg, a, b) == IF isRaw THEN RawIncrement(temp, seg, a, b, scan)
                            ELSE RollupIncrement(temp, seg, a, b, scan)
    IN [current |-> Total([seg \in 1..Segments |-> grown(seg, from, end)]),
        previous |-> Total([seg \in 1..Segments |-> grown(seg, prevFrom, prevTo)]), since |-> prevFrom]

\* Faulty: the first hour's roll-up row counts as an observation.
ObservedWholeHour(seg, from, to) ==
    LET end == RangeEnd(from, to, IncFlatRaw(from, to))
    IN IF IncFlatRaw(from, to) THEN RawOf(seg, from, end) # {}
       ELSE Hours(seg, Bucket(HOUR, from), end) # {}

\* InWindow: the series was measured inside the window, growth or none.
ObservedInWindow(seg, from, to) ==
    LET isRaw == IncFlatRaw(from, to)
        end == RangeEnd(from, to, isRaw)
        h == Bucket(HOUR, from)
    IN IF isRaw THEN RawOf(seg, from, end) # {}
       ELSE \/ Hours(seg, h + 1, end) # {}
            \/ {s \in RawOf(seg, h, h + HOUR) : s.t >= from /\ s.t < end} # {}

-----------------------------------------------------------------------------
(* incBucketed and incBucketedRaw: one increment per series and bucket.    *)

\* lagInFrame: the last value before bucket t, 0 in the first one.
Lag(points, t) ==
    LET before == {p \in points : p.t < t}
    IN IF before = {} THEN 0 ELSE (CHOOSE p \in before : \A q \in before : q.t <= p.t).cum

\* Buckets are labelled by the clock; one whose label lies before from is dropped.
RawBuckets(temp, seg, from, to, label) ==
    LET rows == RawOf(seg, from - Lookback, to)
        in(t) == {s \in rows : label[s.t] = t}
        points == {[t |-> t, cum |-> IF temp = "cumulative" THEN MaxOr0({s.cum : s \in in(t)})
                                     ELSE Total([s \in in(t) |-> s.inc])] :
                      t \in {label[s.t] : s \in rows}}
    IN {[t |-> p.t, value |-> IF temp = "cumulative" THEN Positive(p.cum - Lag(points, p.t))
                              ELSE p.cum] : p \in {q \in points : q.t >= from}}

\* Faulty: the outer filter keeps the buckets that start at or after from.
KeepFrom(start, from) == from
\* The first bucket, which starts at or before from, stays in the answer.
KeepFirst(start, from) == start

\* The roll-up's rows per bucket, and the raw row that corrects the first one.
RollupBuckets(temp, seg, from, to, width) ==
    LET start == Bucket(width, from)
        stitch == RawOf(seg, start, Min({start + width, to}))
        rows == Hours(seg, Bucket(HOUR, from) - Lookback, to)
        in(t) == {k \in rows : Bucket(width, k[2]) = t}
        baseline == MaxOr0({s.cum : s \in {r \in stitch : r.t < from}})
        points == {[t |-> t, cum |-> IF temp = "cumulative" THEN MaxOr0({hourly[k].mv : k \in in(t)})
                                     ELSE Total([k \in in(t) |-> hourly[k].sv])] :
                      t \in {Bucket(width, k[2]) : k \in rows}
                            \cup (IF stitch = {} THEN {} ELSE {start})}
        grown(p) == Positive(p.cum - MaxOr0({Lag(points, p.t), IF p.t = start THEN baseline ELSE 0}))
        added(p) == IF p.t = start THEN Total([s \in {r \in stitch : r.t >= from} |-> s.inc]) ELSE p.cum
    IN {[t |-> p.t, value |-> IF temp = "cumulative" THEN grown(p) ELSE added(p)] :
            p \in {q \in points : q.t >= KeepFirst(start, from)}}

\* incBucket: minute buckets come from the raw table, others from the roll-up.
SeriesTotal(temp, from, to, width) ==
    LET isRaw == width < HOUR
        end == RangeEnd(from, to, isRaw)
        label == [t \in Times |-> Bucket(width, t)]
        points(seg) == IF isRaw THEN RawBuckets(temp, seg, from, end, label)
                       ELSE RollupBuckets(temp, seg, from, end, width)
    IN Total([seg \in 1..Segments |-> Total([p \in points(seg) |-> p.value])])

\* clientNativeBucketSeconds: a span of at most a day may be asked for in Fine buckets.
Finenesses(from, to) == IF to - from > RawSpan /\ to - from <= DAY THEN BOOLEAN ELSE {FALSE}

\* effectiveClientEnd, which clientOverview cuts the window to before it asks.
ClientEnd(from, to, fine) == RangeEnd(from, to, fine \/ IncFlatRaw(from, to))

\* clientClaudeRows: the raw bucket of from is split there, so that what precedes it
\* stays outside the answer.
ClientPoints(temp, seg, from, to, fine) ==
    LET end == ClientEnd(from, to, fine)
        width == IF fine THEN Fine ELSE 1
        split == [t \in Times |-> IF t >= from THEN Max({Bucket(width, t), from}) ELSE Bucket(width, t)]
    IN IF fine \/ IncFlatRaw(from, end) THEN RawBuckets(temp, seg, from, end, split)
       ELSE RollupBuckets(temp, seg, from, RangeEnd(from, end, FALSE), HOUR)

ClientFigure(temp, from, to, fine) ==
    Total([seg \in 1..Segments |-> Total([p \in ClientPoints(temp, seg, from, to, fine) |-> p.value])])

\* token_seen, cost_seen: a bucket that starts before from may hold a baseline only.
ClientObserved(seg, from, to, fine) ==
    LET end == ClientEnd(from, to, fine)
        first == RawOf(seg, from, Min({Bucket(HOUR, from) + HOUR, end}))
    IN \E p \in ClientPoints("delta", seg, from, to, fine) :
            fine \/ IncFlatRaw(from, end) \/ p.t >= from \/ first # {}

\* resolutionForSpan: minute buckets up to RawSpan, then hours, and days only in
\* a span of more than one bucket.  The month view counts days even on its first, and
\* the calendar hours or days, though a period up to today has just begun.
Widths(from, to) ==
    (IF to - from <= RawSpan THEN {Minute} ELSE {w \in {HOUR, DAY} : w < to - from})
        \cup (IF from % DAY = 0 /\ to > now THEN {HOUR, DAY} ELSE {})

-----------------------------------------------------------------------------
(* Properties.                                                             *)

Windows == {w \in Times \X Times : w[1] < w[2] /\ w[2] <= now + 1}

\* The growth between from and the first whole bucket of a minute chart.
CutAway(temp, from, to, width) ==
    LET whole == Min({Bucket(width, from + width - 1), to})
    IN IF width < HOUR
       THEN Total([seg \in 1..Segments |-> RawIncrement(temp, seg, from, whole, from - Lookback)])
       ELSE 0

\* The figure on a card is the sum of the chart under it, but for what a minute
\* bucket cut by from held, which the chart leaves out: for every window, temporality
\* and resolution the page offers, the increments of incBucket's buckets add up,
\* with that, to incFlat's snapshot, whatever hour or day the window cuts.
SeriesSumsToSnapshot ==
    \A w \in Windows, temp \in Temporalities : \A width \in Widths(w[1], w[2]) :
        SeriesTotal(temp, w[1], w[2], width) + CutAway(temp, w[1], w[2], width)
            = Snapshot(temp, w[1], w[2])

\* Growth as it was recorded, with neither roll-up nor lookback: a delta sample
\* is its own growth, a cumulative one exceeds the samples before it.
Growth(temp, s) ==
    IF temp = "delta" THEN s.inc
    ELSE s.cum - MaxOr0({r.cum : r \in {q \in raw : q.seg = s.seg /\ q.t < s.t}})

\* No series was silent, before the window, for longer than the lookback reaches.
BaselineInReach(from) ==
    \A s \in raw : s.t < from =>
        \E r \in raw : r.seg = s.seg /\ r.t < from /\ r.t >= from - Lookback

\* Nothing was recorded at or after to: the window is past, or reaches past now.
Closed(to) == now < to \/ now - to >= Live

\* The growth recorded in [from, to).
Recorded(temp, from, to) ==
    Total([s \in {r \in raw : r.t >= from /\ r.t < to} |-> Growth(temp, s)])

\* A figure is the growth recorded in its window, [from, to) with a past to of
\* an hourly question moved to its hour: a restart, a sample inserted late or an
\* hour or bucket cut by from adds nothing and loses nothing.  This holds for incFlat,
\* for the client pages and for the queries that diff the raw samples themselves.
FiguresExact ==
    \A w \in Windows, temp \in Temporalities :
        (BaselineInReach(w[1]) /\ Closed(w[2])) =>
            LET recorded(to) == Recorded(temp, w[1], to)
            IN /\ Snapshot(temp, w[1], w[2]) = recorded(RangeEnd(w[1], w[2], IncFlatRaw(w[1], w[2])))
               /\ RawFigure(temp, w[1], w[2]) = recorded(w[2])
               /\ \A fine \in Finenesses(w[1], w[2]) :
                    ClientFigure(temp, w[1], w[2], fine) = recorded(ClientEnd(w[1], w[2], fine))

\* The comparison is with the period before, as queries.js says ("vs the previous
\* period of equal length"): nothing recorded from its start to the end of the
\* window is in neither period.
ComparePeriodsAdjoin ==
    \A w \in Windows, temp \in Temporalities :
        LET c == Compare(temp, w[1], w[2])
        IN (BaselineInReach(w[1]) /\ BaselineInReach(c.since) /\ Closed(w[2])) =>
            c.previous + c.current
                = Recorded(temp, c.since, RangeEnd(w[1], w[2], IncFlatRaw(w[1], w[2])))

\* A measured zero is a zero that was measured: incFlat, and the client pages, mark a
\* series as observed exactly when a sample of it lies inside the window.
ObservedMeansMeasured ==
    \A w \in Windows, seg \in 1..Segments :
        Closed(w[2]) =>
            LET measured(to) == RawOf(seg, w[1], to) # {}
            IN /\ ObservedInWindow(seg, w[1], w[2])
                    <=> measured(RangeEnd(w[1], w[2], IncFlatRaw(w[1], w[2])))
               /\ \A fine \in Finenesses(w[1], w[2]) :
                    ClientObserved(seg, w[1], w[2], fine) <=> measured(ClientEnd(w[1], w[2], fine))
=============================================================================
