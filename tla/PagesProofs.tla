----------------------------- MODULE PagesProofs ------------------------------
(***************************************************************************)
(* Theorems about what the dashboard shows: that the figures and the       *)
(* charts of queries.js agree with the recorded samples (Counters), and    *)
(* that what a page shows is what its user selected (ApiHook), for any     *)
(* number of series, samples, selections, refreshes and requests under     *)
(* way.                                                                    *)
(***************************************************************************)
EXTENDS Counters, ApiHook, SumTheorems

(***************************************************************************)
(* Counters: figures and charts.  A series has at every time a level, the  *)
(* growth that its samples up to there add up to, which the raw rows and   *)
(* the rollup agree on; figures and bars are differences of levels.        *)
(***************************************************************************)

-----------------------------------------------------------------------------
(* Buckets.                                                                *)

Aligned(w, x) == \E q \in Int : x = w * q

LEMMA Spans ==
    /\ {HOUR, DAY, Minute, Lookback, RawSpan, Fine, Live, Segments, MaxNow} \subseteq Nat \ {0}
    /\ Minute < HOUR /\ HOUR <= RawSpan /\ Fine <= HOUR /\ DAY <= Lookback
    /\ Aligned(HOUR, DAY) /\ Aligned(HOUR, Lookback) /\ HOUR <= DAY
<1>1. \A x \in Nat \ {0} : x % HOUR = 0 => \E q \in Int : x = HOUR * q
    <2> SUFFICES ASSUME NEW x \in Nat \ {0}, x % HOUR = 0 PROVE x = HOUR * (x \div HOUR) /\ x \div HOUR \in Int
        OBVIOUS
    <2> QED
        BY CountersAssumption
<1>2. DAY % HOUR = 0 /\ Lookback % HOUR = 0 /\ {DAY, Lookback, HOUR} \subseteq Nat \ {0}
    BY CountersAssumption
<1>3. Aligned(HOUR, DAY) /\ Aligned(HOUR, Lookback)
    BY <1>1, <1>2 DEF Aligned
<1>4. HOUR <= DAY
    BY <1>2
<1> QED
    BY <1>3, <1>4, CountersAssumption

LEMMA BucketType ==
    ASSUME NEW w \in Nat \ {0}, NEW t \in Int
    PROVE  /\ Bucket(w, t) \in Int /\ Bucket(w, t) <= t /\ t < Bucket(w, t) + w
           /\ Aligned(w, Bucket(w, t))
<1>1. t % w \in 0..(w - 1) /\ t \div w \in Int
    OBVIOUS
<1>2. t = w * (t \div w) + (t % w)
    OBVIOUS
<1>3. t - (t % w) = w * (t \div w) /\ w * (t \div w) \in Int
    BY <1>1, <1>2
<1>4. t % w \in Int /\ 0 <= t % w /\ t % w < w
    BY <1>1
<1>5. Aligned(w, Bucket(w, t))
    BY <1>1, <1>3 DEF Bucket, Aligned
<1> QED
    BY <1>4, <1>5 DEF Bucket

LEMMA AlignedApart ==
    ASSUME NEW w \in Nat \ {0}, NEW x \in Int, NEW y \in Int, Aligned(w, x), Aligned(w, y), x < y
    PROVE  x + w <= y
<1>1. PICK p \in Int : x = w * p
    BY DEF Aligned
<1>2. PICK q \in Int : y = w * q
    BY DEF Aligned
<1>3. p < q
    BY <1>1, <1>2
<1>4. w * (p + 1) <= w * q /\ w * (p + 1) = w * p + w
    BY <1>3
<1> QED
    BY <1>1, <1>2, <1>4

LEMMA AlignedBucket ==
    ASSUME NEW w \in Nat \ {0}, NEW x \in Int, NEW t \in Int, Aligned(w, x), x <= t, t < x + w
    PROVE  Bucket(w, t) = x
<1>1. Bucket(w, t) \in Int /\ Bucket(w, t) <= t /\ t < Bucket(w, t) + w /\ Aligned(w, Bucket(w, t))
    BY BucketType
<1>2. CASE Bucket(w, t) < x
    BY <1>1, <1>2, AlignedApart
<1>3. CASE x < Bucket(w, t)
    BY <1>1, <1>3, AlignedApart
<1> QED
    BY <1>1, <1>2, <1>3

LEMMA AlignedSums ==
    ASSUME NEW w \in Nat \ {0}, NEW x \in Int, NEW y \in Int, Aligned(w, x), Aligned(w, y)
    PROVE  Aligned(w, x + y) /\ Aligned(w, x - y) /\ Aligned(w, w)
<1>1. PICK p \in Int : x = w * p
    BY DEF Aligned
<1>2. PICK q \in Int : y = w * q
    BY DEF Aligned
<1>3. p + q \in Int /\ p - q \in Int /\ w * (p + q) = w * p + w * q /\ w * (p - q) = w * p - w * q
    OBVIOUS
<1>4. w = w * 1
    OBVIOUS
<1>5. Aligned(w, x + y)
    BY <1>1, <1>2, <1>3 DEF Aligned
<1>6. Aligned(w, x - y)
    BY <1>1, <1>2, <1>3 DEF Aligned
<1>7. Aligned(w, w)
    BY <1>4 DEF Aligned
<1> QED
    BY <1>5, <1>6, <1>7

LEMMA AlignedDay ==
    ASSUME NEW x \in Int, Aligned(DAY, x)
    PROVE  Aligned(HOUR, x)
<1>1. PICK p \in Int : x = DAY * p
    BY DEF Aligned
<1>2. PICK q \in Int : DAY = HOUR * q
    BY Spans DEF Aligned
<1>3. x = HOUR * (q * p) /\ q * p \in Int
    BY <1>1, <1>2, Spans
<1> QED
    BY <1>3 DEF Aligned

-----------------------------------------------------------------------------
(* Totals and maxima of a set of rows, val[x] being the value of row x.    *)

Top(val, S) == MaxOr0({val[x] : x \in S})
Level(temp, val, S) == IF temp = "cumulative" THEN Top(val, S) ELSE SumFunctionOnSet(val, S)

LEMMA MaxOr0Facts ==
    ASSUME NEW S, IsFiniteSet(S), S \subseteq Nat
    PROVE  /\ MaxOr0(S) \in S \cup {0} /\ MaxOr0(S) \in Nat
           /\ \A x \in S : x <= MaxOr0(S)
<1> DEFINE Good == {T \in SUBSET S : \E m \in T \cup {0} : \A x \in T \cup {0} : m >= x}
<1>1. {} \in Good
    OBVIOUS
<1>2. ASSUME NEW T \in SUBSET S, NEW y \in S \ T, T \in Good PROVE T \cup {y} \in Good
    <2>1. PICK m \in T \cup {0} : \A x \in T \cup {0} : m >= x
        BY <1>2
    <2>2. m \in Nat /\ y \in Nat /\ \A x \in T \cup {0} : x \in Nat
        OBVIOUS
    <2>3. CASE y <= m
        BY <2>1, <2>2, <2>3
    <2>4. CASE m < y
        BY <2>1, <2>2, <2>4
    <2> QED
        BY <2>2, <2>3, <2>4
<1>3. S \in Good
    <2> HIDE DEF Good
    <2> QED
        BY <1>1, <1>2, SubsetInduction
<1>4. MaxOr0(S) \in S \cup {0} /\ \A x \in S \cup {0} : MaxOr0(S) >= x
    BY <1>3 DEF MaxOr0, Max
<1>5. \A x \in S \cup {0} : x \in Nat
    OBVIOUS
<1> QED
    BY <1>4, <1>5

LEMMA TopFacts ==
    ASSUME NEW S, IsFiniteSet(S), NEW val, \A x \in S : val[x] \in Nat
    PROVE  /\ Top(val, S) \in Nat /\ \A x \in S : val[x] <= Top(val, S)
           /\ Top(val, S) = 0 \/ \E x \in S : val[x] = Top(val, S)
<1> DEFINE V == {val[x] : x \in S}
<1>1. IsFiniteSet(V) /\ V \subseteq Nat
    BY FiniteImage
<1>2. MaxOr0(V) \in V \cup {0} /\ MaxOr0(V) \in Nat /\ \A x \in V : x <= MaxOr0(V)
    <2> HIDE DEF V
    <2> QED
        BY <1>1, MaxOr0Facts
<1> QED
    BY <1>2 DEF Top

LEMMA MaxOfTwo ==
    ASSUME NEW a \in Nat, NEW b \in Nat
    PROVE  MaxOr0({a, b}) = IF a <= b THEN b ELSE a
<1>1. IsFiniteSet({a, b})
    <2>1. {a, b} = {a} \cup {b}
        OBVIOUS
    <2>2. IsFiniteSet({a})
        BY FS_Singleton
    <2>3. IsFiniteSet({a} \cup {b})
        BY <2>2, FS_AddElement
    <2> QED
        BY <2>1, <2>3
<1>2. /\ MaxOr0({a, b}) \in {a, b} \cup {0} /\ MaxOr0({a, b}) \in Nat
      /\ a <= MaxOr0({a, b}) /\ b <= MaxOr0({a, b})
    BY <1>1, MaxOr0Facts
<1> QED
    BY <1>2

Valued(S, val) == IsFiniteSet(S) /\ \A x \in S : val[x] \in Nat

LEMMA LevelFacts ==
    ASSUME NEW S, NEW val, Valued(S, val), NEW temp \in Temporalities
    PROVE  \A T \in SUBSET S : Level(temp, val, T) \in Nat /\ (T = {} => Level(temp, val, T) = 0)
<1> SUFFICES ASSUME NEW T \in SUBSET S
             PROVE Level(temp, val, T) \in Nat /\ (T = {} => Level(temp, val, T) = 0)
    OBVIOUS
<1>1. IsFiniteSet(T) /\ \A x \in T : val[x] \in Nat
    BY FS_Subset DEF Valued
<1>2. Top(val, T) \in Nat /\ (Top(val, T) = 0 \/ \E x \in T : val[x] = Top(val, T))
    BY <1>1, TopFacts
<1>3. SumFunctionOnSet(val, T) \in Nat /\ (T = {} => SumFunctionOnSet(val, T) = 0)
    BY <1>1, IterSums, SumEmpty
<1> QED
    BY <1>2, <1>3 DEF Level

\* The level of rows that follow others: the sum adds theirs, the maximum is theirs.
LEMMA LevelAdds ==
    ASSUME NEW S, NEW val, Valued(S, val), NEW T \in SUBSET S, NEW U \in SUBSET S, T \cap U = {}
    PROVE  /\ Level("delta", val, T \cup U) = Level("delta", val, T) + Level("delta", val, U)
           /\ Level("cumulative", val, T \cup U) =
                MaxOr0({Level("cumulative", val, T), Level("cumulative", val, U)})
<1>1. IsFiniteSet(T \cup U) /\ IsFiniteSet(T) /\ IsFiniteSet(U) /\ \A x \in T \cup U : val[x] \in Nat
    BY FS_Subset DEF Valued
<1>2. (T \cup U) \ T = U /\ T \in SUBSET (T \cup U)
    OBVIOUS
<1>3. SumFunctionOnSet(val, T \cup U) = SumFunctionOnSet(val, T) + SumFunctionOnSet(val, U)
    BY <1>1, <1>2, SumSplit
<1>4. /\ \A V \in {T, U, T \cup U} :
            /\ Top(val, V) \in Nat /\ \A x \in V : val[x] <= Top(val, V)
            /\ Top(val, V) = 0 \/ \E x \in V : val[x] = Top(val, V)
    BY <1>1, TopFacts
<1>5. Top(val, T \cup U) = MaxOr0({Top(val, T), Top(val, U)})
    <2>1. MaxOr0({Top(val, T), Top(val, U)}) = IF Top(val, T) <= Top(val, U) THEN Top(val, U) ELSE Top(val, T)
        BY <1>4, MaxOfTwo
    <2>2. Top(val, T) <= Top(val, T \cup U) /\ Top(val, U) <= Top(val, T \cup U)
        <3>1. \A V \in {T, U} : \A x \in V : val[x] <= Top(val, T \cup U)
            BY <1>4
        <3> QED
            BY <1>4, <3>1
    <2>3. Top(val, T \cup U) <= Top(val, T) \/ Top(val, T \cup U) <= Top(val, U)
        BY <1>4
    <2> QED
        BY <1>4, <2>1, <2>2, <2>3
<1> QED
    BY <1>3, <1>5 DEF Level

\* g[k] is the level of the rows of key k.
LevelsOf(temp, val, S, key, g, K) == \A k \in K : g[k] = Level(temp, val, {s \in S : key[s] = k})

LEMMA LevelByKey ==
    ASSUME NEW S, NEW val, NEW K, NEW key, Grouped(S, val, K, key), NEW temp \in Temporalities,
           NEW g, LevelsOf(temp, val, S, key, g, K)
    PROVE  Level(temp, g, K) = Level(temp, val, S)
<1> USE DEF LevelsOf
<1>1. \A k \in K : IsFiniteSet({s \in S : key[s] = k}) /\ g[k] \in Nat
    <2> SUFFICES ASSUME NEW k \in K PROVE IsFiniteSet({s \in S : key[s] = k}) /\ g[k] \in Nat
        OBVIOUS
    <2> DEFINE T == {s \in S : key[s] = k}
    <2>1. T \in SUBSET S /\ g[k] = Level(temp, val, T)
        OBVIOUS
    <2> HIDE DEF T
    <2>2. IsFiniteSet(T) /\ Level(temp, val, T) \in Nat
        BY <2>1, LevelFacts, FS_Subset DEF Grouped, Valued
    <2> QED
        BY <2>1, <2>2 DEF T
<1>2. CASE temp = "cumulative"
    <2>1. /\ Top(val, S) \in Nat /\ \A x \in S : val[x] <= Top(val, S)
          /\ Top(val, S) = 0 \/ \E x \in S : val[x] = Top(val, S)
        BY TopFacts DEF Grouped
    <2>2. /\ Top(g, K) \in Nat /\ \A x \in K : g[x] <= Top(g, K)
          /\ Top(g, K) = 0 \/ \E x \in K : g[x] = Top(g, K)
        BY <1>1, TopFacts DEF Grouped
    <2>3. \A k \in K : /\ \A x \in S : key[x] = k => val[x] <= g[k]
                       /\ g[k] = 0 \/ \E x \in S : key[x] = k /\ val[x] = g[k]
        <3> SUFFICES ASSUME NEW k \in K
                     PROVE  /\ \A x \in S : key[x] = k => val[x] <= g[k]
                            /\ g[k] = 0 \/ \E x \in S : key[x] = k /\ val[x] = g[k]
            OBVIOUS
        <3> DEFINE T == {s \in S : key[s] = k}
        <3>1. IsFiniteSet(T) /\ \A x \in T : val[x] \in Nat
            BY <1>1 DEF Grouped
        <3>2. g[k] = Top(val, T)
            BY <1>2 DEF Level
        <3>3. /\ \A x \in T : val[x] <= Top(val, T)
              /\ Top(val, T) = 0 \/ \E x \in T : val[x] = Top(val, T)
            <4> HIDE DEF T
            <4> QED
                BY <3>1, TopFacts
        <3> QED
            BY <3>2, <3>3
    <2>4. Top(val, S) <= Top(g, K)
        BY <1>1, <2>1, <2>2, <2>3 DEF Grouped
    <2>5. Top(g, K) <= Top(val, S)
        BY <1>1, <2>1, <2>2, <2>3 DEF Grouped
    <2> QED
        BY <1>2, <2>1, <2>2, <2>4, <2>5 DEF Level
<1>3. CASE temp # "cumulative"
    <2>1. \A k \in K : g[k] = SumFunctionOnSet(val, {s \in S : key[s] = k})
        BY <1>3 DEF Level
    <2>2. SumFunctionOnSet(g, K) = SumFunctionOnSet(val, S)
        BY <2>1, SumByKey
    <2> QED
        BY <1>3, <2>2 DEF Level
<1> QED
    BY <1>2, <1>3

LEMMA LevelOne ==
    ASSUME NEW x, NEW val, val[x] \in Nat, NEW temp \in Temporalities
    PROVE  Level(temp, val, {x}) = val[x]
<1>1. IsFiniteSet({x}) /\ {x} \ {x} = {} /\ x \in {x} /\ \A y \in {x} : val[y] \in Nat
    BY FS_Singleton
<1>2. SumFunctionOnSet(val, {x}) = val[x]
    <2>1. SumFunctionOnSet(val, {x}) = val[x] + SumFunctionOnSet(val, {x} \ {x})
        BY <1>1, SumRemove
    <2>2. SumFunctionOnSet(val, {}) = 0
        BY SumEmpty
    <2> QED
        BY <1>1, <2>1, <2>2
<1>3. Top(val, {x}) = val[x]
    <2>1. /\ Top(val, {x}) \in Nat /\ val[x] <= Top(val, {x})
          /\ Top(val, {x}) = 0 \/ val[x] = Top(val, {x})
        BY <1>1, TopFacts
    <2> QED
        BY <2>1
<1> QED
    BY <1>2, <1>3 DEF Level

-----------------------------------------------------------------------------
(* The inductive invariant.                                                *)

Samples == wire \cup raw

TypeInv ==
    /\ now \in Times /\ segment \in 1..Segments /\ cum \in Nat
    /\ wire \subseteq Sample /\ raw \subseteq Sample /\ IsFiniteSet(wire) /\ IsFiniteSet(raw)

\* A series has one sample at a time, and its counter only grows.
OrderInv ==
    /\ wire \cap raw = {}
    /\ \A s \in Samples : s.t <= now /\ s.seg <= segment /\ (s.seg = segment => s.cum <= cum)
    /\ \A s, r \in Samples : s.seg = r.seg /\ s.t <= r.t => (s.t = r.t => s = r) /\ s.cum <= r.cum

SampleValue(temp) == [s \in Sample |-> IF temp = "cumulative" THEN s.cum ELSE s.inc]
HourValue(temp) == [k \in DOMAIN hourly |-> IF temp = "cumulative" THEN hourly[k].mv ELSE hourly[k].sv]
KeyOf(s) == <<s.seg, Bucket(HOUR, s.t)>>
RowsOf(k) == {s \in raw : KeyOf(s) = k}

\* A row of the roll-up is the level of its hour's samples, under both temporalities.
HourInv ==
    /\ DOMAIN hourly = {KeyOf(s) : s \in raw}
    /\ \A k \in DOMAIN hourly, temp \in Temporalities :
            HourValue(temp)[k] = Level(temp, SampleValue(temp), RowsOf(k))

IInv == TypeInv /\ OrderInv /\ HourInv

LEMMA InitKeeps == Init => IInv
<1> SUFFICES ASSUME Init PROVE IInv
    OBVIOUS
<1>1. wire = {} /\ raw = {} /\ DOMAIN hourly = {}
    BY DEF Init
<1>2. TypeInv
    <2>1. 0 \in Times /\ 1 \in 1..Segments
        BY Spans DEF Times
    <2> QED
        BY <1>1, <2>1, FS_EmptySet DEF Init, TypeInv
<1> QED
    BY <1>1, <1>2 DEF IInv, OrderInv, HourInv, Samples

LEMMA SampleFields ==
    ASSUME NEW s \in Sample
    PROVE  /\ s.seg \in 1..Segments /\ s.seg \in Nat /\ s.t \in Times /\ s.t \in Nat /\ s.t <= MaxNow
           /\ s.cum \in Nat /\ s.inc \in Nat
           /\ \A temp \in Temporalities : SampleValue(temp)[s] \in Nat
BY Spans DEF Sample, Times, SampleValue

LEMMA TickInv == ASSUME IInv, Tick PROVE IInv'
<1>1. now \in Nat /\ now' = now + 1 /\ now' \in Times /\ UNCHANGED <<segment, cum, wire, raw, hourly>>
    BY Spans DEF IInv, TypeInv, Tick, Times
<1>2. TypeInv'
    BY <1>1 DEF IInv, TypeInv, Times
<1>3. OrderInv'
    <2>1. \A s \in Samples : s.t \in Nat /\ s.t <= now
        BY SampleFields DEF IInv, TypeInv, OrderInv, Samples
    <2> QED
        BY <1>1, <2>1 DEF IInv, OrderInv, Samples
<1>4. HourInv'
    BY <1>1 DEF IInv, HourInv, HourValue, RowsOf
<1> QED
    BY <1>2, <1>3, <1>4 DEF IInv

LEMMA RestartInv == ASSUME IInv, Restart PROVE IInv'
<1>1. /\ segment \in Nat /\ segment' = segment + 1 /\ segment' \in 1..Segments /\ cum' = 0
      /\ UNCHANGED <<now, wire, raw, hourly>>
    BY Spans DEF IInv, TypeInv, Restart
<1>2. TypeInv'
    BY <1>1 DEF IInv, TypeInv
<1>3. OrderInv'
    <2>1. \A s \in Samples : s.seg \in Nat /\ s.seg <= segment
        BY SampleFields DEF IInv, TypeInv, OrderInv, Samples
    <2> QED
        BY <1>1, <2>1 DEF IInv, OrderInv, Samples
<1>4. HourInv'
    BY <1>1 DEF IInv, HourInv, HourValue, RowsOf
<1> QED
    BY <1>2, <1>3, <1>4 DEF IInv

LEMMA ExportInv == ASSUME IInv, NEW inc \in 0..1, Export(inc) PROVE IInv'
<1> DEFINE x == [seg |-> segment, t |-> now, cum |-> cum', inc |-> inc]
<1>1. /\ cum' = cum + inc /\ cum \in Nat /\ cum' \in Nat /\ inc \in Nat /\ wire' = wire \cup {x}
      /\ UNCHANGED <<now, segment, raw, hourly>>
      /\ \A s \in Samples : s.seg = segment => s.t < now
    BY DEF IInv, TypeInv, Export, Samples
<1>2. x \in Sample /\ x.seg = segment /\ x.t = now /\ x.cum = cum' /\ segment \in Nat /\ now \in Nat
    BY <1>1, Spans DEF IInv, TypeInv, Sample, Times
<1>3. \A s \in Samples : /\ s.seg \in Nat /\ s.t \in Nat /\ s.cum \in Nat
                         /\ s.t <= now /\ s.seg <= segment /\ (s.seg = segment => s.cum <= cum)
    BY SampleFields DEF IInv, TypeInv, OrderInv, Samples
<1> HIDE DEF x
<1>4. TypeInv'
    BY <1>1, <1>2, FS_AddElement DEF IInv, TypeInv
<1>5. x \notin Samples
    BY <1>1, <1>2, <1>3
<1>6. OrderInv'
    <2>1. wire' \cap raw' = {} /\ Samples' = Samples \cup {x}
        BY <1>1, <1>5 DEF IInv, OrderInv, Samples
    <2>2. \A s \in Samples \cup {x} :
              s.t <= now /\ s.seg <= segment /\ (s.seg = segment => s.cum <= cum')
        BY <1>1, <1>2, <1>3
    <2>3. \A s, r \in Samples \cup {x} :
              s.seg = r.seg /\ s.t <= r.t => (s.t = r.t => s = r) /\ s.cum <= r.cum
        <3> SUFFICES ASSUME NEW s \in Samples \cup {x}, NEW r \in Samples \cup {x},
                            s.seg = r.seg, s.t <= r.t
                     PROVE  (s.t = r.t => s = r) /\ s.cum <= r.cum
            OBVIOUS
        <3>1. CASE s \in Samples /\ r \in Samples
            BY <3>1 DEF IInv, OrderInv
        <3>2. CASE s = x
            BY <1>1, <1>2, <1>3, <3>2
        <3>3. CASE s \in Samples /\ r = x
            BY <1>1, <1>2, <1>3, <3>3
        <3> QED
            BY <3>1, <3>2, <3>3
    <2> QED
        BY <1>1, <2>1, <2>2, <2>3 DEF OrderInv
<1>7. HourInv'
    BY <1>1 DEF IInv, HourInv, HourValue, RowsOf
<1> QED
    BY <1>4, <1>6, <1>7 DEF IInv

LEMMA InsertInv == ASSUME IInv, NEW x \in wire, Insert(x) PROVE IInv'
<1>1. /\ wire' = wire \ {x} /\ raw' = raw \cup {x} /\ hourly' = Merge(x)
      /\ UNCHANGED <<now, segment, cum>> /\ x \in Sample /\ x \notin raw
    BY DEF IInv, TypeInv, OrderInv, Insert
<1>2. TypeInv'
    BY <1>1, FS_AddElement, FS_Subset DEF IInv, TypeInv
<1>3. OrderInv'
    <2>1. Samples' = Samples /\ wire' \cap raw' = {}
        BY <1>1 DEF IInv, OrderInv, Samples
    <2> QED
        BY <1>1, <2>1 DEF IInv, OrderInv
<1> DEFINE k == KeyOf(x)
           old == IF k \in DOMAIN hourly THEN hourly[k] ELSE [mv |-> 0, sv |-> 0]
<1>4. /\ DOMAIN hourly' = DOMAIN hourly \cup {k}
      /\ \A j \in DOMAIN hourly' : j # k => hourly'[j] = hourly[j]
      /\ hourly'[k] = [mv |-> MaxOr0({old.mv, x.cum}), sv |-> old.sv + x.inc]
    BY <1>1 DEF Merge, KeyOf
<1>5. \A j : RowsOf(j)' = IF j = k THEN RowsOf(j) \cup {x} ELSE RowsOf(j)
    BY <1>1 DEF RowsOf, KeyOf
<1>6. ASSUME NEW temp \in Temporalities
      PROVE  HourValue(temp)'[k] = Level(temp, SampleValue(temp), RowsOf(k) \cup {x})
    <2> DEFINE val == SampleValue(temp)
    <2>1. (IF temp = "cumulative" THEN old.mv ELSE old.sv) = Level(temp, val, RowsOf(k))
        <3>1. CASE k \in DOMAIN hourly
            BY <3>1 DEF IInv, HourInv, HourValue
        <3>2. CASE k \notin DOMAIN hourly
            <4>1. RowsOf(k) = {} /\ old = [mv |-> 0, sv |-> 0]
                BY <3>2 DEF IInv, HourInv, RowsOf
            <4>2. Level(temp, val, {}) = 0
                    BY LevelFacts, FS_EmptySet DEF Valued
            <4> QED
                BY <4>1, <4>2
        <3> QED
            BY <3>1, <3>2
    <2>2. /\ RowsOf(k) \cap {x} = {} /\ IsFiniteSet(raw \cup {x})
          /\ RowsOf(k) \in SUBSET (raw \cup {x}) /\ {x} \in SUBSET (raw \cup {x})
        BY <1>1, FS_AddElement DEF RowsOf, IInv, TypeInv
    <2>3. \A s \in raw \cup {x} : val[s] \in Nat
        BY <1>1, SampleFields DEF IInv, TypeInv
    <2>4. Level(temp, val, {x}) = val[x] /\ val[x] = IF temp = "cumulative" THEN x.cum ELSE x.inc
        BY <1>1, <2>3, LevelOne DEF SampleValue
    <2>5. HourValue(temp)'[k] = IF temp = "cumulative" THEN MaxOr0({old.mv, x.cum}) ELSE old.sv + x.inc
        BY <1>4 DEF HourValue
    <2>6. /\ Level("delta", val, RowsOf(k) \cup {x})
                = Level("delta", val, RowsOf(k)) + Level("delta", val, {x})
          /\ Level("cumulative", val, RowsOf(k) \cup {x}) =
                MaxOr0({Level("cumulative", val, RowsOf(k)), Level("cumulative", val, {x})})
        <3> DEFINE S == raw \cup {x}
                   T == RowsOf(k)
                   U == {x}
        <3>1. IsFiniteSet(S) /\ (\A s \in S : val[s] \in Nat) /\ T \in SUBSET S /\ U \in SUBSET S /\ T \cap U = {}
            BY <2>2, <2>3
        <3> HIDE DEF val, S, T, U
        <3>2. /\ Level("delta", val, T \cup U) = Level("delta", val, T) + Level("delta", val, U)
              /\ Level("cumulative", val, T \cup U)
                    = MaxOr0({Level("cumulative", val, T), Level("cumulative", val, U)})
            BY <3>1, LevelAdds DEF Valued
        <3> QED
            BY <3>2 DEF T, U
    <2>9. HourValue(temp)'[k] = Level(temp, SampleValue(temp), RowsOf(k) \cup {x})
            <=> HourValue(temp)'[k] = Level(temp, val, RowsOf(k) \cup {x})
        OBVIOUS
    <2> HIDE DEF val, old, k
    <2>7. CASE temp = "cumulative"
        BY <2>1, <2>4, <2>5, <2>6, <2>7, <2>9
    <2>8. CASE temp = "delta"
        BY <2>1, <2>4, <2>5, <2>6, <2>8, <2>9
    <2> QED
        BY <2>7, <2>8 DEF Temporalities, val
<1>7. HourInv'
    <2>1. DOMAIN hourly' = {KeyOf(s) : s \in raw'}
        BY <1>1, <1>4 DEF IInv, HourInv
    <2>2. ASSUME NEW j \in DOMAIN hourly', NEW temp \in Temporalities
          PROVE  HourValue(temp)'[j] = Level(temp, SampleValue(temp), RowsOf(j)')
        <3>1. CASE j = k
            BY <1>5, <1>6, <3>1
        <3>2. CASE j # k
            <4>1. j \in DOMAIN hourly /\ hourly'[j] = hourly[j] /\ RowsOf(j)' = RowsOf(j)
                BY <1>4, <1>5, <3>2
            <4>2. HourValue(temp)'[j] = HourValue(temp)[j]
                BY <2>2, <4>1 DEF HourValue
            <4> QED
                BY <4>1, <4>2 DEF IInv, HourInv
        <3> QED
            BY <3>1, <3>2
    <2> QED
        BY <2>1, <2>2 DEF HourInv, SampleValue
<1> QED
    BY <1>2, <1>3, <1>7 DEF IInv

\* The invariant that the figures rest on: samples of a series are ordered in time as in
\* value, none is inserted twice, and each row of the roll-up is the level of its hour's
\* samples (clickhouse-schema.sql, otel_metrics_sum_hourly_mv).
THEOREM InductiveInvariant == Spec => []IInv
<1>1. ASSUME IInv, [Next]_vars PROVE IInv'
    <2>1. CASE Tick
        BY <1>1, <2>1, TickInv
    <2>2. CASE Restart
        BY <1>1, <2>2, RestartInv
    <2>3. ASSUME NEW inc \in 0..1, Export(inc) PROVE IInv'
        BY <1>1, <2>3, ExportInv
    <2>4. ASSUME NEW s \in wire, Insert(s) PROVE IInv'
        BY <1>1, <2>4, InsertInv
    <2>5. CASE UNCHANGED vars
        BY <1>1, <2>5 DEF vars, IInv, TypeInv, OrderInv, HourInv, Samples, HourValue, RowsOf
    <2> QED
        BY <1>1, <2>1, <2>2, <2>3, <2>4, <2>5 DEF Next
<1> QED
    BY <1>1, InitKeeps, PTL DEF Spec

-----------------------------------------------------------------------------
(* Rows of the two tables.                                                 *)

RawLevel(temp, seg, a, b) == Level(temp, SampleValue(temp), RawOf(seg, a, b))
HourLevel(temp, seg, a, b) == Level(temp, HourValue(temp), Hours(seg, a, b))

LEMMA BucketNat ==
    ASSUME NEW w \in Nat \ {0}, NEW t \in Nat
    PROVE  Bucket(w, t) \in Nat
<1>1. Bucket(w, t) \in Int /\ t < Bucket(w, t) + w /\ Aligned(w, Bucket(w, t))
    BY BucketType
<1>2. Aligned(w, 0)
    <2>1. 0 = w * 0
        OBVIOUS
    <2> QED
        BY <2>1 DEF Aligned
<1>3. CASE Bucket(w, t) < 0
    BY <1>1, <1>2, <1>3, AlignedApart
<1> QED
    BY <1>1, <1>3

LEMMA KeyFacts ==
    ASSUME NEW s \in Sample
    PROVE  /\ KeyOf(s)[1] = s.seg /\ KeyOf(s)[2] = Bucket(HOUR, s.t)
           /\ Bucket(HOUR, s.t) \in Nat /\ Bucket(HOUR, s.t) <= s.t /\ s.t < Bucket(HOUR, s.t) + HOUR
           /\ Aligned(HOUR, Bucket(HOUR, s.t))
<1>1. s.t \in Nat /\ s.t \in Int /\ HOUR \in Nat \ {0}
    BY SampleFields, Spans
<1> QED
    BY <1>1, BucketNat, BucketType DEF KeyOf

\* An hour aligned with a bound lies on one side of it.
LEMMA HourBounds ==
    ASSUME NEW s \in Sample, NEW a \in Int, Aligned(HOUR, a)
    PROVE  /\ a <= s.t <=> a <= Bucket(HOUR, s.t)
           /\ s.t < a <=> Bucket(HOUR, s.t) < a
<1>1. /\ Bucket(HOUR, s.t) \in Int /\ Bucket(HOUR, s.t) <= s.t /\ s.t < Bucket(HOUR, s.t) + HOUR
      /\ Aligned(HOUR, Bucket(HOUR, s.t)) /\ HOUR \in Nat \ {0} /\ s.t \in Int
    BY KeyFacts, SampleFields, Spans
<1>2. Bucket(HOUR, s.t) < a => Bucket(HOUR, s.t) + HOUR <= a
    BY <1>1, AlignedApart
<1> QED
    BY <1>1, <1>2

LEMMA RawFacts ==
    ASSUME IInv
    PROVE  /\ IsFiniteSet(raw) /\ raw \subseteq Sample
           /\ \A s \in raw : s \in Sample /\ s.t <= now /\ s.t \in Nat /\ s.cum \in Nat /\ s.inc \in Nat
           /\ \A s, r \in raw : s.seg = r.seg /\ s.t <= r.t => (s.t = r.t => s = r) /\ s.cum <= r.cum
           /\ now \in Nat /\ now <= MaxNow
           /\ \A seg, a, b : RawOf(seg, a, b) \in SUBSET raw /\ IsFiniteSet(RawOf(seg, a, b))
           /\ \A temp \in Temporalities : \A s \in raw : SampleValue(temp)[s] \in Nat
<1>1. IsFiniteSet(raw) /\ raw \subseteq Sample /\ now \in Nat /\ now <= MaxNow
    BY Spans DEF IInv, TypeInv, Times
<1>2. \A seg, a, b : RawOf(seg, a, b) \in SUBSET raw
    BY DEF RawOf
<1>3. \A seg, a, b : IsFiniteSet(RawOf(seg, a, b))
    BY <1>1, <1>2, FS_Subset
<1>4. \A s \in raw : s.t <= now
    BY DEF IInv, OrderInv, Samples
<1>5. \A s, r \in raw : s.seg = r.seg /\ s.t <= r.t => (s.t = r.t => s = r) /\ s.cum <= r.cum
    BY DEF IInv, OrderInv, Samples
<1> QED
    BY <1>1, <1>2, <1>3, <1>4, <1>5, SampleFields

LEMMA HourFacts ==
    ASSUME IInv
    PROVE  /\ IsFiniteSet(DOMAIN hourly)
           /\ \A k \in DOMAIN hourly : /\ k[2] \in Nat /\ Aligned(HOUR, k[2])
                                       /\ \E s \in raw : k = KeyOf(s)
           /\ \A s \in raw : KeyOf(s) \in DOMAIN hourly
           /\ \A seg, a, b : Hours(seg, a, b) \in SUBSET (DOMAIN hourly) /\ IsFiniteSet(Hours(seg, a, b))
           /\ \A temp \in Temporalities : \A k \in DOMAIN hourly : HourValue(temp)[k] \in Nat
<1>1. DOMAIN hourly = {KeyOf(s) : s \in raw}
    BY DEF IInv, HourInv
<1>2. IsFiniteSet(DOMAIN hourly)
    <2> DEFINE key == [s \in raw |-> KeyOf(s)]
    <2>1. IsFiniteSet({key[s] : s \in raw})
        <3> HIDE DEF key
        <3> QED
            BY RawFacts, FiniteImage
    <2>2. {key[s] : s \in raw} = DOMAIN hourly
        BY <1>1
    <2> QED
        BY <2>1, <2>2
<1>3. \A seg, a, b : Hours(seg, a, b) \in SUBSET (DOMAIN hourly)
    BY DEF Hours
<1>4. \A seg, a, b : IsFiniteSet(Hours(seg, a, b))
    BY <1>2, <1>3, FS_Subset
<1>5. \A k \in DOMAIN hourly : k[2] \in Nat /\ Aligned(HOUR, k[2]) /\ \E s \in raw : k = KeyOf(s)
    <2> SUFFICES ASSUME NEW k \in DOMAIN hourly
                 PROVE  k[2] \in Nat /\ Aligned(HOUR, k[2]) /\ \E s \in raw : k = KeyOf(s)
        OBVIOUS
    <2>1. PICK s \in raw : k = KeyOf(s)
        BY <1>1
    <2> QED
        BY <2>1, RawFacts, KeyFacts
<1>6. \A temp \in Temporalities : \A k \in DOMAIN hourly : HourValue(temp)[k] \in Nat
    <2> SUFFICES ASSUME NEW temp \in Temporalities, NEW k \in DOMAIN hourly
                 PROVE  HourValue(temp)[k] \in Nat
        OBVIOUS
    <2>1. RowsOf(k) \in SUBSET raw
        BY DEF RowsOf
    <2>2. HourValue(temp)[k] = Level(temp, SampleValue(temp), RowsOf(k))
        BY DEF IInv, HourInv
    <2> QED
        BY <2>1, <2>2, RawFacts, LevelFacts DEF Valued
<1> QED
    BY <1>1, <1>2, <1>3, <1>4, <1>5, <1>6

\* Between bounds that no hour straddles, the roll-up says what the samples say.
LEMMA HoursAreRows ==
    ASSUME IInv, NEW temp \in Temporalities, NEW seg, NEW a \in Int, NEW b \in Int,
           Aligned(HOUR, a), Aligned(HOUR, b) \/ now < b
    PROVE  HourLevel(temp, seg, a, b) = RawLevel(temp, seg, a, b)
<1> DEFINE S == RawOf(seg, a, b)
           K == Hours(seg, a, b)
           key == [s \in raw |-> KeyOf(s)]
           val == SampleValue(temp)
           g == HourValue(temp)
<1>1. \A s \in raw : s.seg = seg => (s.t >= a <=> KeyOf(s)[2] >= a) /\ (s.t < b <=> KeyOf(s)[2] < b)
    <2> SUFFICES ASSUME NEW s \in raw
                 PROVE  (s.t >= a <=> KeyOf(s)[2] >= a) /\ (s.t < b <=> KeyOf(s)[2] < b)
        OBVIOUS
    <2>1. s \in Sample /\ s.t \in Nat /\ s.t <= now /\ now \in Nat
        BY RawFacts
    <2>2. KeyOf(s)[2] = Bucket(HOUR, s.t) /\ Bucket(HOUR, s.t) \in Nat /\ Bucket(HOUR, s.t) <= s.t
        BY <2>1, KeyFacts
    <2>3. a <= s.t <=> a <= Bucket(HOUR, s.t)
        BY <2>1, HourBounds
    <2>4. s.t < b <=> Bucket(HOUR, s.t) < b
        <3>1. CASE Aligned(HOUR, b)
            BY <2>1, <3>1, HourBounds
        <3>2. CASE now < b
            BY <2>1, <2>2, <3>2
        <3> QED
            BY <3>1, <3>2
    <2> QED
        BY <2>1, <2>2, <2>3, <2>4
<1>2. \A s \in raw : KeyOf(s)[1] = s.seg /\ KeyOf(s) \in DOMAIN hourly
    BY RawFacts, KeyFacts, HourFacts
<1>3. \A s \in raw : s \in S <=> KeyOf(s) \in K
    BY <1>1, <1>2 DEF RawOf, Hours
<1>4. Grouped(S, val, K, key)
    BY <1>3, RawFacts, HourFacts DEF Grouped
<1>5. LevelsOf(temp, val, S, key, g, K)
    <2> SUFFICES ASSUME NEW k \in K PROVE g[k] = Level(temp, val, {s \in S : key[s] = k})
        BY DEF LevelsOf
    <2>1. k \in DOMAIN hourly
        BY HourFacts
    <2>2. {s \in S : key[s] = k} = RowsOf(k)
        BY <1>3, RawFacts DEF RowsOf
    <2> QED
        BY <2>1, <2>2 DEF IInv, HourInv
<1> HIDE DEF S, K, key, val, g
<1>6. Level(temp, g, K) = Level(temp, val, S)
    BY <1>4, <1>5, LevelByKey
<1> QED
    BY <1>6 DEF RawLevel, HourLevel, S, K, val, g

LEMMA LevelGrows ==
    ASSUME NEW S, NEW val, Valued(S, val), NEW temp \in Temporalities,
           NEW T \in SUBSET S, NEW U \in SUBSET T
    PROVE  /\ Level(temp, val, U) \in Nat /\ Level(temp, val, T) \in Nat
           /\ Level(temp, val, U) <= Level(temp, val, T)
<1> DEFINE V == T \ U
<1>1. T = U \cup V /\ U \cap V = {} /\ U \in SUBSET S /\ V \in SUBSET S
    OBVIOUS
<1>2. \A W \in {T, U, V} : Level(temp, val, W) \in Nat
    BY <1>1, LevelFacts
<1> HIDE DEF V
<1>3. /\ Level("delta", val, U \cup V) = Level("delta", val, U) + Level("delta", val, V)
      /\ Level("cumulative", val, U \cup V) = MaxOr0({Level("cumulative", val, U), Level("cumulative", val, V)})
    BY <1>1, LevelAdds
<1>4. CASE temp = "delta"
    BY <1>1, <1>2, <1>3, <1>4
<1>5. CASE temp = "cumulative"
    BY <1>1, <1>2, <1>3, <1>5, MaxOfTwo
<1> QED
    BY <1>2, <1>4, <1>5 DEF Temporalities

\* What the samples up to c say, given those up to b and those after.
RawGrows(temp, seg, a, b, c) ==
    /\ RawLevel(temp, seg, a, b) \in Nat /\ RawLevel(temp, seg, a, c) \in Nat
    /\ RawLevel(temp, seg, b, c) \in Nat
    /\ RawLevel(temp, seg, a, b) <= RawLevel(temp, seg, a, c)
    /\ RawLevel("delta", seg, a, c) = RawLevel("delta", seg, a, b) + RawLevel("delta", seg, b, c)
    /\ RawLevel("cumulative", seg, a, c) =
            MaxOr0({RawLevel("cumulative", seg, a, b), RawLevel("cumulative", seg, b, c)})

LEMMA RawLevelGrows ==
    ASSUME IInv, NEW temp \in Temporalities, NEW seg, NEW a \in Int, NEW b \in Int, NEW c \in Int,
           a <= b, b <= c
    PROVE  RawGrows(temp, seg, a, b, c)
<1> DEFINE T == RawOf(seg, a, b)
           U == RawOf(seg, b, c)
           V == RawOf(seg, a, c)
           val(tt) == SampleValue(tt)
<1>1. V = T \cup U /\ T \cap U = {} /\ T \in SUBSET raw /\ U \in SUBSET raw
    <2>1. \A s \in raw : s.t \in Nat
        BY RawFacts
    <2>2. \A s \in raw : (s.t >= a /\ s.t < c) <=> (s.t >= a /\ s.t < b) \/ (s.t >= b /\ s.t < c)
        BY <2>1
    <2>3. \A s \in raw : ~(s.t < b /\ s.t >= b)
        BY <2>1
    <2> QED
        BY <2>2, <2>3 DEF RawOf
<1>2. \A tt \in Temporalities : Valued(raw, val(tt))
    BY RawFacts DEF Valued
<1>3. V \in SUBSET raw /\ V \ T = U /\ T \in SUBSET V
    BY <1>1
<1> HIDE DEF T, U, V, val
<1>4. /\ Level("delta", val("delta"), T \cup U) = Level("delta", val("delta"), T) + Level("delta", val("delta"), U)
      /\ Level("cumulative", val("cumulative"), T \cup U) =
                MaxOr0({Level("cumulative", val("cumulative"), T), Level("cumulative", val("cumulative"), U)})
    <2> DEFINE vd == val("delta")
               vc == val("cumulative")
    <2>1. Valued(raw, vd) /\ Valued(raw, vc)
        BY <1>2 DEF Temporalities
    <2> HIDE DEF vd, vc
    <2>2. /\ Level("delta", vd, T \cup U) = Level("delta", vd, T) + Level("delta", vd, U)
          /\ Level("cumulative", vd, T \cup U)
                = MaxOr0({Level("cumulative", vd, T), Level("cumulative", vd, U)})
        BY <1>1, <2>1, LevelAdds
    <2>3. Level("cumulative", vc, T \cup U)
                = MaxOr0({Level("cumulative", vc, T), Level("cumulative", vc, U)})
        BY <1>1, <2>1, LevelAdds
    <2> QED
        BY <2>2, <2>3 DEF vd, vc
<1>5. /\ Level(temp, val(temp), T) \in Nat /\ Level(temp, val(temp), V) \in Nat
      /\ Level(temp, val(temp), T) <= Level(temp, val(temp), V)
    BY <1>2, <1>3, LevelGrows
<1>6. Level(temp, val(temp), U) \in Nat
    BY <1>1, <1>2, LevelFacts
<1> QED
    BY <1>1, <1>3, <1>4, <1>5, <1>6 DEF RawGrows, RawLevel, T, U, V, val

\* Levels as the queries write them.
LEMMA RowsWritten ==
    ASSUME IInv, NEW R \in SUBSET raw
    PROVE  /\ MaxOr0({s.cum : s \in R}) = Level("cumulative", SampleValue("cumulative"), R)
           /\ Total([s \in R |-> s.inc]) = Level("delta", SampleValue("delta"), R)
<1>1. IsFiniteSet(R) /\ \A s \in R : s \in Sample /\ s.inc \in Nat
    BY RawFacts, FS_Subset
<1>2. \A s \in R : SampleValue("cumulative")[s] = s.cum /\ SampleValue("delta")[s] = s.inc
    BY <1>1 DEF SampleValue
<1>3. {s.cum : s \in R} = {SampleValue("cumulative")[s] : s \in R}
    BY <1>2
<1> DEFINE f == [s \in R |-> s.inc]
           g == SampleValue("delta")
<1>4. (\A s \in R : f[s] \in Nat) /\ (\A s \in R : f[s] = g[s]) /\ DOMAIN f = R
    BY <1>1, <1>2
<1> HIDE DEF f, g
<1>5. SumFunctionOnSet(f, R) = SumFunctionOnSet(g, R)
    BY <1>1, <1>4, SumSame
<1>6. Total(f) = SumFunctionOnSet(f, R)
    BY <1>4 DEF Total, SumFunction
<1> QED
    BY <1>3, <1>5, <1>6 DEF Level, Top, f, g

LEMMA HoursWritten ==
    ASSUME IInv, NEW K \in SUBSET (DOMAIN hourly)
    PROVE  /\ MaxOr0({hourly[k].mv : k \in K}) = Level("cumulative", HourValue("cumulative"), K)
           /\ Total([k \in K |-> hourly[k].sv]) = Level("delta", HourValue("delta"), K)
<1>2. \A k \in K : HourValue("cumulative")[k] = hourly[k].mv /\ HourValue("delta")[k] = hourly[k].sv
    BY DEF HourValue
<1>1. IsFiniteSet(K) /\ \A k \in K : hourly[k].sv \in Nat
    BY <1>2, HourFacts, FS_Subset DEF Temporalities
<1>3. {hourly[k].mv : k \in K} = {HourValue("cumulative")[k] : k \in K}
    BY <1>2
<1> DEFINE f == [k \in K |-> hourly[k].sv]
           g == HourValue("delta")
<1>4. (\A s \in K : f[s] \in Nat) /\ (\A s \in K : f[s] = g[s]) /\ DOMAIN f = K
    BY <1>1, <1>2
<1> HIDE DEF f, g
<1>5. SumFunctionOnSet(f, K) = SumFunctionOnSet(g, K)
    BY <1>1, <1>4, SumSame
<1>6. Total(f) = SumFunctionOnSet(f, K)
    BY <1>4 DEF Total, SumFunction
<1> QED
    BY <1>3, <1>5, <1>6 DEF Level, Top, f, g

-----------------------------------------------------------------------------
(* incFlat.                                                                *)

LEMMA RawIncrementIs ==
    ASSUME IInv, NEW temp \in Temporalities, NEW seg,
           NEW since \in Int, NEW from \in Int, NEW to \in Int, since <= from, from <= to
    PROVE  RawIncrement(temp, seg, from, to, since)
                = RawLevel(temp, seg, since, to) - RawLevel(temp, seg, since, from)
<1>1. /\ RawLevel(temp, seg, since, from) \in Nat /\ RawLevel(temp, seg, since, to) \in Nat
      /\ RawLevel(temp, seg, from, to) \in Nat
      /\ RawLevel(temp, seg, since, from) <= RawLevel(temp, seg, since, to)
      /\ RawLevel("delta", seg, since, to)
            = RawLevel("delta", seg, since, from) + RawLevel("delta", seg, from, to)
    <2>1. RawGrows(temp, seg, since, from, to)
        BY RawLevelGrows
    <2> QED
        BY <2>1 DEF RawGrows
<1>2. CASE temp = "cumulative"
    <2>1. \A b : MaxOr0({s.cum : s \in RawOf(seg, since, b)}) = RawLevel(temp, seg, since, b)
        BY <1>2, RawFacts, RowsWritten DEF RawLevel
    <2>2. RawIncrement(temp, seg, from, to, since)
                = Positive(RawLevel(temp, seg, since, to) - RawLevel(temp, seg, since, from))
        BY <1>2, <2>1 DEF RawIncrement
    <2> QED
        BY <1>1, <2>2 DEF Positive
<1>3. CASE temp = "delta"
    <2>1. RawIncrement(temp, seg, from, to, since) = RawLevel(temp, seg, from, to)
        BY <1>3, RawFacts, RowsWritten DEF RawIncrement, RawLevel
    <2> QED
        BY <1>1, <1>3, <2>1
<1> QED
    BY <1>2, <1>3 DEF Temporalities

\* The hours of a scan up to one hour, and those after it.
LEMMA HourLevelSplits ==
    ASSUME IInv, NEW temp \in Temporalities, NEW seg, NEW since \in Int, NEW h \in Int, NEW to \in Int,
           Aligned(HOUR, h), since <= h, h < to
    PROVE  /\ HourLevel(temp, seg, since, h + HOUR) \in Nat /\ HourLevel(temp, seg, since, to) \in Nat
           /\ HourLevel(temp, seg, h + 1, to) \in Nat
           /\ HourLevel(temp, seg, since, h + HOUR) <= HourLevel(temp, seg, since, to)
           /\ HourLevel("delta", seg, since, to)
                = HourLevel("delta", seg, since, h + HOUR) + HourLevel("delta", seg, h + 1, to)
<1> DEFINE T == Hours(seg, since, h + HOUR)
           U == Hours(seg, h + 1, to)
           V == Hours(seg, since, to)
           K == DOMAIN hourly
           val == HourValue(temp)
           vd == HourValue("delta")
<1>1. V = T \cup U /\ T \cap U = {} /\ T \in SUBSET K /\ U \in SUBSET K
    <2>1. \A k \in K : k[2] \in Nat /\ (k[2] < h + HOUR <=> k[2] <= h)
        <3> SUFFICES ASSUME NEW k \in K PROVE k[2] \in Nat /\ (k[2] < h + HOUR <=> k[2] <= h)
            OBVIOUS
        <3>1. k[2] \in Nat /\ k[2] \in Int /\ Aligned(HOUR, k[2]) /\ HOUR \in Nat \ {0}
            BY HourFacts, Spans
        <3>2. h < k[2] => h + HOUR <= k[2]
            BY <3>1, AlignedApart
        <3> QED
            BY <3>1, <3>2
    <2>2. \A k \in K : k[2] >= since /\ k[2] < to
                <=> (k[2] >= since /\ k[2] < h + HOUR) \/ (k[2] >= h + 1 /\ k[2] < to)
        BY <2>1
    <2>3. \A k \in K : ~(k[2] < h + HOUR /\ k[2] >= h + 1)
        BY <2>1
    <2> QED
        BY <2>2, <2>3 DEF Hours
<1>2. Valued(K, val) /\ Valued(K, vd)
    BY HourFacts DEF Valued, Temporalities
<1>3. V \in SUBSET K /\ T \in SUBSET V
    BY <1>1
<1> HIDE DEF T, U, V, K, val, vd
<1>4. Level(temp, val, T) \in Nat /\ Level(temp, val, V) \in Nat /\ Level(temp, val, T) <= Level(temp, val, V)
    BY <1>2, <1>3, LevelGrows
<1>5. Level(temp, val, U) \in Nat
    BY <1>1, <1>2, LevelFacts
<1>6. /\ Level("delta", vd, T \cup U) = Level("delta", vd, T) + Level("delta", vd, U)
      /\ Level("cumulative", vd, T \cup U)
            = MaxOr0({Level("cumulative", vd, T), Level("cumulative", vd, U)})
    BY <1>1, <1>2, LevelAdds
<1> QED
    BY <1>1, <1>4, <1>5, <1>6 DEF HourLevel, T, U, V, val, vd

LEMMA RollupIncrementIs ==
    ASSUME IInv, NEW temp \in Temporalities, NEW seg,
           NEW since \in Int, NEW from \in Nat, NEW to \in Int,
           Aligned(HOUR, since), since <= Bucket(HOUR, from), from < to
    PROVE  /\ RollupIncrement(temp, seg, from, to, since)
                = HourLevel(temp, seg, since, to) - RawLevel(temp, seg, since, from)
           /\ HourLevel(temp, seg, since, to) \in Nat /\ RawLevel(temp, seg, since, from) \in Nat
           /\ RawLevel(temp, seg, since, from) <= HourLevel(temp, seg, since, to)
<1> DEFINE h == Bucket(HOUR, from)
           c == h + HOUR
<1>1. /\ h \in Int /\ c \in Int /\ Aligned(HOUR, h) /\ Aligned(HOUR, c)
      /\ since <= h /\ h <= from /\ from < c /\ from <= c /\ h < to
    <2>1. HOUR \in Nat \ {0} /\ HOUR \in Int /\ from \in Int
        BY Spans
    <2>2. h \in Int /\ h <= from /\ from < h + HOUR /\ Aligned(HOUR, h)
        BY <2>1, BucketType
    <2>3. Aligned(HOUR, HOUR)
        BY <2>1, <2>2, AlignedSums
    <2>4. Aligned(HOUR, h + HOUR)
        BY <2>1, <2>2, <2>3, AlignedSums
    <2> QED
        BY <2>1, <2>2, <2>4
<1>2. RollupIncrement(temp, seg, from, to, since) =
        IF temp = "cumulative"
        THEN Positive(MaxOr0({hourly[k].mv : k \in Hours(seg, since, to)})
                        - MaxOr0({MaxOr0({hourly[k].mv : k \in Hours(seg, since, h)}),
                                  MaxOr0({s.cum : s \in RawOf(seg, h, from)})}))
        ELSE Total([k \in Hours(seg, h + 1, to) |-> hourly[k].sv])
                + Total([s \in RawOf(seg, from, c) |-> s.inc])
    BY DEF RollupIncrement
<1> HIDE DEF h, c
<1>3. /\ HourLevel(temp, seg, since, h) = RawLevel(temp, seg, since, h)
      /\ HourLevel(temp, seg, since, c) = RawLevel(temp, seg, since, c)
    BY <1>1, HoursAreRows
<1>4. /\ HourLevel(temp, seg, since, c) \in Nat /\ HourLevel(temp, seg, since, to) \in Nat
      /\ HourLevel(temp, seg, h + 1, to) \in Nat
      /\ HourLevel(temp, seg, since, c) <= HourLevel(temp, seg, since, to)
      /\ HourLevel("delta", seg, since, to)
            = HourLevel("delta", seg, since, c) + HourLevel("delta", seg, h + 1, to)
    <2>1. /\ HourLevel(temp, seg, since, h + HOUR) \in Nat /\ HourLevel(temp, seg, since, to) \in Nat
          /\ HourLevel(temp, seg, h + 1, to) \in Nat
          /\ HourLevel(temp, seg, since, h + HOUR) <= HourLevel(temp, seg, since, to)
          /\ HourLevel("delta", seg, since, to)
                = HourLevel("delta", seg, since, h + HOUR) + HourLevel("delta", seg, h + 1, to)
        BY <1>1, HourLevelSplits DEF c
    <2> QED
        BY <2>1 DEF c
<1>11. since <= from /\ from \in Int
    BY <1>1
<1>5. /\ RawLevel(temp, seg, since, from) \in Nat /\ RawLevel(temp, seg, since, c) \in Nat
      /\ RawLevel(temp, seg, from, c) \in Nat
      /\ RawLevel(temp, seg, since, from) <= RawLevel(temp, seg, since, c)
      /\ RawLevel("delta", seg, since, c) = RawLevel("delta", seg, since, from) + RawLevel("delta", seg, from, c)
    <2>1. RawGrows(temp, seg, since, from, c)
        BY <1>1, <1>11, RawLevelGrows
    <2> QED
        BY <2>1 DEF RawGrows
<1>6. RawLevel(temp, seg, since, from) <= HourLevel(temp, seg, since, to)
    BY <1>3, <1>4, <1>5
<1>7. CASE temp = "cumulative"
    <2>1. RawLevel("cumulative", seg, since, from) =
                MaxOr0({RawLevel("cumulative", seg, since, h), RawLevel("cumulative", seg, h, from)})
        <3>1. RawGrows(temp, seg, since, h, from)
            BY <1>1, <1>11, RawLevelGrows
        <3> QED
            BY <3>1 DEF RawGrows
    <2>2. \A b : MaxOr0({hourly[k].mv : k \in Hours(seg, since, b)}) = HourLevel(temp, seg, since, b)
        BY <1>7, HourFacts, HoursWritten DEF HourLevel
    <2>3. MaxOr0({s.cum : s \in RawOf(seg, h, from)}) = RawLevel(temp, seg, h, from)
        BY <1>7, RawFacts, RowsWritten DEF RawLevel
    <2>4. RollupIncrement(temp, seg, from, to, since)
                = Positive(HourLevel(temp, seg, since, to) - RawLevel(temp, seg, since, from))
        BY <1>2, <1>3, <1>7, <2>1, <2>2, <2>3
    <2> QED
        BY <1>4, <1>5, <1>6, <2>4 DEF Positive
<1>8. CASE temp = "delta"
    <2>1. RollupIncrement(temp, seg, from, to, since)
                = HourLevel(temp, seg, h + 1, to) + RawLevel(temp, seg, from, c)
        <3>1. Total([k \in Hours(seg, h + 1, to) |-> hourly[k].sv]) = HourLevel(temp, seg, h + 1, to)
            BY <1>8, HourFacts, HoursWritten DEF HourLevel
        <3>2. Total([s \in RawOf(seg, from, c) |-> s.inc]) = RawLevel(temp, seg, from, c)
            BY <1>8, RawFacts, RowsWritten DEF RawLevel
        <3> QED
            BY <1>2, <1>8, <3>1, <3>2
    <2> QED
        BY <1>3, <1>4, <1>5, <1>6, <1>8, <2>1
<1> QED
    BY <1>7, <1>8 DEF Temporalities

-----------------------------------------------------------------------------
(* Buckets of a series: R are its rows, val their values, lab the bucket   *)
(* each lies in.                                                           *)

Upto(R, lab, n) == {x \in R : lab[x] < n}
In(R, lab, n) == {x \in R : lab[x] = n}
PointsOf(temp, val, R, lab) ==
    {[t |-> n, cum |-> Level(temp, val, In(R, lab, n))] : n \in {lab[x] : x \in R}}
RiseOf(temp, points, p) == IF temp = "cumulative" THEN Positive(p.cum - Lag(points, p.t)) ELSE p.cum

Labelled(R, val, lab) == Valued(R, val) /\ \A x \in R : lab[x] \in Nat
Rising(R, val, lab) == \A x, y \in R : lab[x] < lab[y] => val[x] <= val[y]

LEMMA UptoFacts ==
    ASSUME NEW R, NEW val, NEW lab, Labelled(R, val, lab), NEW n \in Nat
    PROVE  /\ Upto(R, lab, n) \in SUBSET R /\ In(R, lab, n) \in SUBSET R
           /\ Upto(R, lab, n) \cap In(R, lab, n) = {}
           /\ Upto(R, lab, n + 1) = Upto(R, lab, n) \cup In(R, lab, n)
<1>1. \A x \in R : lab[x] < n + 1 <=> lab[x] < n \/ lab[x] = n
    BY DEF Labelled
<1>2. \A x \in R : ~(lab[x] < n /\ lab[x] = n)
    BY DEF Labelled
<1> QED
    BY <1>1, <1>2 DEF Upto, In

\* The last bucket of rising rows holds the largest value.
LEMMA LastBucket ==
    ASSUME NEW R, NEW val, NEW lab, Labelled(R, val, lab), Rising(R, val, lab), NEW n \in Nat,
           NEW x \in R, lab[x] < n, \A y \in R : lab[y] < n => lab[y] <= lab[x]
    PROVE  Level("cumulative", val, Upto(R, lab, n)) = Level("cumulative", val, In(R, lab, lab[x]))
<1> DEFINE U == Upto(R, lab, n)
           I == In(R, lab, lab[x])
<1>1. I \in SUBSET U /\ U \in SUBSET R /\ x \in I
    BY DEF Upto, In
<1>2. \A y \in U : y \in I \/ val[y] <= val[x]
    BY DEF Upto, In, Rising, Labelled
<1>3. IsFiniteSet(U) /\ IsFiniteSet(I) /\ \A y \in U : val[y] \in Nat
    BY <1>1, FS_Subset DEF Labelled, Valued
<1> HIDE DEF U, I
<1>4. /\ Top(val, U) \in Nat /\ \A y \in U : val[y] <= Top(val, U)
      /\ Top(val, U) = 0 \/ \E y \in U : val[y] = Top(val, U)
    BY <1>3, TopFacts
<1>5. /\ Top(val, I) \in Nat /\ \A y \in I : val[y] <= Top(val, I)
      /\ Top(val, I) = 0 \/ \E y \in I : val[y] = Top(val, I)
    BY <1>1, <1>3, TopFacts
<1>6. Top(val, I) <= Top(val, U)
    BY <1>1, <1>3, <1>4, <1>5
<1>7. Top(val, U) <= Top(val, I)
    BY <1>1, <1>2, <1>3, <1>4, <1>5
<1> QED
    BY <1>4, <1>5, <1>6, <1>7 DEF Level, U, I

LEMMA LagIs ==
    ASSUME NEW R, NEW val, NEW lab, Labelled(R, val, lab), Rising(R, val, lab), NEW n \in Nat
    PROVE  Lag(PointsOf("cumulative", val, R, lab), n) = Level("cumulative", val, Upto(R, lab, n))
<1> DEFINE points == PointsOf("cumulative", val, R, lab)
           before == {p \in points : p.t < n}
           U == Upto(R, lab, n)
<1>1. Lag(points, n) = IF before = {} THEN 0
                       ELSE (CHOOSE p \in before : \A q \in before : q.t <= p.t).cum
    BY DEF Lag
<1>2. \A p \in points : \E x \in R : p.t = lab[x] /\ p.cum = Level("cumulative", val, In(R, lab, lab[x]))
    BY DEF PointsOf
<1>3. \A x \in R : \E p \in points : p.t = lab[x]
    <2> SUFFICES ASSUME NEW x \in R PROVE \E p \in points : p.t = lab[x]
        OBVIOUS
    <2>1. [t |-> lab[x], cum |-> Level("cumulative", val, In(R, lab, lab[x]))] \in points
        BY DEF PointsOf
    <2> QED
        BY <2>1
<1> HIDE DEF points
<1>4. CASE before = {}
    <2>1. U = {}
        BY <1>3, <1>4 DEF Upto
    <2>2. Level("cumulative", val, {}) = 0
        BY LevelFacts DEF Labelled, Temporalities
    <2> QED
        BY <1>1, <1>4, <2>1, <2>2 DEF points
<1>5. CASE before # {}
    <2> DEFINE L == {lab[x] : x \in U}
    <2>1. U \in SUBSET R /\ IsFiniteSet(U)
        BY FS_Subset DEF Upto, Labelled, Valued
    <2>2. IsFiniteSet(L) /\ L \subseteq Nat /\ L # {}
        <3>1. IsFiniteSet(L)
            BY <2>1, FiniteImage
        <3>2. U # {}
            BY <1>2, <1>5 DEF Upto
        <3> QED
            BY <2>1, <3>1, <3>2 DEF Labelled
    <2>3. MaxOr0(L) \in L \cup {0} /\ MaxOr0(L) \in Nat /\ \A m \in L : m <= MaxOr0(L)
        <3> HIDE DEF L
        <3> QED
            BY <2>2, MaxOr0Facts
    <2>4. MaxOr0(L) \in L
        <3>1. PICK m \in L : m \in Nat /\ m <= MaxOr0(L)
            BY <2>2, <2>3
        <3> HIDE DEF L
        <3>2. MaxOr0(L) # 0 \/ m = MaxOr0(L)
            BY <3>1
        <3> QED
            BY <2>3, <3>1, <3>2
    <2>5. PICK x \in U : lab[x] = MaxOr0(L)
        BY <2>4
    <2>6. x \in R /\ lab[x] < n /\ \A y \in R : lab[y] < n => lab[y] <= lab[x]
        BY <2>3, <2>5 DEF Upto
    <2>7. PICK p0 \in points : p0.t = lab[x]
        BY <1>3, <2>6
    <2>8. p0 \in before /\ \A q \in before : q.t <= p0.t
        BY <1>2, <2>6, <2>7
    <2> DEFINE p == CHOOSE p \in before : \A q \in before : q.t <= p.t
    <2>9. p \in before /\ \A q \in before : q.t <= p.t
        BY <2>8
    <2> HIDE DEF p
    <2>10. p.t = lab[x]
        <3>1. p.t <= p0.t /\ p0.t <= p.t
            BY <2>8, <2>9
        <3>2. p.t \in Nat /\ p0.t \in Nat
            BY <1>2, <2>8, <2>9 DEF Labelled
        <3> QED
            BY <2>7, <3>1, <3>2
    <2>11. p.cum = Level("cumulative", val, In(R, lab, lab[x]))
        BY <1>2, <2>9, <2>10
    <2>12. Lag(points, n) = p.cum
        BY <1>1, <1>5 DEF p
    <2> QED
        BY <2>6, <2>11, <2>12, LastBucket DEF points
<1> QED
    BY <1>4, <1>5 DEF points

\* The level rises by a point's value in its bucket, and in no other.
LEMMA PointsRise ==
    ASSUME NEW temp \in Temporalities, NEW R, NEW val, NEW lab, Labelled(R, val, lab),
           temp = "cumulative" => Rising(R, val, lab),
           NEW p \in PointsOf(temp, val, R, lab)
    PROVE  /\ p.t \in Nat /\ RiseOf(temp, PointsOf(temp, val, R, lab), p) \in Nat
           /\ Level(temp, val, Upto(R, lab, p.t + 1))
                = Level(temp, val, Upto(R, lab, p.t)) + RiseOf(temp, PointsOf(temp, val, R, lab), p)
<1>1. PICK x \in R : p.t = lab[x] /\ p.cum = Level(temp, val, In(R, lab, lab[x]))
    BY DEF PointsOf
<1> DEFINE n == lab[x]
           U == Upto(R, lab, n)
           I == In(R, lab, n)
           V == Upto(R, lab, n + 1)
<1>2. n \in Nat
    BY DEF Labelled
<1>3. U \in SUBSET R /\ I \in SUBSET R /\ U \cap I = {} /\ V = U \cup I
    BY <1>2, UptoFacts
<1>4. Valued(R, val)
    BY DEF Labelled
<1>5. CASE temp = "delta"
    <2> HIDE DEF U, I, V
    <2>1. Level("delta", val, I) \in Nat
        BY <1>3, <1>4, LevelFacts DEF Temporalities
    <2>2. /\ Level("delta", val, U \cup I) = Level("delta", val, U) + Level("delta", val, I)
          /\ Level("cumulative", val, U \cup I)
                = MaxOr0({Level("cumulative", val, U), Level("cumulative", val, I)})
        BY <1>3, <1>4, LevelAdds
    <2> QED
        BY <1>1, <1>2, <1>3, <1>5, <2>1, <2>2 DEF RiseOf, U, I, V
<1>6. CASE temp = "cumulative"
    <2>1. Level(temp, val, V) = Level(temp, val, I)
        <3>1. n + 1 \in Nat /\ n < n + 1 /\ \A y \in R : lab[y] < n + 1 => lab[y] <= lab[x]
            BY <1>2 DEF Labelled
        <3> QED
            BY <1>6, <3>1, LastBucket
    <2>2. Lag(PointsOf(temp, val, R, lab), n) = Level(temp, val, U)
        BY <1>2, <1>6, LagIs
    <2>3. U \in SUBSET V /\ V \in SUBSET R
        BY <1>3
    <2> HIDE DEF U, I, V
    <2>4. Level(temp, val, U) \in Nat /\ Level(temp, val, V) \in Nat /\ Level(temp, val, U) <= Level(temp, val, V)
        BY <1>4, <2>3, LevelGrows
    <2>5. RiseOf(temp, PointsOf(temp, val, R, lab), p) = Positive(Level(temp, val, V) - Level(temp, val, U))
        BY <1>1, <1>6, <2>1, <2>2 DEF RiseOf, I
    <2> QED
        BY <1>1, <1>2, <2>4, <2>5 DEF Positive, U, V
<1> QED
    BY <1>5, <1>6 DEF Temporalities

\* The chart's points: each rises by its value, from the level at start on.
RisesBy(B, f, start, b) ==
    /\ IsFiniteSet(B) /\ f \in [Nat -> Nat]
    /\ \A p \in B : p.t \in Nat /\ p.value \in Nat /\ start <= p.t /\ p.t < b /\ f[p.t + 1] = f[p.t] + p.value
    /\ \A p, q \in B : p.t = q.t => p = q
    /\ \A n \in Nat : start <= n /\ (\A p \in B : p.t # n) => f[n + 1] = f[n]

LEMMA PointsAdd ==
    ASSUME NEW B, NEW f, NEW start \in Nat, NEW b \in Nat, start <= b, RisesBy(B, f, start, b)
    PROVE  f[b] = f[start] + Total([p \in B |-> p.value]) /\ Total([p \in B |-> p.value]) \in Nat
<1> USE DEF RisesBy
<1> DEFINE at == [p \in B |-> p.t]
           v == [p \in B |-> p.value]
           g == [n \in Nat |-> IF n < start THEN f[start] ELSE f[n]]
<1>1. RisesAt(B, at, v, g)
    <2>1. g \in [Nat -> Nat] /\ at \in [B -> Nat] /\ v \in [B -> Nat]
        OBVIOUS
    <2>2. \A p \in B : g[at[p] + 1] = g[at[p]] + v[p]
        OBVIOUS
    <2>3. \A n \in Nat : (\A p \in B : at[p] # n) => g[n + 1] = g[n]
        <3> SUFFICES ASSUME NEW n \in Nat, \A p \in B : at[p] # n PROVE g[n + 1] = g[n]
            OBVIOUS
        <3>1. \A p \in B : p.t # n
            OBVIOUS
        <3>2. CASE start <= n
            BY <3>1, <3>2
        <3>3. CASE n < start
            <4>1. n + 1 < start \/ n + 1 = start
                BY <3>3
            <4> QED
                BY <3>3, <4>1
        <3> QED
            BY <3>2, <3>3
    <2>4. \A p, q \in B : at[p] = at[q] => p = q
        OBVIOUS
    <2> HIDE DEF at, v, g
    <2> QED
        BY <2>1, <2>2, <2>3, <2>4 DEF RisesAt
<1>2. {p \in B : start <= at[p] /\ at[p] < b} = B
    OBVIOUS
<1>3. g[b] = f[b] /\ g[start] = f[start]
    OBVIOUS
<1>4. \A p \in B : v[p] \in Nat
    OBVIOUS
<1>5. Total(v) = SumFunctionOnSet(v, B)
    BY DEF Total, SumFunction
<1> HIDE DEF at, v, g
<1>6. g[b] = g[start] + SumFunctionOnSet(v, {p \in B : start <= at[p] /\ at[p] < b})
    BY <1>1, Telescope
<1>7. SumFunctionOnSet(v, B) \in Nat
    BY <1>4, IterSums
<1> QED
    BY <1>2, <1>3, <1>5, <1>6, <1>7 DEF v

\* B charts the rows R from the bucket start on, and base is the level that the first
\* point rises from.
IsChart(B, temp, val, R, lab, start, base) ==
    /\ \A p \in B :
        /\ p.t >= start /\ \E x \in R : lab[x] = p.t
        /\ p.value = Level(temp, val, Upto(R, lab, p.t + 1))
                        - (IF p.t = start THEN base ELSE Level(temp, val, Upto(R, lab, p.t)))
        /\ p = [t |-> p.t, value |-> p.value]
    /\ \A x \in R : lab[x] >= start => \E p \in B : p.t = lab[x]
    /\ base \in Nat /\ base <= Level(temp, val, Upto(R, lab, start + 1))
    /\ (\A x \in R : lab[x] # start) => base = Level(temp, val, Upto(R, lab, start + 1))

\* The points of a chart add up to the growth over it.
LEMMA ChartTotal ==
    ASSUME NEW temp \in Temporalities, NEW R, NEW val, NEW lab, Labelled(R, val, lab),
           NEW start \in Nat, NEW base, NEW B, IsChart(B, temp, val, R, lab, start, base)
    PROVE  Total([p \in B |-> p.value]) = Level(temp, val, R) - base /\ base <= Level(temp, val, R)
<1> DEFINE F(n) == Level(temp, val, Upto(R, lab, n))
           f == [n \in Nat |-> IF n <= start THEN base ELSE F(n)]
           L == {lab[x] : x \in R}
           b == (MaxOr0(L) + 1) + (start + 1)
<1>1. /\ \A n \in Nat : F(n) \in Nat
      /\ \A n \in Nat : F(n) <= F(n + 1)
      /\ \A n \in Nat : (\A x \in R : lab[x] # n) => F(n + 1) = F(n)
    <2>1. \A n \in Nat : /\ Upto(R, lab, n) \in SUBSET R
                         /\ Upto(R, lab, n + 1) = Upto(R, lab, n) \cup In(R, lab, n)
        BY UptoFacts
    <2>2. Valued(R, val)
        BY DEF Labelled
    <2>3. \A n \in Nat : F(n) \in Nat
        BY <2>1, <2>2, LevelFacts
    <2>4. \A n \in Nat : F(n) <= F(n + 1)
        <3> SUFFICES ASSUME NEW n \in Nat PROVE F(n) <= F(n + 1)
            OBVIOUS
        <3> DEFINE T == Upto(R, lab, n + 1)
                   U == Upto(R, lab, n)
        <3>1. T \in SUBSET R /\ U \in SUBSET T
            BY <2>1
        <3> HIDE DEF T, U
        <3>2. /\ Level(temp, val, U) \in Nat /\ Level(temp, val, T) \in Nat
              /\ Level(temp, val, U) <= Level(temp, val, T)
            BY <2>2, <3>1, LevelGrows
        <3> QED
            BY <3>2 DEF T, U
    <2>5. \A n \in Nat : (\A x \in R : lab[x] # n) => In(R, lab, n) = {}
        BY DEF In
    <2>6. \A n \in Nat : (\A x \in R : lab[x] # n) => Upto(R, lab, n + 1) = Upto(R, lab, n)
        BY <2>1, <2>5
    <2> QED
        BY <2>3, <2>4, <2>6
<1>2. b \in Nat /\ start < b /\ \A x \in R : lab[x] < b
    <2>1. IsFiniteSet(L) /\ L \subseteq Nat
        BY FiniteImage DEF Labelled, Valued
    <2>2. MaxOr0(L) \in Nat /\ \A n \in L : n <= MaxOr0(L)
        <3> HIDE DEF L
        <3> QED
            BY <2>1, MaxOr0Facts
    <2>3. \A x \in R : lab[x] \in Nat /\ lab[x] <= MaxOr0(L)
        BY <2>1, <2>2
    <2> HIDE DEF L
    <2> QED
        BY <2>2, <2>3
<1> HIDE DEF b, L
<1>3. Upto(R, lab, b) = R
    BY <1>2 DEF Upto
<1>4. base \in Nat /\ base <= F(start + 1) /\ ((\A x \in R : lab[x] # start) => base = F(start + 1))
    BY DEF IsChart
<1>5. \A p \in B : /\ p.t \in Nat /\ p.t >= start /\ p.t < b /\ \E x \in R : lab[x] = p.t
                   /\ p.value = F(p.t + 1) - (IF p.t = start THEN base ELSE F(p.t))
                   /\ p = [t |-> p.t, value |-> p.value]
    BY <1>2 DEF IsChart, Labelled
<1>6. IsFiniteSet(B)
    <2> DEFINE h == [x \in R |-> [t |-> lab[x],
                        value |-> F(lab[x] + 1) - (IF lab[x] = start THEN base ELSE F(lab[x]))]]
    <2>1. \A p \in B : \E x \in R : p = h[x]
        BY <1>5
    <2> HIDE DEF h
    <2>2. IsFiniteSet({h[x] : x \in R})
        BY FiniteImage DEF Labelled, Valued
    <2> QED
        BY <2>1, <2>2, FS_Subset
<1> HIDE DEF F
<1>7. RisesBy(B, f, start, b)
    <2>1. f \in [Nat -> Nat]
        BY <1>1, <1>4
    <2>2. \A p \in B : p.value \in Nat /\ f[p.t + 1] = f[p.t] + p.value
        <3> SUFFICES ASSUME NEW p \in B PROVE p.value \in Nat /\ f[p.t + 1] = f[p.t] + p.value
            OBVIOUS
        <3>1. /\ p.t \in Nat /\ p.t + 1 \in Nat /\ p.t >= start
              /\ p.value = F(p.t + 1) - (IF p.t = start THEN base ELSE F(p.t))
            BY <1>5
        <3>2. F(p.t) \in Nat /\ F(p.t + 1) \in Nat /\ F(p.t) <= F(p.t + 1)
            BY <1>1, <3>1
        <3> QED
            BY <1>4, <3>1, <3>2
    <2>3. \A n \in Nat : start <= n /\ (\A p \in B : p.t # n) => f[n + 1] = f[n]
        <3> SUFFICES ASSUME NEW n \in Nat, start <= n, \A p \in B : p.t # n PROVE f[n + 1] = f[n]
            OBVIOUS
        <3>1. \A x \in R : lab[x] # n
            BY DEF IsChart
        <3>2. F(n + 1) = F(n)
            BY <1>1, <3>1
        <3> QED
            BY <1>4, <3>1, <3>2
    <2>4. \A p, q \in B : p.t = q.t => p = q
        BY <1>5
    <2> HIDE DEF f
    <2> QED
        BY <1>5, <1>6, <2>1, <2>2, <2>3, <2>4 DEF RisesBy
<1>8. start <= b
    BY <1>2
<1>9. f[b] = F(b) /\ f[start] = base
    BY <1>2
<1> HIDE DEF f
<1>10. f[b] = f[start] + Total([p \in B |-> p.value]) /\ Total([p \in B |-> p.value]) \in Nat
    BY <1>2, <1>7, <1>8, PointsAdd
<1>11. F(b) = Level(temp, val, R)
    BY <1>3 DEF F
<1> DEFINE sum == Total([p \in B |-> p.value])
<1>12. Level(temp, val, R) = base + sum /\ sum \in Nat
    BY <1>9, <1>10, <1>11
<1> HIDE DEF sum
<1>13. sum = Level(temp, val, R) - base /\ base <= Level(temp, val, R)
    BY <1>4, <1>12
<1> QED
    BY <1>13 DEF sum

\* The buckets of the raw samples: from whole on, where the first bucket that the
\* outer filter keeps begins.
LEMMA RawBucketsTotal ==
    ASSUME IInv, NEW temp \in Temporalities, NEW seg, NEW from \in Nat, NEW to \in Int,
           NEW whole \in Int, whole <= to,
           NEW label \in [Times -> Nat],
           \A x, y \in Times : x <= y => label[x] <= label[y],
           \A x \in Times : x < to => (label[x] >= from <=> x >= whole)
    PROVE  Total([p \in RawBuckets(temp, seg, from, to, label) |-> p.value])
                = RawLevel(temp, seg, from - Lookback, to) - RawLevel(temp, seg, from - Lookback, whole)
<1> DEFINE R == RawOf(seg, from - Lookback, to)
           lab == [s \in R |-> label[s.t]]
           val == SampleValue(temp)
           points == PointsOf(temp, val, R, lab)
           B == {[t |-> p.t, value |-> RiseOf(temp, points, p)] : p \in {q \in points : q.t >= from}}
           base == Level(temp, val, Upto(R, lab, from))
<1>1. /\ R \in SUBSET raw /\ IsFiniteSet(R)
      /\ \A s \in R : s \in raw /\ s \in Sample /\ s.t \in Times /\ s.t \in Nat /\ s.seg = seg
    <2>1. R \in SUBSET raw /\ IsFiniteSet(R)
        BY RawFacts
    <2>2. \A s \in R : s \in raw /\ s.seg = seg
        BY DEF RawOf
    <2>3. \A s \in raw : s \in Sample
        BY RawFacts
    <2> HIDE DEF R
    <2> QED
        BY <2>1, <2>2, <2>3, SampleFields
<1>2. Labelled(R, val, lab)
    BY <1>1, RawFacts DEF Labelled, Valued
<1>3. temp = "cumulative" => Rising(R, val, lab)
    <2> SUFFICES ASSUME temp = "cumulative", NEW x \in R, NEW y \in R, lab[x] < lab[y]
                 PROVE  val[x] <= val[y]
        BY DEF Rising
    <2>1. x.t <= y.t
        <3>1. x.t \in Nat /\ y.t \in Nat /\ label[x.t] < label[y.t] /\ x.t \in Times /\ y.t \in Times
            BY <1>1
        <3>2. label[x.t] \in Nat /\ label[y.t] \in Nat
            BY <3>1
        <3>3. CASE y.t <= x.t
            BY <3>1, <3>2, <3>3
        <3> QED
            BY <3>1, <3>3
    <2>2. x.cum <= y.cum
        BY <1>1, <2>1, RawFacts
    <2> QED
        BY <1>1, <2>2 DEF SampleValue
<1>4. RawBuckets(temp, seg, from, to, label) = B
    <2> DEFINE in(t) == {s \in R : label[s.t] = t}
               level(t) == IF temp = "cumulative" THEN MaxOr0({s.cum : s \in in(t)})
                           ELSE Total([s \in in(t) |-> s.inc])
               pts == {[t |-> t, cum |-> level(t)] : t \in {label[s.t] : s \in R}}
    <2>1. \A t : in(t) = In(R, lab, t)
        BY DEF In
    <2>2. \A t : level(t) = Level(temp, val, In(R, lab, t))
        <3> SUFFICES ASSUME NEW t PROVE level(t) = Level(temp, val, In(R, lab, t))
            OBVIOUS
        <3>1. In(R, lab, t) \in SUBSET raw
            BY <1>1 DEF In
        <3>2. in(t) = In(R, lab, t)
            BY <2>1
        <3>3. /\ MaxOr0({s.cum : s \in In(R, lab, t)})
                    = Level("cumulative", SampleValue("cumulative"), In(R, lab, t))
              /\ Total([s \in In(R, lab, t) |-> s.inc]) = Level("delta", SampleValue("delta"), In(R, lab, t))
            BY <3>1, RowsWritten
        <3> HIDE DEF in
        <3>4. level(t) = IF temp = "cumulative" THEN MaxOr0({s.cum : s \in In(R, lab, t)})
                         ELSE Total([s \in In(R, lab, t) |-> s.inc])
            BY <3>2
        <3> QED
            BY <3>3, <3>4 DEF Temporalities
    <2>3. {label[s.t] : s \in R} = {lab[s] : s \in R}
        OBVIOUS
    <2>4. pts = points
        <3> HIDE DEF level, lab, R, val
        <3> QED
            BY <2>2, <2>3 DEF PointsOf
    <2>5. RawBuckets(temp, seg, from, to, label)
            = {[t |-> p.t, value |-> IF temp = "cumulative" THEN Positive(p.cum - Lag(pts, p.t))
                                     ELSE p.cum] : p \in {q \in pts : q.t >= from}}
        BY DEF RawBuckets
    <2> HIDE DEF pts, points
    <2> QED
        BY <2>4, <2>5 DEF RiseOf
<1>5. \A p \in points : /\ p.t \in Nat /\ RiseOf(temp, points, p) \in Nat
                        /\ Level(temp, val, Upto(R, lab, p.t + 1))
                                = Level(temp, val, Upto(R, lab, p.t)) + RiseOf(temp, points, p)
                        /\ \E x \in R : lab[x] = p.t
    <2>1. \A p \in points : \E x \in R : lab[x] = p.t
        <3> HIDE DEF R, lab, val
        <3> QED
            BY DEF PointsOf
    <2> HIDE DEF R, lab, val
    <2> QED
        BY <1>2, <1>3, <2>1, PointsRise
<1>6. \A x \in R : \E p \in points : p.t = lab[x]
    <2> SUFFICES ASSUME NEW x \in R PROVE \E p \in points : p.t = lab[x]
        OBVIOUS
    <2>1. [t |-> lab[x], cum |-> Level(temp, val, In(R, lab, lab[x]))] \in points
        BY DEF PointsOf
    <2> QED
        BY <2>1
<1>7. /\ \A n \in Nat : Level(temp, val, Upto(R, lab, n)) \in Nat
      /\ Level(temp, val, Upto(R, lab, from)) <= Level(temp, val, Upto(R, lab, from + 1))
      /\ (\A x \in R : lab[x] # from) =>
            Level(temp, val, Upto(R, lab, from)) = Level(temp, val, Upto(R, lab, from + 1))
    <2>1. \A n \in Nat : Upto(R, lab, n) \in SUBSET R
        BY DEF Upto
    <2>2. Upto(R, lab, from) \in SUBSET Upto(R, lab, from + 1)
        BY <1>2 DEF Upto, Labelled
    <2>3. (\A x \in R : lab[x] # from) => Upto(R, lab, from) = Upto(R, lab, from + 1)
        <3>1. \A x \in R : lab[x] # from => (lab[x] < from <=> lab[x] < from + 1)
            BY <1>2 DEF Labelled
        <3> HIDE DEF lab
        <3> QED
            BY <3>1 DEF Upto
    <2>4. from + 1 \in Nat
        OBVIOUS
    <2> DEFINE T == Upto(R, lab, from + 1)
               U == Upto(R, lab, from)
    <2>5. T \in SUBSET R /\ U \in SUBSET T
        BY <2>1, <2>2, <2>4
    <2> HIDE DEF R, lab, val, T, U
    <2>6. Valued(R, val)
        BY <1>2 DEF Labelled
    <2>7. /\ Level(temp, val, U) \in Nat /\ Level(temp, val, T) \in Nat
          /\ Level(temp, val, U) <= Level(temp, val, T)
        BY <2>5, <2>6, LevelGrows
    <2>8. \A n \in Nat : Level(temp, val, Upto(R, lab, n)) \in Nat
        BY <2>1, <2>6, LevelFacts
    <2> QED
        BY <2>3, <2>7, <2>8 DEF T, U
<1>8. IsChart(B, temp, val, R, lab, from, base)
    <2> HIDE DEF R, lab, val, points
    <2>1. \A b \in B : \E p \in points : p.t >= from /\ b.t = p.t /\ b.value = RiseOf(temp, points, p)
                            /\ b = [t |-> b.t, value |-> b.value]
        OBVIOUS
    <2>2. \A b \in B :
            /\ b.t >= from /\ \E x \in R : lab[x] = b.t
            /\ b.value = Level(temp, val, Upto(R, lab, b.t + 1))
                            - (IF b.t = from THEN base ELSE Level(temp, val, Upto(R, lab, b.t)))
            /\ b = [t |-> b.t, value |-> b.value]
        <3> SUFFICES ASSUME NEW b \in B
                     PROVE  /\ b.t >= from /\ \E x \in R : lab[x] = b.t
                            /\ b.value = Level(temp, val, Upto(R, lab, b.t + 1))
                                            - (IF b.t = from THEN base ELSE Level(temp, val, Upto(R, lab, b.t)))
                            /\ b = [t |-> b.t, value |-> b.value]
            OBVIOUS
        <3>1. PICK p \in points : p.t >= from /\ b.t = p.t /\ b.value = RiseOf(temp, points, p)
                                    /\ b = [t |-> b.t, value |-> b.value]
            BY <2>1
        <3>2. /\ p.t \in Nat /\ RiseOf(temp, points, p) \in Nat
              /\ Level(temp, val, Upto(R, lab, p.t + 1))
                    = Level(temp, val, Upto(R, lab, p.t)) + RiseOf(temp, points, p)
              /\ \E x \in R : lab[x] = p.t
            BY <1>5
        <3>3. Level(temp, val, Upto(R, lab, p.t)) \in Nat
            BY <1>7, <3>2
        <3> QED
            BY <3>1, <3>2, <3>3
    <2>3. \A x \in R : lab[x] >= from => \E b \in B : b.t = lab[x]
        <3> SUFFICES ASSUME NEW x \in R, lab[x] >= from PROVE \E b \in B : b.t = lab[x]
            OBVIOUS
        <3>1. PICK p \in points : p.t = lab[x]
            BY <1>6
        <3>2. [t |-> p.t, value |-> RiseOf(temp, points, p)] \in B
            BY <3>1
        <3> QED
            BY <3>1, <3>2
    <2>4. base \in Nat
        BY <1>7
    <2> HIDE DEF B
    <2> QED
        BY <1>7, <2>2, <2>3, <2>4 DEF IsChart
<1>9. Upto(R, lab, from) = RawOf(seg, from - Lookback, whole)
    <2>1. \A s \in R : lab[s] < from <=> s.t < whole
        <3> SUFFICES ASSUME NEW s \in R PROVE lab[s] < from <=> s.t < whole
            OBVIOUS
        <3>1. s.t \in Times /\ s.t \in Nat /\ label[s.t] \in Nat /\ s.t < to
            BY <1>1 DEF RawOf
        <3> QED
            BY <3>1
    <2>2. \A s \in raw : s.t \in Nat /\ (s.t < whole => s.t < to)
        BY RawFacts
    <2>3. \A s : s \in Upto(R, lab, from) <=> s \in R /\ s.t < whole
        BY <2>1 DEF Upto
    <2>4. \A s : s \in R /\ s.t < whole <=> s \in RawOf(seg, from - Lookback, whole)
        BY <2>2 DEF RawOf
    <2> HIDE DEF R, lab
    <2> QED
        BY <2>3, <2>4
<1> HIDE DEF R, lab, val, points, B, base
<1>10. Total([p \in B |-> p.value]) = Level(temp, val, R) - base
    BY <1>2, <1>8, ChartTotal
<1> QED
    BY <1>4, <1>9, <1>10 DEF RawLevel, R, base, val

\* The rows of a series' hours rise with them.
LEMMA HoursRise ==
    ASSUME IInv, NEW k \in DOMAIN hourly, NEW j \in DOMAIN hourly, k[1] = j[1], k[2] < j[2]
    PROVE  HourValue("cumulative")[k] <= HourValue("cumulative")[j]
<1> DEFINE val == SampleValue("cumulative")
           S == RowsOf(k)
           T == RowsOf(j)
<1>1. HourValue("cumulative")[k] = Top(val, S) /\ HourValue("cumulative")[j] = Top(val, T)
    BY DEF IInv, HourInv, Level, Temporalities
<1>2. /\ IsFiniteSet(S) /\ IsFiniteSet(T) /\ \A s \in S \cup T : val[s] \in Nat
      /\ \A s \in S \cup T : s \in raw
    <2>1. S \in SUBSET raw /\ T \in SUBSET raw
        BY DEF RowsOf
    <2> HIDE DEF S, T
    <2> QED
        BY <2>1, RawFacts, FS_Subset DEF Temporalities
<1>3. \A s \in S, r \in T : val[s] <= val[r]
    <2> SUFFICES ASSUME NEW s \in S, NEW r \in T PROVE val[s] <= val[r]
        OBVIOUS
    <2>1. s \in raw /\ r \in raw /\ s \in Sample /\ r \in Sample /\ s.t \in Nat /\ r.t \in Nat
        BY <1>2, RawFacts
    <2>2. KeyOf(s) = k /\ KeyOf(r) = j
        BY DEF RowsOf
    <2>3. s.seg = r.seg
        BY <2>1, <2>2, KeyFacts
    <2>4. k[2] \in Nat /\ j[2] \in Nat /\ k[2] + HOUR <= j[2] /\ s.t < k[2] + HOUR /\ j[2] <= r.t
        <3>1. k[2] \in Int /\ j[2] \in Int /\ k[2] \in Nat /\ j[2] \in Nat /\ Aligned(HOUR, k[2])
              /\ Aligned(HOUR, j[2]) /\ HOUR \in Nat \ {0}
            BY HourFacts, Spans
        <3>2. k[2] + HOUR <= j[2]
            BY <3>1, AlignedApart
        <3> QED
            BY <2>1, <2>2, <3>1, <3>2, KeyFacts
    <2>5. s.t <= r.t
        BY <2>1, <2>4, Spans
    <2>6. s.cum <= r.cum
        BY <2>1, <2>3, <2>5, RawFacts
    <2> QED
        BY <2>1, <2>6 DEF SampleValue
<1>4. \E r \in T : TRUE
    BY HourFacts DEF RowsOf
<1> HIDE DEF S, T, val
<1>5. /\ Top(val, S) \in Nat /\ (Top(val, S) = 0 \/ \E x \in S : val[x] = Top(val, S))
      /\ Top(val, T) \in Nat /\ \A x \in T : val[x] <= Top(val, T)
    <2>1. (\A s \in S : val[s] \in Nat) /\ (\A s \in T : val[s] \in Nat)
        BY <1>2
    <2> QED
        BY <1>2, <2>1, TopFacts
<1> QED
    BY <1>1, <1>2, <1>3, <1>4, <1>5

\* Where the first bucket of a roll-up's chart lies: it starts in reach of the scan, holds
\* from, and ends at cut, an hour's end or a time after every sample.
Cut(from, to, width) == LET e == Bucket(width, from) + width IN IF e <= to THEN e ELSE to
Reach(from) == Bucket(HOUR, from) - Lookback

FirstBucket(from, to, width) ==
    /\ from < to
    /\ Bucket(width, from) + width <= to \/ now < to

Lies(from, to, width) ==
    /\ width \in Nat \ {0} /\ Bucket(width, from) \in Nat /\ Aligned(width, Bucket(width, from))
    /\ Aligned(HOUR, Bucket(width, from)) /\ Aligned(HOUR, Bucket(width, from) + width)
    /\ Reach(from) \in Int /\ Aligned(HOUR, Reach(from)) /\ Reach(from) <= Bucket(width, from)
    /\ Bucket(width, from) <= from /\ from < Cut(from, to, width) /\ Cut(from, to, width) \in Int
    /\ Cut(from, to, width) <= to /\ Cut(from, to, width) <= Bucket(width, from) + width
    /\ Cut(from, to, width) = to \/ Cut(from, to, width) = Bucket(width, from) + width
    /\ Aligned(HOUR, Cut(from, to, width)) \/ now < Cut(from, to, width)
    /\ Min({Bucket(width, from) + width, to}) = Cut(from, to, width)
    /\ Bucket(HOUR, from) \in Nat /\ Reach(from) <= Bucket(HOUR, from)

LEMMA FirstBucketLies ==
    ASSUME IInv, NEW from \in Nat, NEW to \in Int, NEW width \in {HOUR, DAY}, FirstBucket(from, to, width)
    PROVE  Lies(from, to, width)
<1> DEFINE start == Bucket(width, from)
           h == Bucket(HOUR, from)
           c == Cut(from, to, width)
<1>1. /\ HOUR \in Nat \ {0} /\ DAY \in Nat \ {0} /\ Lookback \in Nat \ {0} /\ from \in Int
      /\ HOUR <= DAY /\ DAY <= Lookback /\ width \in Nat \ {0} /\ width \in Int /\ width <= Lookback
    BY Spans
<1>2. start \in Int /\ start \in Nat /\ start <= from /\ from < start + width /\ Aligned(width, start)
    BY <1>1, BucketType, BucketNat
<1>3. h \in Int /\ h \in Nat /\ h <= from /\ from < h + HOUR /\ Aligned(HOUR, h)
    BY <1>1, BucketType, BucketNat
<1>4. Aligned(HOUR, start)
    BY <1>2, AlignedDay
<1>5. Aligned(HOUR, width) /\ Aligned(HOUR, DAY) /\ Aligned(HOUR, Lookback)
    BY <1>1, <1>4, <1>2, AlignedSums, Spans
<1> HIDE DEF start, h
<1>6. Aligned(HOUR, start + width) /\ Aligned(HOUR, h - Lookback)
    <2>1. Aligned(HOUR, start + width) /\ Aligned(HOUR, start - width) /\ Aligned(HOUR, HOUR)
        BY <1>1, <1>2, <1>4, <1>5, AlignedSums
    <2>2. Lookback \in Int
        BY <1>1
    <2>3. Aligned(HOUR, h + Lookback) /\ Aligned(HOUR, h - Lookback) /\ Aligned(HOUR, HOUR)
        BY <1>1, <1>3, <1>5, <2>2, AlignedSums
    <2> QED
        BY <2>1, <2>3
<1>7. c = IF start + width <= to THEN start + width ELSE to
    BY DEF Cut, start
<1> HIDE DEF c
<1>8. /\ from < c /\ c \in Int /\ c <= to /\ c <= start + width /\ (c = to \/ c = start + width)
      /\ Aligned(HOUR, c) \/ now < c
    BY <1>1, <1>2, <1>6, <1>7 DEF FirstBucket, start
<1>9. Min({start + width, to}) = c
    <2>1. c \in {start + width, to} /\ \A y \in {start + width, to} : c <= y
        BY <1>1, <1>2, <1>8
    <2>2. \A x \in {start + width, to} : (\A y \in {start + width, to} : x <= y) => x = c
        BY <1>1, <1>2, <1>8
    <2> QED
        BY <2>1, <2>2 DEF Min
<1>10. Reach(from) = h - Lookback
    BY DEF Reach, h
<1>11. h - Lookback <= start /\ h - Lookback \in Int /\ h - Lookback <= h
    BY <1>1, <1>2, <1>3
<1> QED
    BY <1>1, <1>2, <1>3, <1>4, <1>6, <1>8, <1>9, <1>10, <1>11 DEF Lies, start, c, h

\* The buckets of the roll-up's rows.
HourLabels(seg, from, to, width) == [k \in Hours(seg, Reach(from), to) |-> Bucket(width, k[2])]

LEMMA HourLabelFacts ==
    ASSUME IInv, NEW temp \in Temporalities, NEW seg,
           NEW from \in Nat, NEW to \in Int, NEW width \in {HOUR, DAY}, FirstBucket(from, to, width)
    PROVE  LET K == Hours(seg, Reach(from), to)
               lab == HourLabels(seg, from, to, width)
               start == Bucket(width, from)
           IN /\ K \in SUBSET (DOMAIN hourly) /\ Labelled(K, HourValue(temp), lab)
              /\ temp = "cumulative" => Rising(K, HourValue(temp), lab)
              /\ Upto(K, lab, start + 1) = Hours(seg, Reach(from), Cut(from, to, width))
              /\ Upto(K, lab, start) = Hours(seg, Reach(from), start)
<1> DEFINE K == Hours(seg, Reach(from), to)
           lab == HourLabels(seg, from, to, width)
           start == Bucket(width, from)
           c == Cut(from, to, width)
<1>1. /\ width \in Nat \ {0} /\ start \in Nat /\ Aligned(width, start) /\ c \in Int
      /\ c <= to /\ c <= start + width /\ (c = to \/ c = start + width) /\ start < c
    <2>1. Lies(from, to, width)
        BY FirstBucketLies
    <2> QED
        BY <2>1 DEF Lies
<1>2. K \in SUBSET (DOMAIN hourly) /\ IsFiniteSet(K)
    BY HourFacts
<1>3. \A k \in K : /\ k \in DOMAIN hourly /\ k[1] = seg /\ k[2] >= Reach(from) /\ k[2] < to
                   /\ lab[k] = Bucket(width, k[2])
    BY DEF Hours, HourLabels
<1>4. \A k \in K : k[2] \in Nat /\ HourValue(temp)[k] \in Nat
    BY <1>2, HourFacts
<1>5. \A k \in K : /\ lab[k] \in Nat /\ lab[k] <= k[2] /\ k[2] < lab[k] + width /\ Aligned(width, lab[k])
                   /\ k[2] \in Nat
    <2> SUFFICES ASSUME NEW k \in K
                 PROVE  /\ lab[k] \in Nat /\ lab[k] <= k[2] /\ k[2] < lab[k] + width
                        /\ Aligned(width, lab[k]) /\ k[2] \in Nat
        OBVIOUS
    <2>1. k[2] \in Nat /\ k[2] \in Int /\ lab[k] = Bucket(width, k[2])
        BY <1>3, <1>4
    <2> QED
        BY <1>1, <2>1, BucketNat, BucketType
<1> HIDE DEF K, lab, start, c
<1>6. Labelled(K, HourValue(temp), lab)
    BY <1>2, <1>4, <1>5 DEF Labelled, Valued
<1>7. temp = "cumulative" => Rising(K, HourValue(temp), lab)
    <2> SUFFICES ASSUME temp = "cumulative", NEW x \in K, NEW y \in K, lab[x] < lab[y]
                 PROVE  HourValue(temp)[x] <= HourValue(temp)[y]
        BY DEF Rising
    <2>1. lab[x] \in Int /\ lab[y] \in Int /\ Aligned(width, lab[x]) /\ Aligned(width, lab[y])
        BY <1>5
    <2>2. lab[x] + width <= lab[y]
        BY <1>1, <2>1, AlignedApart
    <2>3. x[2] < y[2]
        BY <1>1, <1>5, <2>2
    <2> QED
        BY <1>3, <2>3, HoursRise
<1>8. \A k \in K : (lab[k] < start + 1 <=> k[2] < c) /\ (lab[k] < start <=> k[2] < start)
    <2> SUFFICES ASSUME NEW k \in K
                 PROVE  (lab[k] < start + 1 <=> k[2] < c) /\ (lab[k] < start <=> k[2] < start)
        OBVIOUS
    <2>1. /\ lab[k] \in Int /\ lab[k] \in Nat /\ lab[k] <= k[2] /\ k[2] < lab[k] + width
          /\ Aligned(width, lab[k]) /\ k[2] \in Nat /\ start \in Int /\ k[2] < to
        BY <1>1, <1>3, <1>5
    <2>2. lab[k] < start => lab[k] + width <= start
        BY <1>1, <2>1, AlignedApart
    <2>3. start < lab[k] => start + width <= lab[k]
        BY <1>1, <2>1, AlignedApart
    <2> QED
        BY <1>1, <2>1, <2>2, <2>3
<1>9. Upto(K, lab, start + 1) = Hours(seg, Reach(from), c) /\ Upto(K, lab, start) = Hours(seg, Reach(from), start)
    <2>1. \A k \in DOMAIN hourly : k[2] \in Nat
        BY HourFacts
    <2>2. \A k \in DOMAIN hourly : (k[2] < c => k[2] < to) /\ (k[2] < start => k[2] < to)
        BY <1>1, <2>1
    <2>3. \A k : k \in K <=> k \in DOMAIN hourly /\ k[1] = seg /\ k[2] >= Reach(from) /\ k[2] < to
        BY DEF K, Hours
    <2>4. \A k : k \in Upto(K, lab, start + 1) <=> k \in K /\ k[2] < c
        BY <1>8 DEF Upto
    <2>5. \A k : k \in Upto(K, lab, start) <=> k \in K /\ k[2] < start
        BY <1>8 DEF Upto
    <2>6. \A k : k \in Upto(K, lab, start + 1) <=> k \in Hours(seg, Reach(from), c)
        BY <2>2, <2>3, <2>4 DEF Hours
    <2>7. \A k : k \in Upto(K, lab, start) <=> k \in Hours(seg, Reach(from), start)
        BY <2>2, <2>3, <2>5 DEF Hours
    <2> QED
        BY <2>6, <2>7
<1> QED
    BY <1>2, <1>6, <1>7, <1>9 DEF K, lab, start, c

\* The raw rows that correct the first bucket belong to hours of the scan, in that bucket.
LEMMA StitchLies ==
    ASSUME IInv, NEW seg, NEW from \in Nat, NEW to \in Int, NEW width \in {HOUR, DAY},
           FirstBucket(from, to, width), NEW s \in RawOf(seg, Bucket(width, from), Cut(from, to, width))
    PROVE  /\ KeyOf(s) \in Hours(seg, Reach(from), to)
           /\ HourLabels(seg, from, to, width)[KeyOf(s)] = Bucket(width, from)
<1> DEFINE start == Bucket(width, from)
           c == Cut(from, to, width)
<1>1. /\ width \in Nat \ {0} /\ start \in Nat /\ start \in Int /\ Aligned(width, start) /\ c \in Int
      /\ Aligned(HOUR, start)
      /\ c <= to /\ c <= start + width /\ Reach(from) \in Int /\ Reach(from) <= start
    <2>1. Lies(from, to, width)
        BY FirstBucketLies
    <2> QED
        BY <2>1 DEF Lies
<1>2. s \in raw /\ s.seg = seg /\ s.t >= start /\ s.t < c
    BY DEF RawOf
<1>3. s \in Sample /\ s.t \in Nat /\ KeyOf(s) \in DOMAIN hourly
    BY <1>2, RawFacts, HourFacts
<1>4. /\ KeyOf(s)[1] = seg /\ KeyOf(s)[2] = Bucket(HOUR, s.t)
      /\ Bucket(HOUR, s.t) \in Nat /\ Bucket(HOUR, s.t) <= s.t
    BY <1>2, <1>3, KeyFacts
<1> HIDE DEF start, c
<1>5. start <= Bucket(HOUR, s.t)
    BY <1>1, <1>2, <1>3, HourBounds
<1>6. Bucket(width, Bucket(HOUR, s.t)) = start
    <2>1. /\ Bucket(HOUR, s.t) \in Int /\ Bucket(HOUR, s.t) < start + width
        BY <1>1, <1>2, <1>3, <1>4
    <2> QED
        BY <1>1, <1>5, <2>1, AlignedBucket
<1>7. KeyOf(s) \in Hours(seg, Reach(from), to)
    BY <1>1, <1>2, <1>3, <1>4, <1>5 DEF Hours
<1> QED
    BY <1>4, <1>6, <1>7 DEF HourLabels, start

\* The roll-up's chart, in levels of its hours.
RollupChart(temp, seg, from, to, width) ==
    LET start == Bucket(width, from)
        points == PointsOf(temp, HourValue(temp), Hours(seg, Reach(from), to),
                           HourLabels(seg, from, to, width))
        first(p) == IF temp = "cumulative"
                    THEN Positive(p.cum - MaxOr0({Lag(points, p.t), RawLevel(temp, seg, start, from)}))
                    ELSE RawLevel(temp, seg, from, Cut(from, to, width))
        later(p) == IF temp = "cumulative" THEN Positive(p.cum - MaxOr0({Lag(points, p.t), 0})) ELSE p.cum
    IN {[t |-> p.t, value |-> IF p.t = start THEN first(p) ELSE later(p)] :
            p \in {q \in points : q.t >= start}}

LEMMA RollupBucketsWritten ==
    ASSUME IInv, NEW temp \in Temporalities, NEW seg,
           NEW from \in Nat, NEW to \in Int, NEW width \in {HOUR, DAY}, FirstBucket(from, to, width)
    PROVE  RollupBuckets(temp, seg, from, to, width) = RollupChart(temp, seg, from, to, width)
<1> DEFINE K == Hours(seg, Reach(from), to)
           lab == HourLabels(seg, from, to, width)
           start == Bucket(width, from)
           c == Cut(from, to, width)
           val == HourValue(temp)
           points == PointsOf(temp, val, K, lab)
           stitch == RawOf(seg, start, c)
           in(t) == {k \in K : Bucket(width, k[2]) = t}
           level(t) == IF temp = "cumulative" THEN MaxOr0({hourly[k].mv : k \in in(t)})
                       ELSE Total([k \in in(t) |-> hourly[k].sv])
           labels == {Bucket(width, k[2]) : k \in K} \cup (IF stitch = {} THEN {} ELSE {start})
           pts == {[t |-> t, cum |-> level(t)] : t \in labels}
           baseline == MaxOr0({s.cum : s \in {r \in stitch : r.t < from}})
           rest == Total([s \in {r \in stitch : r.t >= from} |-> s.inc])
<1>1. Min({start + width, to}) = c /\ start \in Nat /\ start <= from /\ c \in Int /\ from < c
    <2>1. Lies(from, to, width)
        BY FirstBucketLies
    <2> QED
        BY <2>1 DEF Lies
<1>2. RollupBuckets(temp, seg, from, to, width) =
        {[t |-> p.t, value |->
            IF temp = "cumulative"
            THEN Positive(p.cum - MaxOr0({Lag(pts, p.t), IF p.t = start THEN baseline ELSE 0}))
            ELSE IF p.t = start THEN rest ELSE p.cum] : p \in {q \in pts : q.t >= start}}
    BY <1>1 DEF RollupBuckets, Reach, KeepFirst
<1>3. \A k \in K : lab[k] = Bucket(width, k[2])
    BY DEF HourLabels
<1>4. labels = {lab[k] : k \in K}
    <2>1. {Bucket(width, k[2]) : k \in K} = {lab[k] : k \in K}
        BY <1>3
    <2>2. \A s \in stitch : KeyOf(s) \in K /\ lab[KeyOf(s)] = start
        BY StitchLies
    <2> HIDE DEF K, lab, stitch, start
    <2>3. stitch # {} => start \in {lab[k] : k \in K}
        BY <2>2
    <2> QED
        BY <2>1, <2>3
<1>5. \A t : in(t) = In(K, lab, t)
    BY <1>3 DEF In
<1>6. \A t : level(t) = Level(temp, val, In(K, lab, t))
    <2> SUFFICES ASSUME NEW t PROVE level(t) = Level(temp, val, In(K, lab, t))
        OBVIOUS
    <2>1. In(K, lab, t) \in SUBSET (DOMAIN hourly)
        BY HourFacts DEF In
    <2>2. in(t) = In(K, lab, t)
        BY <1>5
    <2>3. /\ MaxOr0({hourly[k].mv : k \in In(K, lab, t)})
                = Level("cumulative", HourValue("cumulative"), In(K, lab, t))
          /\ Total([k \in In(K, lab, t) |-> hourly[k].sv]) = Level("delta", HourValue("delta"), In(K, lab, t))
        BY <2>1, HoursWritten
    <2> HIDE DEF in
    <2>4. level(t) = IF temp = "cumulative" THEN MaxOr0({hourly[k].mv : k \in In(K, lab, t)})
                     ELSE Total([k \in In(K, lab, t) |-> hourly[k].sv])
        BY <2>2
    <2> QED
        BY <2>3, <2>4 DEF Temporalities
<1>7. pts = points
    <2> HIDE DEF level, labels, K, lab, val
    <2> QED
        BY <1>4, <1>6 DEF PointsOf
<1>8. baseline = RawLevel("cumulative", seg, start, from) /\ rest = RawLevel("delta", seg, from, c)
    <2>1. \A s \in raw : s.t \in Nat /\ (s.t < from => s.t < c) /\ (s.t >= from => s.t >= start)
        BY <1>1, RawFacts
    <2>2. \A s : s \in {r \in stitch : r.t < from} <=> s \in RawOf(seg, start, from)
        BY <2>1 DEF RawOf
    <2>3. \A s : s \in {r \in stitch : r.t >= from} <=> s \in RawOf(seg, from, c)
        BY <2>1 DEF RawOf
    <2>4. {r \in stitch : r.t < from} = RawOf(seg, start, from) /\ {r \in stitch : r.t >= from} = RawOf(seg, from, c)
        <3> HIDE DEF stitch, start, c
        <3> QED
            BY <2>2, <2>3
    <2>5. RawOf(seg, start, from) \in SUBSET raw /\ RawOf(seg, from, c) \in SUBSET raw
        BY DEF RawOf
    <2> DEFINE A == RawOf(seg, start, from)
               C == RawOf(seg, from, c)
    <2>6. baseline = MaxOr0({s.cum : s \in A}) /\ rest = Total([s \in C |-> s.inc])
        BY <2>4
    <2> HIDE DEF A, C, baseline, rest
    <2>7. MaxOr0({s.cum : s \in A}) = Level("cumulative", SampleValue("cumulative"), A)
        BY <2>5, RowsWritten DEF A
    <2>8. Total([s \in C |-> s.inc]) = Level("delta", SampleValue("delta"), C)
        BY <2>5, RowsWritten DEF C
    <2> QED
        BY <2>6, <2>7, <2>8 DEF RawLevel, A, C
<1> HIDE DEF pts, points, baseline, rest, start, c
<1>9. CASE temp = "cumulative"
    BY <1>2, <1>7, <1>8, <1>9 DEF RollupChart, points, start
<1>10. CASE temp = "delta"
    BY <1>2, <1>7, <1>8, <1>10 DEF RollupChart, points, start, c
<1> QED
    BY <1>9, <1>10 DEF Temporalities

\* Before and after the first bucket, the hours' level is that of the samples.
LEMMA FirstBucketLevels ==
    ASSUME IInv, NEW temp \in Temporalities, NEW seg,
           NEW from \in Nat, NEW to \in Int, NEW width \in {HOUR, DAY}, FirstBucket(from, to, width)
    PROVE  LET start == Bucket(width, from)
               c == Cut(from, to, width)
           IN /\ HourLevel(temp, seg, Reach(from), start) = RawLevel(temp, seg, Reach(from), start)
              /\ HourLevel(temp, seg, Reach(from), c) = RawLevel(temp, seg, Reach(from), c)
              /\ RawGrows(temp, seg, Reach(from), start, from)
              /\ RawGrows(temp, seg, Reach(from), from, c)
              /\ RawOf(seg, start, c) = {} =>
                    RawLevel(temp, seg, Reach(from), c) = RawLevel(temp, seg, Reach(from), from)
<1> DEFINE start == Bucket(width, from)
           c == Cut(from, to, width)
           since == Reach(from)
<1>1. /\ start \in Nat /\ start \in Int /\ Aligned(HOUR, start) /\ since \in Int /\ Aligned(HOUR, since)
      /\ since <= start /\ start <= from /\ from < c /\ c \in Int /\ (Aligned(HOUR, c) \/ now < c)
      /\ from \in Int /\ since <= from /\ from <= c
    <2>1. Lies(from, to, width)
        BY FirstBucketLies
    <2>2. /\ start \in Nat /\ Aligned(HOUR, start) /\ since \in Int /\ Aligned(HOUR, since)
          /\ since <= start /\ start <= from /\ from < c /\ c \in Int /\ (Aligned(HOUR, c) \/ now < c)
        BY <2>1 DEF Lies
    <2> HIDE DEF start, c, since
    <2> QED
        BY <2>2
<1> HIDE DEF start, c, since
<1>2. HourLevel(temp, seg, since, start) = RawLevel(temp, seg, since, start)
    BY <1>1, HoursAreRows
<1>3. HourLevel(temp, seg, since, c) = RawLevel(temp, seg, since, c)
    BY <1>1, HoursAreRows
<1>4. RawGrows(temp, seg, since, start, from)
    BY <1>1, RawLevelGrows
<1>5. RawGrows(temp, seg, since, from, c)
    BY <1>1, RawLevelGrows
<1>6. ASSUME RawOf(seg, start, c) = {} PROVE RawOf(seg, since, c) = RawOf(seg, since, from)
    <2>1. \A s \in raw : s.t \in Nat /\ (s.t < from => s.t < c) /\ (s.t >= from => s.t >= start)
        BY <1>1, RawFacts
    <2>2. \A s \in raw : s.seg = seg /\ s.t < c => s.t < from
        BY <1>1, <1>6, <2>1 DEF RawOf
    <2>3. \A s : s \in RawOf(seg, since, c) <=> s \in RawOf(seg, since, from)
        BY <2>1, <2>2 DEF RawOf
    <2> QED
        BY <2>3
<1> QED
    BY <1>2, <1>3, <1>4, <1>5, <1>6 DEF RawLevel, start, c, since

LEMMA RollupBucketsTotal ==
    ASSUME IInv, NEW temp \in Temporalities, NEW seg,
           NEW from \in Nat, NEW to \in Int, NEW width \in {HOUR, DAY}, FirstBucket(from, to, width)
    PROVE  Total([p \in RollupBuckets(temp, seg, from, to, width) |-> p.value])
                = HourLevel(temp, seg, Reach(from), to) - RawLevel(temp, seg, Reach(from), from)
<1> DEFINE K == Hours(seg, Reach(from), to)
           lab == HourLabels(seg, from, to, width)
           start == Bucket(width, from)
           c == Cut(from, to, width)
           val == HourValue(temp)
           points == PointsOf(temp, val, K, lab)
           first(p) == IF temp = "cumulative"
                       THEN Positive(p.cum - MaxOr0({Lag(points, p.t), RawLevel(temp, seg, start, from)}))
                       ELSE RawLevel(temp, seg, from, c)
           later(p) == IF temp = "cumulative" THEN Positive(p.cum - MaxOr0({Lag(points, p.t), 0})) ELSE p.cum
           B == {[t |-> p.t, value |-> IF p.t = start THEN first(p) ELSE later(p)] :
                    p \in {q \in points : q.t >= start}}
           base == RawLevel(temp, seg, Reach(from), from)
           end == RawLevel(temp, seg, Reach(from), c)
           F(n) == Level(temp, val, Upto(K, lab, n))
<1>1. RollupBuckets(temp, seg, from, to, width) = B
    <2>1. RollupBuckets(temp, seg, from, to, width) = RollupChart(temp, seg, from, to, width)
        BY RollupBucketsWritten
    <2>2. RollupChart(temp, seg, from, to, width) = B
        BY DEF RollupChart
    <2> QED
        BY <2>1, <2>2
<1>2. /\ Labelled(K, val, lab) /\ (temp = "cumulative" => Rising(K, val, lab))
      /\ Upto(K, lab, start + 1) = Hours(seg, Reach(from), c)
      /\ Upto(K, lab, start) = Hours(seg, Reach(from), start)
    BY HourLabelFacts
<1>3. /\ F(start) = RawLevel(temp, seg, Reach(from), start) /\ F(start + 1) = end
      /\ RawGrows(temp, seg, Reach(from), start, from) /\ RawGrows(temp, seg, Reach(from), from, c)
      /\ RawOf(seg, start, c) = {} => end = base
    <2>1. /\ HourLevel(temp, seg, Reach(from), start) = RawLevel(temp, seg, Reach(from), start)
          /\ HourLevel(temp, seg, Reach(from), c) = RawLevel(temp, seg, Reach(from), c)
          /\ RawGrows(temp, seg, Reach(from), start, from)
          /\ RawGrows(temp, seg, Reach(from), from, c)
          /\ RawOf(seg, start, c) = {} => end = base
        BY FirstBucketLevels
    <2> QED
        BY <1>2, <2>1 DEF HourLevel
<1>4. start \in Nat
    <2>1. Lies(from, to, width)
        BY FirstBucketLies
    <2> QED
        BY <2>1 DEF Lies
<1>5. (\A k \in K : lab[k] # start) => end = base
    <2>1. \A s \in RawOf(seg, start, c) : KeyOf(s) \in K /\ lab[KeyOf(s)] = start
        BY StitchLies
    <2> HIDE DEF K, lab, start, c, end, base
    <2> QED
        BY <1>3, <2>1
<1>6. /\ \A p \in points : /\ p.t \in Nat /\ RiseOf(temp, points, p) \in Nat
                           /\ F(p.t + 1) = F(p.t) + RiseOf(temp, points, p)
                           /\ \E k \in K : lab[k] = p.t
    <2>1. \A p \in points : \E x \in K : lab[x] = p.t
        <3> HIDE DEF K, lab, val
        <3> QED
            BY DEF PointsOf
    <2> HIDE DEF K, lab, val
    <2> QED
        BY <1>2, <2>1, PointsRise
<1>7. \A x \in K : \E p \in points : p.t = lab[x]
    <2> SUFFICES ASSUME NEW x \in K PROVE \E p \in points : p.t = lab[x]
        OBVIOUS
    <2> HIDE DEF K, lab, val
    <2>1. [t |-> lab[x], cum |-> Level(temp, val, In(K, lab, lab[x]))] \in points
        BY DEF PointsOf
    <2> QED
        BY <2>1
<1>8. \A n \in Nat : F(n) \in Nat
    <2>1. \A n \in Nat : Upto(K, lab, n) \in SUBSET K
        BY DEF Upto
    <2> HIDE DEF K, lab, val
    <2> QED
        BY <1>2, <2>1, LevelFacts DEF Labelled
<1>9. /\ base \in Nat /\ end \in Nat /\ base <= end
      /\ temp = "delta" => end = base + RawLevel(temp, seg, from, c) /\ RawLevel(temp, seg, from, c) \in Nat
      /\ temp = "cumulative" => base = MaxOr0({F(start), RawLevel(temp, seg, start, from)})
    BY <1>3 DEF RawGrows
<1>10. \A p \in points : p.t # start => later(p) = RiseOf(temp, points, p)
    <2> SUFFICES ASSUME NEW p \in points, temp = "cumulative"
                 PROVE  MaxOr0({Lag(points, p.t), 0}) = Lag(points, p.t)
        BY DEF RiseOf
    <2>1. Lag(points, p.t) = F(p.t)
        <3>1. p.t \in Nat
            BY <1>6
        <3> HIDE DEF K, lab, val
        <3> QED
            BY <1>2, <3>1, LagIs
    <2>2. Lag(points, p.t) \in Nat
        BY <1>6, <1>8, <2>1
    <2> HIDE DEF points
    <2> QED
        BY <2>2, MaxOfTwo
<1>11. \A p \in points : p.t = start => first(p) = end - base
    <2> SUFFICES ASSUME NEW p \in points, p.t = start PROVE first(p) = end - base
        OBVIOUS
    <2>1. CASE temp = "delta"
        <3> HIDE DEF base, end, points
        <3> QED
            BY <1>9, <2>1
    <2>2. CASE temp = "cumulative"
        <3> HIDE DEF K, lab, val
        <3>1. Lag(points, start) = F(start)
            BY <1>2, <1>4, <2>2, LagIs
        <3>2. PICK x \in K : p.t = lab[x] /\ p.cum = Level(temp, val, In(K, lab, lab[x]))
            BY DEF PointsOf
        <3>3. p.cum = F(start + 1)
            <4>1. start + 1 \in Nat /\ lab[x] < start + 1 /\ \A y \in K : lab[y] < start + 1 => lab[y] <= lab[x]
                BY <1>2, <1>4, <3>2 DEF Labelled
            <4> HIDE DEF start
            <4> QED
                BY <1>2, <2>2, <3>2, <4>1, LastBucket
        <3>4. p.cum - MaxOr0({Lag(points, p.t), RawLevel(temp, seg, start, from)}) = end - base
            BY <1>3, <1>9, <2>2, <3>1, <3>3
        <3>5. first(p) = Positive(end - base)
            BY <2>2, <3>4
        <3> HIDE DEF base, end
        <3> QED
            BY <1>9, <3>5 DEF Positive
    <2> QED
        BY <2>1, <2>2 DEF Temporalities
<1> HIDE DEF K, lab, val, points, first, later, F, base, end, start
<1>12. IsChart(B, temp, val, K, lab, start, base)
    <2>1. \A b \in B :
            /\ b.t >= start /\ \E x \in K : lab[x] = b.t
            /\ b.value = F(b.t + 1) - (IF b.t = start THEN base ELSE F(b.t))
            /\ b = [t |-> b.t, value |-> b.value]
        <3> SUFFICES ASSUME NEW b \in B
                     PROVE  /\ b.t >= start /\ \E x \in K : lab[x] = b.t
                            /\ b.value = F(b.t + 1) - (IF b.t = start THEN base ELSE F(b.t))
                            /\ b = [t |-> b.t, value |-> b.value]
            OBVIOUS
        <3>1. PICK p \in points : /\ p.t >= start /\ b.t = p.t
                                  /\ b.value = IF p.t = start THEN first(p) ELSE later(p)
                                  /\ b = [t |-> b.t, value |-> b.value]
            OBVIOUS
        <3>2. /\ p.t \in Nat /\ RiseOf(temp, points, p) \in Nat
              /\ F(p.t + 1) = F(p.t) + RiseOf(temp, points, p)
              /\ \E x \in K : lab[x] = p.t
            BY <1>6
        <3>3. F(p.t) \in Nat
            BY <1>8, <3>2
        <3>4. CASE p.t = start
            BY <1>3, <1>11, <3>1, <3>2, <3>4
        <3>5. CASE p.t # start
            BY <1>10, <3>1, <3>2, <3>3, <3>5
        <3> QED
            BY <3>4, <3>5
    <2>2. \A x \in K : lab[x] >= start => \E b \in B : b.t = lab[x]
        <3> SUFFICES ASSUME NEW x \in K, lab[x] >= start PROVE \E b \in B : b.t = lab[x]
            OBVIOUS
        <3>1. PICK p \in points : p.t = lab[x]
            BY <1>7
        <3>2. [t |-> p.t, value |-> IF p.t = start THEN first(p) ELSE later(p)] \in B
            BY <3>1
        <3> QED
            BY <3>1, <3>2
    <2>3. base \in Nat /\ base <= F(start + 1) /\ ((\A x \in K : lab[x] # start) => base = F(start + 1))
        BY <1>3, <1>5, <1>9
    <2> HIDE DEF B
    <2> QED
        BY <2>1, <2>2, <2>3 DEF IsChart, F
<1> HIDE DEF B
<1>13. Total([p \in B |-> p.value]) = Level(temp, val, K) - base
    BY <1>2, <1>4, <1>12, ChartTotal
<1> QED
    BY <1>1, <1>13 DEF HourLevel, val, K, base

-----------------------------------------------------------------------------
(* The figures of a window.                                                *)

\* Where the end of an hourly question lies.
EndLies(from, to, e) ==
    /\ e \in Nat /\ from < e /\ e <= to
    /\ \A x \in Int : Aligned(HOUR, x) /\ x <= to /\ from < x => x <= e
    /\ now < to => e = to
    /\ RangeEnd(from, e, FALSE) = e
    /\ Closed(to) /\ from + HOUR <= to => now < e \/ Aligned(HOUR, e)

LEMMA RangeEndLies ==
    ASSUME IInv, NEW from \in Nat, NEW to \in Nat, from < to
    PROVE  EndLies(from, to, RangeEnd(from, to, FALSE)) /\ RangeEnd(from, to, TRUE) = to
<1> DEFINE e == RangeEnd(from, to, FALSE)
           g == Bucket(HOUR, to)
<1>1. /\ HOUR \in Nat \ {0} /\ Live \in Nat \ {0} /\ now \in Nat /\ from \in Int /\ to \in Int
    BY Spans, RawFacts
<1>2. g \in Nat /\ g \in Int /\ g <= to /\ to < g + HOUR /\ Aligned(HOUR, g)
    BY <1>1, BucketType, BucketNat
<1>3. e = IF (IF now - to < Live THEN to ELSE g) <= from THEN to ELSE (IF now - to < Live THEN to ELSE g)
    BY DEF RangeEnd
<1>4. \A x \in Int : Aligned(HOUR, x) /\ x <= to => x <= g
    <2> SUFFICES ASSUME NEW x \in Int, Aligned(HOUR, x), x <= to, g < x PROVE FALSE
        BY <1>2
    <2>1. g + HOUR <= x
        BY <1>1, <1>2, AlignedApart
    <2> QED
        BY <1>1, <1>2, <2>1
<1>5. Bucket(HOUR, g) = g
    BY <1>1, <1>2, AlignedBucket
<1> HIDE DEF e, g
<1>6. e \in Nat /\ from < e /\ e <= to /\ (now < to => e = to)
    BY <1>1, <1>2, <1>3
<1>7. \A x \in Int : Aligned(HOUR, x) /\ x <= to /\ from < x => x <= e
    BY <1>1, <1>2, <1>3, <1>4
<1>8. RangeEnd(from, e, FALSE) = e
    <2>1. CASE e = to
        BY <2>1 DEF e
    <2>2. CASE e # to
        <3>1. e = g /\ ~(now - to < Live) /\ ~(now - g < Live) /\ ~(g <= from)
            BY <1>1, <1>2, <1>3, <2>2
        <3> QED
            BY <1>5, <3>1 DEF RangeEnd
    <2> QED
        BY <2>1, <2>2
<1>9. ASSUME Closed(to), from + HOUR <= to PROVE now < e \/ Aligned(HOUR, e)
    <2>1. from < g
        BY <1>1, <1>2, <1>9
    <2>2. CASE now < to
        BY <1>6, <2>2
    <2>3. CASE now - to >= Live
        <3>1. e = g
            BY <1>1, <1>2, <1>3, <2>1, <2>3
        <3> QED
            BY <1>2, <3>1
    <2> QED
        BY <1>9, <2>2, <2>3 DEF Closed
<1> QED
    BY <1>6, <1>7, <1>8, <1>9 DEF EndLies, RangeEnd, e

\* Two figures agree when they agree series by series.
LEMMA TotalsAgree ==
    ASSUME NEW f, NEW g, NEW S, DOMAIN f = S, DOMAIN g = S, IsFiniteSet(S),
           \A x \in S : f[x] \in Nat /\ f[x] = g[x]
    PROVE  Total(f) = Total(g)
<1>1. SumFunctionOnSet(f, S) = SumFunctionOnSet(g, S)
    BY SumSame
<1> QED
    BY <1>1 DEF Total, SumFunction

\* The growth of a series over [from, to), as the snapshot and the chart compute it.
RawGrowth(temp, seg, from, to) ==
    RawLevel(temp, seg, from - Lookback, to) - RawLevel(temp, seg, from - Lookback, from)
RollupGrowth(temp, seg, from, to) ==
    HourLevel(temp, seg, Reach(from), to) - RawLevel(temp, seg, Reach(from), from)

SnapshotGrowth(temp, from, to, seg) ==
    IF IncFlatRaw(from, to) THEN RawGrowth(temp, seg, from, to)
    ELSE RollupGrowth(temp, seg, from, RangeEnd(from, to, FALSE))

LEMMA ReachLies ==
    ASSUME NEW from \in Nat
    PROVE  /\ Reach(from) \in Int /\ Aligned(HOUR, Reach(from)) /\ Reach(from) <= Bucket(HOUR, from)
           /\ Reach(from) <= from - Lookback /\ from - Lookback \in Int /\ from - Lookback <= from
           /\ Bucket(HOUR, from) \in Nat /\ Bucket(HOUR, from) <= from
           /\ Aligned(HOUR, Bucket(HOUR, from)) /\ from < Bucket(HOUR, from) + HOUR
<1>1. HOUR \in Nat \ {0} /\ Lookback \in Nat \ {0} /\ Lookback \in Int /\ from \in Int /\ Aligned(HOUR, Lookback)
    BY Spans
<1> DEFINE h == Bucket(HOUR, from)
<1>2. h \in Nat /\ h \in Int /\ h <= from /\ Aligned(HOUR, h) /\ from < h + HOUR
    BY <1>1, BucketNat, BucketType
<1> HIDE DEF h
<1>3. Aligned(HOUR, h + Lookback) /\ Aligned(HOUR, h - Lookback) /\ Aligned(HOUR, HOUR)
    BY <1>1, <1>2, AlignedSums
<1> QED
    BY <1>1, <1>2, <1>3 DEF Reach, h

LEMMA SnapshotIs ==
    ASSUME IInv, NEW temp \in Temporalities, NEW from \in Nat, NEW to \in Nat, from < to
    PROVE  Snapshot(temp, from, to) = Total([seg \in 1..Segments |-> SnapshotGrowth(temp, from, to, seg)])
<1> DEFINE e == RangeEnd(from, to, FALSE)
<1>1. /\ e \in Nat /\ from < e /\ RangeEnd(from, to, TRUE) = to
      /\ Reach(from) \in Int /\ Aligned(HOUR, Reach(from)) /\ Reach(from) <= Bucket(HOUR, from)
      /\ from - Lookback \in Int /\ from - Lookback <= from /\ to \in Int /\ e \in Int /\ from \in Int
      /\ from <= to
    <2>1. EndLies(from, to, e) /\ RangeEnd(from, to, TRUE) = to
        BY RangeEndLies
    <2>2. /\ Reach(from) \in Int /\ Aligned(HOUR, Reach(from)) /\ Reach(from) <= Bucket(HOUR, from)
          /\ from - Lookback \in Int /\ from - Lookback <= from
        BY ReachLies
    <2> HIDE DEF e
    <2>3. e \in Nat /\ from < e
        BY <2>1 DEF EndLies
    <2>4. from \in Int /\ from <= to /\ to \in Int /\ e \in Int
        BY <2>3
    <2> QED
        BY <2>1, <2>2, <2>3, <2>4
<1>2. CASE IncFlatRaw(from, to)
    <2>1. \A seg : RawIncrement(temp, seg, from, to, from - Lookback) = RawGrowth(temp, seg, from, to)
        BY <1>1, RawIncrementIs DEF RawGrowth
    <2> QED
        BY <1>1, <1>2, <2>1 DEF Snapshot, SnapshotGrowth
<1>3. CASE ~IncFlatRaw(from, to)
    <2> HIDE DEF e
    <2>1. \A seg : RollupIncrement(temp, seg, from, e, Reach(from)) = RollupGrowth(temp, seg, from, e)
        BY <1>1, RollupIncrementIs DEF RollupGrowth
    <2>2. Snapshot(temp, from, to)
            = Total([seg \in 1..Segments |-> RollupIncrement(temp, seg, from, e, Reach(from))])
        <3>1. IncFlatRaw(from, to) = FALSE
            BY <1>3 DEF IncFlatRaw
        <3> QED
            BY <3>1 DEF Snapshot, Reach, e
    <2> QED
        BY <1>3, <2>1, <2>2 DEF SnapshotGrowth, e
<1> QED
    BY <1>2, <1>3

\* Where the first whole minute bucket of a window begins.
Whole(from, to, width) == Min({Bucket(width, from + width - 1), to})

LEMMA MinuteLabels ==
    ASSUME NEW from \in Nat, NEW to \in Nat, from < to
    PROVE  LET label == [t \in Times |-> Bucket(Minute, t)]
               whole == Whole(from, to, Minute)
           IN /\ label \in [Times -> Nat]
              /\ \A x, y \in Times : x <= y => label[x] <= label[y]
              /\ whole \in Int /\ from <= whole /\ whole <= to
              /\ \A x \in Times : x < to => (label[x] >= from <=> x >= whole)
<1> DEFINE c == Bucket(Minute, from + Minute - 1)
<1>1. Minute \in Nat \ {0} /\ Minute \in Int /\ from + Minute - 1 \in Nat
    BY Spans
<1>2. \A t \in Times : t \in Nat
    BY Spans DEF Times
<1>3. \A t \in Nat : /\ Bucket(Minute, t) \in Nat /\ Bucket(Minute, t) <= t /\ t < Bucket(Minute, t) + Minute
                     /\ Aligned(Minute, Bucket(Minute, t))
    BY <1>1, BucketType, BucketNat
<1>4. c \in Nat /\ c < from + Minute /\ from <= c /\ Aligned(Minute, c)
    BY <1>1, <1>3
<1> HIDE DEF c
<1>5. \A t \in Nat : Bucket(Minute, t) >= from <=> t >= c
    <2> SUFFICES ASSUME NEW t \in Nat PROVE Bucket(Minute, t) >= from <=> t >= c
        OBVIOUS
    <2> DEFINE b == Bucket(Minute, t)
    <2>1. b \in Nat /\ b <= t /\ t < b + Minute /\ Aligned(Minute, b)
        BY <1>3
    <2> HIDE DEF b
    <2>2. b < c => b + Minute <= c
        BY <1>1, <1>4, <2>1, AlignedApart
    <2>3. c < b + Minute \/ b + Minute <= c
        BY <1>1, <1>4, <2>1
    <2>4. b >= from => b >= c
        BY <1>1, <1>4, <2>1, <2>2
    <2>5. t >= c => b >= c
        BY <1>1, <1>4, <2>1, <2>2
    <2> QED
        BY <1>4, <2>1, <2>4, <2>5 DEF b
<1>6. \A x, y \in Times : x <= y => Bucket(Minute, x) <= Bucket(Minute, y)
    <2> SUFFICES ASSUME NEW x \in Times, NEW y \in Times, x <= y
                 PROVE  Bucket(Minute, x) <= Bucket(Minute, y)
        OBVIOUS
    <2> DEFINE a == Bucket(Minute, x)
               b == Bucket(Minute, y)
    <2>1. /\ x \in Nat /\ a \in Nat /\ a <= x /\ x < a + Minute /\ Aligned(Minute, a)
          /\ y \in Nat /\ b \in Nat /\ b <= y /\ y < b + Minute /\ Aligned(Minute, b)
        BY <1>2, <1>3
    <2> HIDE DEF a, b
    <2>2. b < a => b + Minute <= a
        BY <1>1, <2>1, AlignedApart
    <2>3. a <= b
        BY <1>1, <2>1, <2>2
    <2> QED
        BY <2>3 DEF a, b
<1>7. Whole(from, to, Minute) = IF c <= to THEN c ELSE to
    <2>1. Whole(from, to, Minute) = Min({c, to})
        BY DEF Whole, c
    <2>2. CASE c <= to
        <3>1. c \in {c, to} /\ \A y \in {c, to} : c <= y
            BY <1>4, <2>2
        <3>2. \A x \in {c, to} : (\A y \in {c, to} : x <= y) => x = c
            BY <1>4, <2>2
        <3> QED
            BY <2>1, <2>2, <3>1, <3>2 DEF Min
    <2>3. CASE ~(c <= to)
        <3>1. to \in {c, to} /\ \A y \in {c, to} : to <= y
            BY <1>4, <2>3
        <3>2. \A x \in {c, to} : (\A y \in {c, to} : x <= y) => x = to
            BY <1>4, <2>3
        <3> QED
            BY <2>1, <2>3, <3>1, <3>2 DEF Min
    <2> QED
        BY <2>2, <2>3
<1> QED
    BY <1>2, <1>3, <1>4, <1>5, <1>6, <1>7

\* The buckets a chart may have.
LEMMA WidthsAre ==
    ASSUME NEW from \in Nat, NEW to \in Nat, NEW width \in Widths(from, to)
    PROVE  \/ width = Minute /\ IncFlatRaw(from, to)
           \/ /\ width \in {HOUR, DAY} /\ ~(width < HOUR)
              /\ \/ ~IncFlatRaw(from, to) /\ width < to - from
                 \/ from % DAY = 0 /\ now < to
BY Spans DEF Widths, IncFlatRaw

LEMMA SegmentsFinite == IsFiniteSet(1..Segments)
<1>1. 1 \in Int /\ Segments \in Int
    BY Spans
<1> QED
    BY <1>1, FS_Interval

LEMMA SeriesIs ==
    ASSUME IInv, NEW temp \in Temporalities, NEW from \in Nat, NEW to \in Nat, from < to, to <= now + 1,
           NEW width \in Widths(from, to)
    PROVE  SeriesTotal(temp, from, to, width) + CutAway(temp, from, to, width)
                = Total([seg \in 1..Segments |-> SnapshotGrowth(temp, from, to, seg)])
<1> DEFINE e == RangeEnd(from, to, FALSE)
           label == [t \in Times |-> Bucket(width, t)]
           since == from - Lookback
           whole == Whole(from, to, width)
           sum == Total([seg \in 1..Segments |-> SnapshotGrowth(temp, from, to, seg)])
<1>1. /\ EndLies(from, to, e) /\ RangeEnd(from, to, TRUE) = to
      /\ Reach(from) \in Int /\ Aligned(HOUR, Reach(from)) /\ Reach(from) <= Bucket(HOUR, from)
      /\ from \in Int /\ from <= to /\ to \in Int /\ now \in Nat /\ since \in Int /\ since <= from
    <2>1. EndLies(from, to, e) /\ RangeEnd(from, to, TRUE) = to
        BY RangeEndLies
    <2>2. /\ Reach(from) \in Int /\ Aligned(HOUR, Reach(from)) /\ Reach(from) <= Bucket(HOUR, from)
          /\ since \in Int /\ since <= from
        BY ReachLies
    <2> HIDE DEF e
    <2>3. now \in Nat
        BY RawFacts
    <2>4. from \in Int /\ from <= to /\ to \in Int
        OBVIOUS
    <2> QED
        BY <2>1, <2>2, <2>3, <2>4
<1>2. CASE width = Minute /\ IncFlatRaw(from, to)
    <2>1. /\ label \in [Times -> Nat]
          /\ \A x, y \in Times : x <= y => label[x] <= label[y]
          /\ whole \in Int /\ from <= whole /\ whole <= to
          /\ \A x \in Times : x < to => (label[x] >= from <=> x >= whole)
        BY <1>2, MinuteLabels
    <2>2. width < HOUR
        BY <1>2, Spans
    <2>3. SeriesTotal(temp, from, to, width)
            = Total([seg \in 1..Segments |-> Total([p \in RawBuckets(temp, seg, from, to, label) |-> p.value])])
        BY <1>1, <2>2 DEF SeriesTotal
    <2> HIDE DEF label, whole
    <2>4. \A seg : Total([p \in RawBuckets(temp, seg, from, to, label) |-> p.value])
                    = RawLevel(temp, seg, since, to) - RawLevel(temp, seg, since, whole)
        BY <1>1, <2>1, RawBucketsTotal
    <2>5. \A seg : RawIncrement(temp, seg, from, whole, since)
                    = RawLevel(temp, seg, since, whole) - RawLevel(temp, seg, since, from)
        BY <1>1, <2>1, RawIncrementIs
    <2>6. CutAway(temp, from, to, width)
            = Total([seg \in 1..Segments |-> RawIncrement(temp, seg, from, whole, since)])
        BY <2>2 DEF CutAway, Whole, whole
    <2>7. \A seg : /\ RawLevel(temp, seg, since, from) \in Nat /\ RawLevel(temp, seg, since, whole) \in Nat
                   /\ RawLevel(temp, seg, since, to) \in Nat
                   /\ RawLevel(temp, seg, since, from) <= RawLevel(temp, seg, since, whole)
                   /\ RawLevel(temp, seg, since, whole) <= RawLevel(temp, seg, since, to)
        <3> SUFFICES ASSUME NEW seg
                     PROVE  /\ RawGrows(temp, seg, since, from, whole)
                            /\ RawGrows(temp, seg, since, whole, to)
            BY DEF RawGrows
        <3> QED
            BY <1>1, <2>1, RawLevelGrows
    <2> DEFINE f == [seg \in 1..Segments |-> RawLevel(temp, seg, since, to) - RawLevel(temp, seg, since, whole)]
               g == [seg \in 1..Segments |-> RawLevel(temp, seg, since, whole) - RawLevel(temp, seg, since, from)]
               h == [seg \in 1..Segments |-> SnapshotGrowth(temp, from, to, seg)]
    <2>8. SeriesTotal(temp, from, to, width) = Total(f) /\ CutAway(temp, from, to, width) = Total(g)
        BY <2>3, <2>4, <2>5, <2>6
    <2>9. \A seg \in 1..Segments : f[seg] \in Nat /\ g[seg] \in Nat /\ h[seg] = f[seg] + g[seg]
        <3>1. \A seg : SnapshotGrowth(temp, from, to, seg)
                        = RawLevel(temp, seg, since, to) - RawLevel(temp, seg, since, from)
            BY <1>2 DEF SnapshotGrowth, RawGrowth
        <3> QED
            BY <2>7, <3>1
    <2>10. DOMAIN f = 1..Segments /\ DOMAIN g = 1..Segments /\ DOMAIN h = 1..Segments
        OBVIOUS
    <2> HIDE DEF f, g, h
    <2>11. IsFiniteSet(1..Segments)
        BY SegmentsFinite
    <2>12. SumFunctionOnSet(f, 1..Segments) + SumFunctionOnSet(g, 1..Segments) = SumFunctionOnSet(h, 1..Segments)
        <3> DEFINE K == 1..Segments
        <3>1. IsFiniteSet(K) /\ \A seg \in K : f[seg] \in Nat /\ g[seg] \in Nat /\ h[seg] = f[seg] + g[seg]
            BY <2>9, <2>11
        <3> HIDE DEF K
        <3>2. SumFunctionOnSet(f, K) + SumFunctionOnSet(g, K) = SumFunctionOnSet(h, K)
            BY <3>1, SumAdds
        <3> QED
            BY <3>2 DEF K
    <2>13. Total(f) + Total(g) = Total(h)
        BY <2>10, <2>12 DEF Total, SumFunction
    <2> QED
        BY <2>8, <2>13 DEF h
<1>3. ASSUME width \in {HOUR, DAY}, ~(width < HOUR), FirstBucket(from, e, width)
      PROVE  SeriesTotal(temp, from, to, width)
                = Total([seg \in 1..Segments |-> RollupGrowth(temp, seg, from, e)])
    <2>1. SeriesTotal(temp, from, to, width)
            = Total([seg \in 1..Segments |-> Total([p \in RollupBuckets(temp, seg, from, e, width) |-> p.value])])
        <3>1. (width < HOUR) = FALSE
            BY <1>3
        <3> QED
            BY <3>1 DEF SeriesTotal
    <2> HIDE DEF e
    <2>2. e \in Int
        BY <1>1 DEF EndLies
    <2>3. \A seg : Total([p \in RollupBuckets(temp, seg, from, e, width) |-> p.value])
                    = RollupGrowth(temp, seg, from, e)
        BY <1>3, <2>2, RollupBucketsTotal DEF RollupGrowth
    <2> QED
        BY <2>1, <2>3
\* No minute bucket is cut, and the sum is a number.
<1>6. ASSUME ~(width < HOUR) PROVE CutAway(temp, from, to, width) = 0 /\ sum + 0 = sum
    <2>1. CutAway(temp, from, to, width) = 0
        <3>1. (width < HOUR) = FALSE
            BY <1>6
        <3> QED
            BY <3>1 DEF CutAway
    <2>2. \A seg : SnapshotGrowth(temp, from, to, seg) \in Nat
        <3> SUFFICES ASSUME NEW seg PROVE SnapshotGrowth(temp, from, to, seg) \in Nat
            OBVIOUS
        <3>1. RawGrows(temp, seg, since, from, to)
            BY <1>1, RawLevelGrows
        <3>2. /\ HourLevel(temp, seg, Reach(from), e) \in Nat /\ RawLevel(temp, seg, Reach(from), from) \in Nat
              /\ RawLevel(temp, seg, Reach(from), from) <= HourLevel(temp, seg, Reach(from), e)
            <4> HIDE DEF e
            <4>1. e \in Int /\ from < e
                BY <1>1 DEF EndLies
            <4> QED
                BY <1>1, <4>1, RollupIncrementIs
        <3> HIDE DEF e, since
        <3>3. RawGrowth(temp, seg, from, to) \in Nat
            BY <3>1 DEF RawGrows, RawGrowth, since
        <3>4. RollupGrowth(temp, seg, from, e) \in Nat
            BY <3>2 DEF RollupGrowth
        <3> QED
            BY <3>3, <3>4 DEF SnapshotGrowth, e
    <2>3. IsFiniteSet(1..Segments)
        BY SegmentsFinite
    <2>4. sum \in Nat
        <3> DEFINE h == [seg \in 1..Segments |-> SnapshotGrowth(temp, from, to, seg)]
        <3>1. \A seg \in 1..Segments : h[seg] \in Nat
            BY <2>2
        <3>2. DOMAIN h = 1..Segments
            OBVIOUS
        <3> HIDE DEF h
        <3>3. SumFunctionOnSet(h, 1..Segments) \in Nat
            BY <2>3, <3>1, IterSums
        <3> QED
            BY <3>2, <3>3 DEF Total, SumFunction, h
    <2> HIDE DEF sum
    <2> QED
        BY <2>1, <2>4
<1>4. CASE width \in {HOUR, DAY} /\ ~(width < HOUR) /\ ~IncFlatRaw(from, to) /\ width < to - from
    <2>1. FirstBucket(from, e, width)
        <3> DEFINE x == Bucket(width, from) + width
        <3>1. width \in Nat \ {0} /\ HOUR \in Nat \ {0}
            BY <1>4, Spans
        <3>2. /\ Bucket(width, from) \in Int /\ Bucket(width, from) <= from /\ from < Bucket(width, from) + width
              /\ Aligned(width, Bucket(width, from))
            BY <1>1, <3>1, BucketType
        <3>3. Aligned(width, x)
            <4> DEFINE y == Bucket(width, from)
            <4>1. y \in Int /\ width \in Int /\ Aligned(width, y)
                BY <3>1, <3>2
            <4> HIDE DEF y
            <4>2. Aligned(width, y + y) /\ Aligned(width, y - y) /\ Aligned(width, width)
                BY <3>1, <4>1, AlignedSums
            <4>3. Aligned(width, y + width) /\ Aligned(width, y - width) /\ Aligned(width, width)
                BY <3>1, <4>1, <4>2, AlignedSums
            <4> QED
                BY <4>3 DEF y
        <3>4. x \in Int /\ from < x /\ x <= to
            BY <1>1, <1>4, <3>1, <3>2
        <3> HIDE DEF x
        <3>5. Aligned(HOUR, x)
            BY <1>4, <3>3, <3>4, AlignedDay
        <3>6. x <= e /\ from < e
            BY <1>1, <3>4, <3>5 DEF EndLies
        <3> QED
            BY <3>6 DEF FirstBucket, x
    <2>2. SeriesTotal(temp, from, to, width) = sum
        BY <1>3, <1>4, <2>1 DEF SnapshotGrowth
    <2> QED
        BY <1>4, <1>6, <2>2
<1>5. CASE width \in {HOUR, DAY} /\ ~(width < HOUR) /\ from % DAY = 0 /\ now < to
    <2>1. e = to /\ FirstBucket(from, e, width)
        BY <1>1, <1>5 DEF EndLies, FirstBucket
    <2>2. SeriesTotal(temp, from, to, width)
            = Total([seg \in 1..Segments |-> RollupGrowth(temp, seg, from, to)])
        BY <1>3, <1>5, <2>1
    <2>3. CASE ~IncFlatRaw(from, to)
        <3>1. SeriesTotal(temp, from, to, width) = sum
            BY <2>1, <2>2, <2>3 DEF SnapshotGrowth
        <3> QED
            BY <1>5, <1>6, <3>1
    <2>4. CASE IncFlatRaw(from, to)
        <3>1. Bucket(HOUR, from) = from
            <4>1. DAY \in Nat \ {0} /\ HOUR \in Nat \ {0} /\ Bucket(DAY, from) = from
                BY <1>5, Spans DEF Bucket
            <4>2. Aligned(DAY, from)
                BY <1>1, <4>1, BucketType
            <4>3. Aligned(HOUR, from)
                BY <1>1, <4>2, AlignedDay
            <4>4. from < from + HOUR
                BY <4>1
            <4> QED
                BY <1>1, <4>1, <4>3, <4>4, AlignedBucket
        <3>2. \A seg : HourLevel(temp, seg, Reach(from), to) = RawLevel(temp, seg, Reach(from), to)
            BY <1>1, <1>5, HoursAreRows
        <3>3. \A seg : RollupGrowth(temp, seg, from, to) = SnapshotGrowth(temp, from, to, seg)
            BY <2>4, <3>1, <3>2 DEF RollupGrowth, SnapshotGrowth, RawGrowth, Reach
        <3>4. SeriesTotal(temp, from, to, width) = sum
            BY <2>2, <3>3
        <3> QED
            BY <1>5, <1>6, <3>4
    <2> QED
        BY <2>3, <2>4
<1> QED
    BY <1>2, <1>4, <1>5, WidthsAre

\* The increments of a chart's buckets, with what the minute bucket that from cuts
\* held, add up to the snapshot above it (queries.js, incBucket and incFlat).
THEOREM ChartsAddUp == Spec => []SeriesSumsToSnapshot
<1>1. ASSUME IInv PROVE SeriesSumsToSnapshot
    <2> SUFFICES ASSUME NEW w \in Windows, NEW temp \in Temporalities, NEW width \in Widths(w[1], w[2])
                 PROVE  SeriesTotal(temp, w[1], w[2], width) + CutAway(temp, w[1], w[2], width)
                            = Snapshot(temp, w[1], w[2])
        BY DEF SeriesSumsToSnapshot
    <2>1. w[1] \in Nat /\ w[2] \in Nat /\ w[1] < w[2] /\ w[2] <= now + 1
        BY Spans DEF Windows, Times
    <2> QED
        BY <1>1, <2>1, SeriesIs, SnapshotIs
<1> QED
    BY <1>1, InductiveInvariant, PTL

-----------------------------------------------------------------------------
(* The growth that was recorded.                                           *)

Series(seg) == {s \in raw : s.seg = seg}

\* A sample's growth is what it adds to the level of its series.
LEMMA GrowthIs ==
    ASSUME IInv, NEW temp \in Temporalities, NEW s \in raw
    PROVE  /\ Growth(temp, s) \in Nat /\ RawLevel(temp, s.seg, 0, s.t) \in Nat
           /\ RawLevel(temp, s.seg, 0, s.t + 1) = RawLevel(temp, s.seg, 0, s.t) + Growth(temp, s)
<1> DEFINE seg == s.seg
           t == s.t
           T == RawOf(seg, 0, t)
           L(b) == RawLevel(temp, seg, 0, b)
<1>1. t \in Nat /\ s.cum \in Nat /\ s.inc \in Nat
    BY RawFacts
<1>2. RawOf(seg, t, t + 1) = {s}
    <2>1. \A r \in raw : r.t \in Nat /\ (r.t >= t /\ r.t < t + 1 <=> r.t = t)
        BY <1>1, RawFacts
    <2>2. \A r \in raw : r.seg = seg /\ r.t = t => r = s
        BY <1>1, RawFacts
    <2>3. \A r : r \in RawOf(seg, t, t + 1) <=> r = s
        BY <2>1, <2>2 DEF RawOf
    <2> QED
        BY <2>3
<1>3. RawLevel(temp, seg, t, t + 1) = IF temp = "cumulative" THEN s.cum ELSE s.inc
    <2>1. SampleValue(temp)[s] \in Nat
        BY RawFacts
    <2>2. Level(temp, SampleValue(temp), {s}) = SampleValue(temp)[s]
        BY <2>1, LevelOne
    <2>3. SampleValue(temp)[s] = IF temp = "cumulative" THEN s.cum ELSE s.inc
        BY RawFacts DEF SampleValue
    <2> QED
        BY <1>2, <2>2, <2>3 DEF RawLevel
<1>4. RawGrows(temp, seg, 0, t, t + 1)
    <2>1. 0 \in Int /\ t \in Int /\ t + 1 \in Int /\ 0 <= t /\ t <= t + 1
        BY <1>1
    <2> HIDE DEF t, seg
    <2> QED
        BY <2>1, RawLevelGrows
<1>5. {r \in raw : r.seg = seg /\ r.t < t} = T
    BY RawFacts DEF RawOf
<1>6. CASE temp = "delta"
    BY <1>1, <1>3, <1>4, <1>6 DEF RawGrows, Growth
<1>7. CASE temp = "cumulative"
    <2>1. T \in SUBSET raw /\ IsFiniteSet(T)
        BY RawFacts
    <2>2. MaxOr0({r.cum : r \in T}) = L(t)
        BY <1>7, <2>1, RowsWritten DEF RawLevel
    <2>3. Growth(temp, s) = s.cum - L(t)
        BY <1>5, <1>7, <2>2 DEF Growth
    <2>4. L(t) <= s.cum
        <3>1. \A r \in T : r.cum \in Nat /\ r.cum <= s.cum
            <4>1. \A r \in T : r \in raw /\ r.seg = s.seg /\ r.t < s.t
                BY DEF RawOf
            <4>2. \A r \in raw : r.t \in Nat /\ s.t \in Nat /\ r.cum \in Nat
                BY RawFacts
            <4>3. \A r \in T : r.t <= s.t
                BY <4>1, <4>2
            <4> HIDE DEF T
            <4> QED
                BY <4>1, <4>2, <4>3, RawFacts
        <3> DEFINE V == {r.cum : r \in T}
                   c == [r \in T |-> r.cum]
        <3>2. IsFiniteSet(V) /\ V \subseteq Nat
            <4>1. V = {c[r] : r \in T}
                OBVIOUS
            <4> HIDE DEF T, c
            <4>2. IsFiniteSet({c[r] : r \in T})
                BY <2>1, FiniteImage
            <4> QED
                BY <3>1, <4>1, <4>2
        <3> HIDE DEF V
        <3>3. MaxOr0(V) \in V \cup {0} /\ MaxOr0(V) \in Nat
            BY <3>2, MaxOr0Facts
        <3>4. MaxOr0(V) <= s.cum
            BY <1>1, <3>1, <3>3 DEF V
        <3> QED
            BY <2>2, <3>4 DEF V
    <2>5. L(t) \in Nat /\ L(t + 1) = MaxOr0({L(t), s.cum})
        BY <1>3, <1>4, <1>7 DEF RawGrows
    <2>6. L(t + 1) = s.cum
        <3> HIDE DEF L
        <3> QED
            BY <1>1, <2>4, <2>5, MaxOfTwo
    <2> HIDE DEF L
    <2>7. Growth(temp, s) \in Nat /\ L(t) \in Nat /\ L(t + 1) = L(t) + Growth(temp, s)
        BY <1>1, <2>3, <2>4, <2>5, <2>6
    <2> QED
        BY <2>7 DEF L
<1> QED
    BY <1>6, <1>7 DEF Temporalities

\* The level of a series grows by what its samples record.
LEMMA SeriesGrowth ==
    ASSUME IInv, NEW temp \in Temporalities, NEW seg, NEW from \in Nat, NEW to \in Nat, from <= to
    PROVE  RawLevel(temp, seg, 0, to) = RawLevel(temp, seg, 0, from)
                + SumFunctionOnSet([s \in Series(seg) |-> Growth(temp, s)], RawOf(seg, from, to))
<1> DEFINE P == Series(seg)
           at == [s \in P |-> s.t]
           v == [s \in P |-> Growth(temp, s)]
           f == [n \in Nat |-> RawLevel(temp, seg, 0, n)]
<1>1. IsFiniteSet(P) /\ \A s \in P : s \in raw /\ s.seg = seg /\ s.t \in Nat
    BY RawFacts, FS_Subset DEF Series
<1>2. at \in [P -> Nat] /\ v \in [P -> Nat]
    BY <1>1, GrowthIs
<1>3. f \in [Nat -> Nat]
    <2>1. \A n \in Nat : RawLevel(temp, seg, 0, n) \in Nat
        <3> SUFFICES ASSUME NEW n \in Nat PROVE RawLevel(temp, seg, 0, n) \in Nat
            OBVIOUS
        <3>1. 0 \in Int /\ n \in Int /\ 0 <= 0 /\ 0 <= n
            OBVIOUS
        <3>2. RawGrows(temp, seg, 0, 0, n)
            BY <3>1, RawLevelGrows
        <3> QED
            BY <3>2 DEF RawGrows
    <2> QED
        BY <2>1
<1>4. \A p, q \in P : at[p] = at[q] => p = q
    BY <1>1, RawFacts
<1>5. \A p \in P : f[at[p] + 1] = f[at[p]] + v[p]
    <2> SUFFICES ASSUME NEW p \in P PROVE f[at[p] + 1] = f[at[p]] + v[p]
        OBVIOUS
    <2>1. p \in raw /\ p.seg = seg /\ p.t \in Nat /\ p.t + 1 \in Nat
        BY <1>1
    <2>2. RawLevel(temp, p.seg, 0, p.t + 1) = RawLevel(temp, p.seg, 0, p.t) + Growth(temp, p)
        BY <2>1, GrowthIs
    <2> QED
        BY <2>1, <2>2
<1>6. \A n \in Nat : (\A p \in P : at[p] # n) => f[n + 1] = f[n]
    <2> SUFFICES ASSUME NEW n \in Nat, \A p \in P : at[p] # n PROVE f[n + 1] = f[n]
        OBVIOUS
    <2>1. \A s \in raw : s.seg = seg => s.t \in Nat /\ s.t # n
        BY RawFacts DEF Series
    <2>2. \A s \in raw : s.seg = seg => (s.t < n + 1 <=> s.t < n)
        BY <2>1
    <2>3. \A s : s \in RawOf(seg, 0, n + 1) <=> s \in RawOf(seg, 0, n)
        BY <2>2 DEF RawOf
    <2>4. RawOf(seg, 0, n + 1) = RawOf(seg, 0, n)
        BY <2>3
    <2> QED
        BY <2>4 DEF RawLevel
<1>7. RisesAt(P, at, v, f)
    <2> HIDE DEF P, at, v, f
    <2> QED
        BY <1>1, <1>2, <1>3, <1>4, <1>5, <1>6 DEF RisesAt
<1>8. {p \in P : from <= at[p] /\ at[p] < to} = RawOf(seg, from, to)
    <2>1. \A s \in raw : s.t \in Nat /\ (from <= s.t <=> s.t >= from)
        BY RawFacts
    <2>2. \A s : s \in {p \in P : from <= at[p] /\ at[p] < to} <=> s \in P /\ from <= s.t /\ s.t < to
        OBVIOUS
    <2>3. \A s : s \in P /\ from <= s.t /\ s.t < to <=> s \in RawOf(seg, from, to)
        BY <2>1 DEF RawOf, Series
    <2> HIDE DEF P, at
    <2> QED
        BY <2>2, <2>3
<1>9. f[to] = RawLevel(temp, seg, 0, to) /\ f[from] = RawLevel(temp, seg, 0, from)
    OBVIOUS
<1> HIDE DEF P, at, v, f
<1>10. f[to] = f[from] + SumFunctionOnSet(v, {p \in P : from <= at[p] /\ at[p] < to})
    BY <1>7, Telescope
<1> QED
    BY <1>8, <1>9, <1>10 DEF v, P

\* With a sample in reach of every series, a scan from since counts as one from the start.
LEMMA ReachSuffices ==
    ASSUME IInv, NEW temp \in Temporalities, NEW seg, NEW since \in Int, NEW from \in Nat, NEW to \in Nat,
           from <= to, since <= from - Lookback, BaselineInReach(from)
    PROVE  RawLevel(temp, seg, since, to) - RawLevel(temp, seg, since, from)
                = RawLevel(temp, seg, 0, to) - RawLevel(temp, seg, 0, from)
<1>1. /\ from \in Int /\ to \in Int /\ 0 \in Int /\ since <= from /\ 0 <= from /\ Lookback \in Nat
    BY Spans
<1>2. RawGrows(temp, seg, since, from, to) /\ RawGrows(temp, seg, 0, from, to)
    BY <1>1, RawLevelGrows
<1>3. CASE temp = "delta"
    BY <1>2, <1>3 DEF RawGrows
<1>4. CASE temp = "cumulative"
    <2> DEFINE val == SampleValue(temp)
               S == RawOf(seg, since, from)
               T == RawOf(seg, 0, from)
    <2>1. /\ IsFiniteSet(S) /\ IsFiniteSet(T) /\ \A s \in S \cup T : val[s] \in Nat /\ s \in raw
          /\ \A s \in raw : val[s] = s.cum
        <3>1. S \in SUBSET raw /\ T \in SUBSET raw /\ IsFiniteSet(S) /\ IsFiniteSet(T)
            BY RawFacts
        <3>2. \A s \in raw : val[s] \in Nat /\ val[s] = s.cum
            BY <1>4, RawFacts DEF SampleValue
        <3> QED
            BY <3>1, <3>2
    <2>2. \A s \in S : s \in T
        BY RawFacts DEF RawOf
    <2>3. \A s \in T : \E r \in S : s.cum <= r.cum
        <3> SUFFICES ASSUME NEW s \in T PROVE \E r \in S : s.cum <= r.cum
            OBVIOUS
        <3>1. s \in raw /\ s.seg = seg /\ s.t \in Nat /\ s.t < from /\ s.cum \in Nat
            BY RawFacts DEF RawOf
        <3>2. CASE s.t >= since
            BY <3>1, <3>2 DEF RawOf
        <3>3. CASE s.t < since
            <4>1. PICK r \in raw : r.seg = s.seg /\ r.t < from /\ r.t >= from - Lookback
                BY <3>1 DEF BaselineInReach
            <4>2. r.t \in Nat /\ r.t >= since /\ s.t <= r.t
                BY <1>1, <3>1, <3>3, <4>1, RawFacts
            <4>3. s.cum <= r.cum
                BY <3>1, <4>1, <4>2, RawFacts
            <4> QED
                BY <3>1, <4>1, <4>2, <4>3 DEF RawOf
        <3> QED
            BY <1>1, <3>1, <3>2, <3>3
    <2> HIDE DEF val, S, T
    <2>4. /\ Top(val, S) \in Nat /\ \A x \in S : val[x] <= Top(val, S)
          /\ Top(val, S) = 0 \/ \E x \in S : val[x] = Top(val, S)
        BY <2>1, TopFacts
    <2>5. /\ Top(val, T) \in Nat /\ \A x \in T : val[x] <= Top(val, T)
          /\ Top(val, T) = 0 \/ \E x \in T : val[x] = Top(val, T)
        BY <2>1, TopFacts
    <2>6. Top(val, S) <= Top(val, T)
        BY <2>1, <2>2, <2>4, <2>5
    <2>7. Top(val, T) <= Top(val, S)
        BY <2>1, <2>3, <2>4, <2>5
    <2>8. RawLevel(temp, seg, since, from) = RawLevel(temp, seg, 0, from)
        BY <1>4, <2>4, <2>5, <2>6, <2>7 DEF RawLevel, Level, val, S, T
    <2> QED
        BY <1>2, <1>4, <2>8 DEF RawGrows
<1> QED
    BY <1>3, <1>4 DEF Temporalities

\* Summed over the series, the growth of the levels is the growth recorded.
LEMMA RecordedIs ==
    ASSUME IInv, NEW temp \in Temporalities, NEW from \in Nat, NEW to \in Nat, from <= to,
           NEW since \in Int, since <= from - Lookback, BaselineInReach(from)
    PROVE  Total([seg \in 1..Segments |-> RawLevel(temp, seg, since, to) - RawLevel(temp, seg, since, from)])
                = Recorded(temp, from, to)
<1> DEFINE S == {r \in raw : r.t >= from /\ r.t < to}
           v == [s \in S |-> Growth(temp, s)]
           K == 1..Segments
           key == [s \in S |-> s.seg]
           g == [seg \in K |-> RawLevel(temp, seg, since, to) - RawLevel(temp, seg, since, from)]
<1>1. IsFiniteSet(S) /\ \A s \in S : s \in raw
    BY RawFacts, FS_Subset
<1>2. Grouped(S, v, K, key)
    <2>1. \A s \in S : v[s] \in Nat
        BY <1>1, GrowthIs
    <2>2. \A s \in S : key[s] \in K
        BY <1>1, RawFacts, SampleFields
    <2>3. IsFiniteSet(K)
        BY Spans, FS_Interval
    <2> QED
        BY <1>1, <2>1, <2>2, <2>3 DEF Grouped
<1>3. ASSUME NEW seg \in K
      PROVE  g[seg] = SumFunctionOnSet(v, {s \in S : key[s] = seg})
    <2> DEFINE Q == RawOf(seg, from, to)
               u == [s \in Series(seg) |-> Growth(temp, s)]
    <2>1. {s \in S : key[s] = seg} = Q
        BY DEF RawOf
    <2>2. IsFiniteSet(Q) /\ \A s \in Q : s \in S /\ s \in Series(seg)
        <3>1. IsFiniteSet(Q)
            BY RawFacts
        <3>2. \A s \in Q : s \in S /\ s \in Series(seg)
            BY DEF RawOf, Series
        <3> QED
            BY <3>1, <3>2
    <2>3. \A s \in Q : u[s] = v[s] /\ u[s] \in Nat
        BY <1>2, <2>2 DEF Grouped
    <2>4. RawLevel(temp, seg, 0, to) = RawLevel(temp, seg, 0, from) + SumFunctionOnSet(u, Q)
        BY SeriesGrowth
    <2>5. RawLevel(temp, seg, since, to) - RawLevel(temp, seg, since, from)
            = RawLevel(temp, seg, 0, to) - RawLevel(temp, seg, 0, from)
        BY ReachSuffices
    <2>6. RawLevel(temp, seg, 0, from) \in Nat
        <3>1. 0 \in Int /\ from \in Int /\ 0 <= 0 /\ 0 <= from
            OBVIOUS
        <3>2. RawGrows(temp, seg, 0, 0, from)
            BY <3>1, RawLevelGrows
        <3> QED
            BY <3>2 DEF RawGrows
    <2>7. g[seg] = RawLevel(temp, seg, since, to) - RawLevel(temp, seg, since, from)
        OBVIOUS
    <2> HIDE DEF S, v, key, g, Q, u
    <2>8. SumFunctionOnSet(u, Q) = SumFunctionOnSet(v, Q) /\ SumFunctionOnSet(u, Q) \in Nat
        BY <2>2, <2>3, SumSame, IterSums
    <2>9. RawLevel(temp, seg, 0, to) - RawLevel(temp, seg, 0, from) = SumFunctionOnSet(u, Q)
        BY <2>4, <2>6, <2>8
    <2>10. g[seg] = SumFunctionOnSet(v, Q)
        BY <2>5, <2>7, <2>8, <2>9
    <2> QED
        BY <2>1, <2>10, Zenon
<1>4. DOMAIN g = K /\ DOMAIN v = S
    OBVIOUS
<1>5. Recorded(temp, from, to) = Total(v)
    BY DEF Recorded
<1> HIDE DEF S, v, K, key, g
<1>6. SumFunctionOnSet(g, K) = SumFunctionOnSet(v, S)
    BY <1>2, <1>3, SumByKey
<1>7. Total(g) = Total(v)
    BY <1>4, <1>6 DEF Total, SumFunction
<1> QED
    BY <1>5, <1>7 DEF g, K

\* A long window's end is one the roll-up and the raw samples agree on.
LongEnd(from, to, e) ==
    /\ from \in Nat /\ from \in Int /\ to \in Nat /\ from < to /\ from <= to
    /\ RangeEnd(from, to, TRUE) = to
    /\ e = RangeEnd(from, to, FALSE) /\ e \in Nat /\ e \in Int /\ from < e /\ from <= e
    /\ RangeEnd(from, e, FALSE) = e
    /\ ~IncFlatRaw(from, to) => Aligned(HOUR, e) \/ now < e

LEMMA LongEnds ==
    ASSUME IInv, NEW from \in Nat, NEW to \in Nat, from < to, Closed(to)
    PROVE  LongEnd(from, to, RangeEnd(from, to, FALSE))
<1> DEFINE e == RangeEnd(from, to, FALSE)
<1>1. EndLies(from, to, e) /\ RangeEnd(from, to, TRUE) = to
    BY RangeEndLies
<1>2. ~IncFlatRaw(from, to) => from + HOUR <= to
    BY Spans DEF IncFlatRaw
<1>3. e = RangeEnd(from, to, FALSE)
    OBVIOUS
<1> HIDE DEF e
<1>4. /\ e \in Nat /\ from < e /\ RangeEnd(from, e, FALSE) = e
      /\ ~IncFlatRaw(from, to) => Aligned(HOUR, e) \/ now < e
    BY <1>1, <1>2 DEF EndLies
<1>5. from \in Int /\ e \in Int /\ from <= e /\ from <= to
    BY <1>4
<1> QED
    BY <1>1, <1>3, <1>4, <1>5 DEF LongEnd

LEMMA RollupGrowthIs ==
    ASSUME IInv, NEW temp \in Temporalities, NEW seg, NEW from \in Nat, NEW e \in Int,
           Aligned(HOUR, e) \/ now < e
    PROVE  RollupGrowth(temp, seg, from, e)
                = RawLevel(temp, seg, Reach(from), e) - RawLevel(temp, seg, Reach(from), from)
<1>1. Reach(from) \in Int /\ Aligned(HOUR, Reach(from))
    BY ReachLies
<1>2. HourLevel(temp, seg, Reach(from), e) = RawLevel(temp, seg, Reach(from), e)
    BY <1>1, HoursAreRows
<1> QED
    BY <1>2 DEF RollupGrowth

\* The growth summed over the series, from either table, is what was recorded.
LEMMA GrowthsRecorded ==
    ASSUME IInv, NEW temp \in Temporalities, NEW from \in Nat, NEW e \in Nat, from <= e, BaselineInReach(from)
    PROVE  /\ Total([seg \in 1..Segments |-> RawGrowth(temp, seg, from, e)]) = Recorded(temp, from, e)
           /\ Aligned(HOUR, e) \/ now < e =>
                Total([seg \in 1..Segments |-> RollupGrowth(temp, seg, from, e)]) = Recorded(temp, from, e)
<1>1. /\ Reach(from) \in Int /\ Reach(from) <= from - Lookback /\ from - Lookback \in Int
      /\ from - Lookback <= from - Lookback /\ e \in Int
    <2>1. Reach(from) \in Int /\ Reach(from) <= from - Lookback /\ from - Lookback \in Int
        BY ReachLies
    <2> QED
        BY <2>1
<1>2. Total([seg \in 1..Segments |-> RawGrowth(temp, seg, from, e)]) = Recorded(temp, from, e)
    <2> DEFINE since == from - Lookback
    <2>1. since \in Int /\ since <= from - Lookback
        BY <1>1
    <2> HIDE DEF since
    <2>2. Total([seg \in 1..Segments |-> RawLevel(temp, seg, since, e) - RawLevel(temp, seg, since, from)])
            = Recorded(temp, from, e)
        BY <2>1, RecordedIs
    <2> QED
        BY <2>2 DEF RawGrowth, since
<1>3. ASSUME Aligned(HOUR, e) \/ now < e
      PROVE  Total([seg \in 1..Segments |-> RollupGrowth(temp, seg, from, e)]) = Recorded(temp, from, e)
    <2> DEFINE since == Reach(from)
    <2>1. \A seg : RollupGrowth(temp, seg, from, e)
                    = RawLevel(temp, seg, since, e) - RawLevel(temp, seg, since, from)
        BY <1>1, <1>3, RollupGrowthIs
    <2>2. since \in Int /\ since <= from - Lookback
        BY <1>1
    <2> HIDE DEF since
    <2>3. Total([seg \in 1..Segments |-> RawLevel(temp, seg, since, e) - RawLevel(temp, seg, since, from)])
            = Recorded(temp, from, e)
        BY <2>2, RecordedIs
    <2> QED
        BY <2>1, <2>3
<1> QED
    BY <1>2, <1>3

\* A bucket split at from keeps the samples before it on its other side.
SplitLabel(width, from) ==
    [t \in Times |-> IF t >= from THEN Max({Bucket(width, t), from}) ELSE Bucket(width, t)]

LEMMA SplitLabels ==
    ASSUME NEW from \in Nat, NEW width \in Nat \ {0}
    PROVE  /\ SplitLabel(width, from) \in [Times -> Nat]
           /\ \A x, y \in Times : x <= y => SplitLabel(width, from)[x] <= SplitLabel(width, from)[y]
           /\ \A x \in Times : SplitLabel(width, from)[x] >= from <=> x >= from
<1> DEFINE b(t) == Bucket(width, t)
           label == SplitLabel(width, from)
<1>1. \A t \in Times : t \in Nat /\ b(t) \in Nat /\ b(t) <= t /\ t < b(t) + width /\ Aligned(width, b(t))
    <2> SUFFICES ASSUME NEW t \in Times
                 PROVE  t \in Nat /\ b(t) \in Nat /\ b(t) <= t /\ t < b(t) + width /\ Aligned(width, b(t))
        OBVIOUS
    <2>1. t \in Nat /\ t \in Int
        BY Spans DEF Times
    <2> QED
        BY <2>1, BucketNat, BucketType
<1>2. \A x, y \in Times : x <= y => b(x) <= b(y)
    <2> SUFFICES ASSUME NEW x \in Times, NEW y \in Times, x <= y, b(y) < b(x) PROVE FALSE
        BY <1>1
    <2>1. /\ b(x) \in Int /\ b(y) \in Int /\ Aligned(width, b(x)) /\ Aligned(width, b(y))
          /\ b(x) <= x /\ y < b(y) + width /\ x \in Nat /\ y \in Nat
        BY <1>1
    <2> DEFINE p == b(x)
               q == b(y)
    <2> HIDE DEF b, p, q
    <2>2. q + width <= p
        BY <2>1, AlignedApart DEF p, q
    <2> QED
        BY <2>1, <2>2 DEF p, q
<1> HIDE DEF b
<1>3. \A t \in Times : Max({b(t), from}) = IF b(t) <= from THEN from ELSE b(t)
    <2> SUFFICES ASSUME NEW t \in Times PROVE Max({b(t), from}) = IF b(t) <= from THEN from ELSE b(t)
        OBVIOUS
    <2> DEFINE m == IF b(t) <= from THEN from ELSE b(t)
    <2>1. b(t) \in Nat
        BY <1>1
    <2>2. m \in {b(t), from} /\ \A y \in {b(t), from} : m >= y
        BY <2>1
    <2>3. \A x \in {b(t), from} : (\A y \in {b(t), from} : x >= y) => x = m
        BY <2>1
    <2> HIDE DEF m
    <2>4. Max({b(t), from}) = m
        BY <2>2, <2>3 DEF Max
    <2> QED
        BY <2>4 DEF m
<1>4. \A t \in Times : label[t] = IF t >= from THEN (IF b(t) <= from THEN from ELSE b(t)) ELSE b(t)
    BY <1>3 DEF SplitLabel, b
<1>5. DOMAIN label = Times /\ label = [t \in Times |-> label[t]]
    BY DEF SplitLabel
<1> HIDE DEF label
<1>6. \A t \in Times : label[t] \in Nat /\ (label[t] >= from <=> t >= from)
    BY <1>1, <1>4
<1>7. \A x, y \in Times : x <= y => label[x] <= label[y]
    BY <1>1, <1>2, <1>4
<1> QED
    BY <1>5, <1>6, <1>7 DEF label

LEMMA ClientFigureIs ==
    ASSUME IInv, NEW temp \in Temporalities, NEW from \in Nat, NEW to \in Nat, from < to, Closed(to),
           BaselineInReach(from), NEW fine \in BOOLEAN
    PROVE  ClientFigure(temp, from, to, fine) = Recorded(temp, from, ClientEnd(from, to, fine))
<1> DEFINE e == RangeEnd(from, to, FALSE)
           end == ClientEnd(from, to, fine)
           width == IF fine THEN Fine ELSE 1
           split == SplitLabel(width, from)
<1>1. LongEnd(from, to, e)
    BY LongEnds
<1>2. end = IF fine \/ IncFlatRaw(from, to) THEN to ELSE e
    <2>1. IncFlatRaw(from, to) \in BOOLEAN
        BY DEF IncFlatRaw
    <2>2. RangeEnd(from, to, TRUE) = to
        BY <1>1 DEF LongEnd
    <2> QED
        BY <2>1, <2>2 DEF ClientEnd
<1>3. width \in Nat \ {0}
    BY Spans
<1> HIDE DEF e, end, width
<1>4. end \in Nat /\ end \in Int /\ from <= end
    <2>1. e \in Nat /\ from <= e
        BY <1>1 DEF LongEnd
    <2>2. end \in {to, e}
        BY <1>2
    <2>3. end \in Nat /\ from <= end
        BY <2>1, <2>2
    <2> QED
        BY <2>3
<1>5. CASE fine \/ IncFlatRaw(from, end)
    <2>1. ClientFigure(temp, from, to, fine)
            = Total([seg \in 1..Segments |-> Total([p \in RawBuckets(temp, seg, from, end, split) |-> p.value])])
        BY <1>5 DEF ClientFigure, ClientPoints, SplitLabel, end, width
    <2>2. /\ split \in [Times -> Nat]
          /\ \A x, y \in Times : x <= y => split[x] <= split[y]
          /\ \A x \in Times : split[x] >= from <=> x >= from
        BY <1>3, SplitLabels
    <2> HIDE DEF split
    <2>3. \A seg : Total([p \in RawBuckets(temp, seg, from, end, split) |-> p.value])
                    = RawGrowth(temp, seg, from, end)
        BY <1>4, <2>2, RawBucketsTotal DEF RawGrowth
    <2>4. Total([seg \in 1..Segments |-> RawGrowth(temp, seg, from, end)]) = Recorded(temp, from, end)
        BY <1>4, GrowthsRecorded
    <2> QED
        BY <2>1, <2>3, <2>4 DEF end
<1>6. CASE ~(fine \/ IncFlatRaw(from, end))
    <2>1. end = e /\ ~IncFlatRaw(from, to) /\ RangeEnd(from, end, FALSE) = end /\ (Aligned(HOUR, end) \/ now < end)
        BY <1>1, <1>2, <1>6 DEF LongEnd
    <2>2. ClientFigure(temp, from, to, fine)
            = Total([seg \in 1..Segments |-> Total([p \in RollupBuckets(temp, seg, from, end, HOUR) |-> p.value])])
        <3>1. (fine \/ IncFlatRaw(from, end)) = FALSE
            BY <1>6
        <3> QED
            BY <2>1, <3>1 DEF ClientFigure, ClientPoints, end
    <2>3. FirstBucket(from, end, HOUR)
        <3>1. RawSpan < end - from
            BY <1>6, <1>4, Spans DEF IncFlatRaw
        <3>2. Bucket(HOUR, from) \in Nat /\ Bucket(HOUR, from) <= from
            BY ReachLies
        <3>3. from < end /\ Bucket(HOUR, from) + HOUR <= end
            BY <1>4, <3>1, <3>2, Spans
        <3> QED
            BY <3>3 DEF FirstBucket
    <2>4. \A seg : Total([p \in RollupBuckets(temp, seg, from, end, HOUR) |-> p.value])
                    = RollupGrowth(temp, seg, from, end)
        BY <1>4, <2>3, RollupBucketsTotal DEF RollupGrowth
    <2>5. Total([seg \in 1..Segments |-> RollupGrowth(temp, seg, from, end)]) = Recorded(temp, from, end)
        BY <1>4, <2>1, GrowthsRecorded
    <2> QED
        BY <2>2, <2>4, <2>5 DEF end
<1> QED
    BY <1>5, <1>6

\* Each figure is the growth recorded in its window, from the raw samples or from the
\* roll-up, on the snapshots and on the client pages (queries.js, incFlat, effortMixSql,
\* clientClaudeRows).
THEOREM FiguresAreExact == Spec => []FiguresExact
<1>1. ASSUME IInv PROVE FiguresExact
    <2> SUFFICES ASSUME NEW w \in Windows, NEW temp \in Temporalities, BaselineInReach(w[1]), Closed(w[2])
                 PROVE  /\ Snapshot(temp, w[1], w[2])
                                = Recorded(temp, w[1], RangeEnd(w[1], w[2], IncFlatRaw(w[1], w[2])))
                        /\ RawFigure(temp, w[1], w[2]) = Recorded(temp, w[1], w[2])
                        /\ \A fine \in Finenesses(w[1], w[2]) :
                                ClientFigure(temp, w[1], w[2], fine)
                                    = Recorded(temp, w[1], ClientEnd(w[1], w[2], fine))
        BY DEF FiguresExact
    <2> DEFINE from == w[1]
               to == w[2]
               e == RangeEnd(from, to, FALSE)
    <2>1. from \in Nat /\ to \in Nat /\ from < to
        BY Spans DEF Windows, Times
    <2>2. LongEnd(from, to, e)
        BY <1>1, <2>1, LongEnds
    <2> HIDE DEF from, to
    <2>3. /\ BaselineInReach(from) /\ Closed(to) /\ IncFlatRaw(from, to) \in BOOLEAN
        BY DEF from, to, IncFlatRaw
    <2>4. Snapshot(temp, from, to) = Recorded(temp, from, RangeEnd(from, to, IncFlatRaw(from, to)))
        <3>1. Snapshot(temp, from, to) = Total([seg \in 1..Segments |-> SnapshotGrowth(temp, from, to, seg)])
            BY <1>1, <2>1, SnapshotIs
        <3>2. CASE IncFlatRaw(from, to)
            <4>1. RangeEnd(from, to, IncFlatRaw(from, to)) = to /\ from <= to
                BY <2>2, <2>3, <3>2 DEF LongEnd
            <4>2. Total([seg \in 1..Segments |-> RawGrowth(temp, seg, from, to)]) = Recorded(temp, from, to)
                BY <1>1, <2>1, <2>3, <4>1, GrowthsRecorded
            <4> QED
                BY <3>1, <3>2, <4>1, <4>2 DEF SnapshotGrowth
        <3>3. CASE ~IncFlatRaw(from, to)
            <4>1. /\ RangeEnd(from, to, IncFlatRaw(from, to)) = e
                  /\ e \in Nat /\ from <= e /\ (Aligned(HOUR, e) \/ now < e)
                BY <2>2, <2>3, <3>3 DEF LongEnd
            <4>2. \A seg : SnapshotGrowth(temp, from, to, seg) = RollupGrowth(temp, seg, from, e)
                BY <3>3 DEF SnapshotGrowth
            <4> HIDE DEF e
            <4>3. Total([seg \in 1..Segments |-> RollupGrowth(temp, seg, from, e)]) = Recorded(temp, from, e)
                BY <1>1, <2>1, <2>3, <4>1, GrowthsRecorded
            <4> QED
                BY <3>1, <4>1, <4>2, <4>3
        <3> QED
            BY <3>2, <3>3
    <2>5. RawFigure(temp, from, to) = Recorded(temp, from, to)
        <3> DEFINE since == from - Lookback
        <3>1. since \in Int /\ since <= from /\ from \in Int /\ to \in Int /\ from <= to
            BY <2>1, Spans
        <3>2. RawFigure(temp, from, to) = Total([seg \in 1..Segments |-> RawIncrement(temp, seg, from, to, since)])
            BY DEF RawFigure
        <3>3. \A seg : RawLevel(temp, seg, since, to) - RawLevel(temp, seg, since, from)
                        = RawGrowth(temp, seg, from, to)
            BY DEF RawGrowth
        <3> HIDE DEF since
        <3>4. \A seg : RawIncrement(temp, seg, from, to, since)
                        = RawLevel(temp, seg, since, to) - RawLevel(temp, seg, since, from)
            BY <1>1, <3>1, RawIncrementIs
        <3>5. Total([seg \in 1..Segments |-> RawGrowth(temp, seg, from, to)]) = Recorded(temp, from, to)
            BY <1>1, <2>1, <2>3, <3>1, GrowthsRecorded
        <3> QED
            BY <3>2, <3>3, <3>4, <3>5
    <2>6. ASSUME NEW fine \in Finenesses(from, to)
          PROVE  ClientFigure(temp, from, to, fine) = Recorded(temp, from, ClientEnd(from, to, fine))
        <3>1. fine \in BOOLEAN
            BY DEF Finenesses
        <3> QED
            BY <1>1, <2>1, <2>3, <3>1, ClientFigureIs
    <2> QED
        BY <2>4, <2>5, <2>6 DEF from, to
<1> QED
    BY <1>1, InductiveInvariant, PTL

-----------------------------------------------------------------------------
(* What was observed.                                                      *)

\* An hour before an end that no hour straddles holds samples before it only.
LEMMA HourInside ==
    ASSUME IInv, NEW e \in Int, Aligned(HOUR, e) \/ now < e, NEW s \in raw
    PROVE  /\ KeyOf(s) \in DOMAIN hourly /\ KeyOf(s)[1] = s.seg /\ KeyOf(s)[2] \in Nat
           /\ KeyOf(s)[2] <= s.t /\ s.t \in Nat /\ s.t < KeyOf(s)[2] + HOUR /\ Aligned(HOUR, KeyOf(s)[2])
           /\ KeyOf(s)[2] < e <=> s.t < e
<1>1. s \in Sample /\ s.t \in Nat /\ s.t <= now /\ now \in Nat /\ KeyOf(s) \in DOMAIN hourly
    BY RawFacts, HourFacts
<1>2. /\ KeyOf(s)[1] = s.seg /\ KeyOf(s)[2] = Bucket(HOUR, s.t)
      /\ Bucket(HOUR, s.t) \in Nat /\ Bucket(HOUR, s.t) <= s.t /\ s.t < Bucket(HOUR, s.t) + HOUR
      /\ Aligned(HOUR, Bucket(HOUR, s.t))
    BY <1>1, KeyFacts
<1>3. Bucket(HOUR, s.t) < e <=> s.t < e
    <2>1. CASE Aligned(HOUR, e)
        BY <1>1, <2>1, HourBounds
    <2>2. CASE now < e
        BY <1>1, <1>2, <2>2
    <2> QED
        BY <2>1, <2>2
<1> QED
    BY <1>1, <1>2, <1>3

\* The hour of from: h starts it, and an hour at or after it is h or comes after from.
LEMMA FirstHour ==
    ASSUME NEW from \in Nat, NEW x \in Nat, Aligned(HOUR, x)
    PROVE  LET h == Bucket(HOUR, from)
           IN /\ h \in Nat /\ h <= from /\ from < h + HOUR
              /\ x >= h => x = h \/ x > from
              /\ x < h => x + HOUR <= h
<1> DEFINE h == Bucket(HOUR, from)
<1>1. h \in Nat /\ h \in Int /\ h <= from /\ from < h + HOUR /\ Aligned(HOUR, h) /\ HOUR \in Nat \ {0} /\ x \in Int
    BY ReachLies, Spans
<1> HIDE DEF h
<1>2. h < x => h + HOUR <= x
    BY <1>1, AlignedApart
<1>3. x < h => x + HOUR <= h
    BY <1>1, AlignedApart
<1>4. x >= h => x = h \/ x > from
    BY <1>1, <1>2
<1> QED
    BY <1>1, <1>3, <1>4 DEF h

LEMMA ObservedIs ==
    ASSUME IInv, NEW seg, NEW from \in Nat, NEW to \in Nat, from < to, Closed(to)
    PROVE  ObservedInWindow(seg, from, to)
                <=> RawOf(seg, from, RangeEnd(from, to, IncFlatRaw(from, to))) # {}
<1> DEFINE e == RangeEnd(from, to, FALSE)
           h == Bucket(HOUR, from)
<1>1. LongEnd(from, to, e) /\ IncFlatRaw(from, to) \in BOOLEAN
    <2>1. LongEnd(from, to, e)
        BY LongEnds
    <2>2. IncFlatRaw(from, to) \in BOOLEAN
        BY DEF IncFlatRaw
    <2> QED
        BY <2>1, <2>2
<1>2. CASE IncFlatRaw(from, to)
    BY <1>2 DEF ObservedInWindow
<1>3. CASE ~IncFlatRaw(from, to)
    <2>1. IncFlatRaw(from, to) = FALSE
        BY <1>1, <1>3
    <2>2. e \in Int /\ (Aligned(HOUR, e) \/ now < e)
        BY <1>1, <1>3 DEF LongEnd
    <2>3. ObservedInWindow(seg, from, to)
            <=> \/ Hours(seg, h + 1, e) # {}
                \/ {s \in RawOf(seg, h, h + HOUR) : s.t >= from /\ s.t < e} # {}
        BY <2>1 DEF ObservedInWindow
    <2>4. h \in Nat /\ h <= from /\ from < h + HOUR
        BY ReachLies
    <2> HIDE DEF e, h
    <2>5. ASSUME NEW k \in Hours(seg, h + 1, e) PROVE RawOf(seg, from, e) # {}
        <3>1. k \in DOMAIN hourly /\ k[1] = seg /\ k[2] >= h + 1 /\ k[2] < e
            BY DEF Hours
        <3>2. PICK s \in raw : k = KeyOf(s)
            BY <3>1, HourFacts
        <3>3. /\ k[1] = s.seg /\ k[2] \in Nat /\ k[2] <= s.t /\ s.t \in Nat /\ Aligned(HOUR, k[2])
              /\ k[2] < e <=> s.t < e
            BY <2>2, <3>2, HourInside
        <3>4. k[2] > from
            BY <2>4, <3>1, <3>3, FirstHour DEF h
        <3>5. s.t >= from /\ s.t < e /\ s.seg = seg
            BY <3>1, <3>3, <3>4
        <3> QED
            BY <3>5 DEF RawOf
    <2>6. ASSUME NEW s \in RawOf(seg, from, e)
          PROVE  \/ Hours(seg, h + 1, e) # {}
                 \/ {r \in RawOf(seg, h, h + HOUR) : r.t >= from /\ r.t < e} # {}
        <3>1. s \in raw /\ s.seg = seg /\ s.t >= from /\ s.t < e
            BY DEF RawOf
        <3> DEFINE x == KeyOf(s)[2]
        <3>2. /\ KeyOf(s) \in DOMAIN hourly /\ KeyOf(s)[1] = s.seg /\ x \in Nat
              /\ x <= s.t /\ s.t \in Nat /\ s.t < x + HOUR /\ Aligned(HOUR, x)
              /\ x < e <=> s.t < e
            BY <2>2, <3>1, HourInside
        <3>3. (x >= h => x = h \/ x > from) /\ (x < h => x + HOUR <= h)
            BY <3>2, FirstHour DEF h
        <3> HIDE DEF x
        <3>4. CASE x = h
            <4>1. s.t >= h /\ s.t < h + HOUR
                BY <2>4, <3>1, <3>2, <3>4
            <4>2. s \in {r \in RawOf(seg, h, h + HOUR) : r.t >= from /\ r.t < e}
                BY <3>1, <4>1 DEF RawOf
            <4> QED
                BY <4>2
        <3>5. CASE x # h
            <4>1. x >= h + 1 /\ x < e
                BY <2>4, <3>1, <3>2, <3>3, <3>5, Spans
            <4>2. KeyOf(s) \in Hours(seg, h + 1, e)
                BY <3>1, <3>2, <4>1 DEF Hours, x
            <4> QED
                BY <4>2
        <3> QED
            BY <3>4, <3>5
    <2>7. ASSUME NEW s \in {r \in RawOf(seg, h, h + HOUR) : r.t >= from /\ r.t < e}
          PROVE  s \in RawOf(seg, from, e)
        BY DEF RawOf
    <2>8. RangeEnd(from, to, IncFlatRaw(from, to)) = e
        BY <2>1 DEF e
    <2> QED
        BY <2>3, <2>5, <2>6, <2>7, <2>8
<1> QED
    BY <1>2, <1>3

\* The buckets a chart has points in.
LEMMA RawBucketTimes ==
    ASSUME NEW temp, NEW seg, NEW from, NEW to, NEW label
    PROVE  /\ \A p \in RawBuckets(temp, seg, from, to, label) :
                \E s \in RawOf(seg, from - Lookback, to) : p.t = label[s.t] /\ label[s.t] >= from
           /\ \A s \in RawOf(seg, from - Lookback, to) : label[s.t] >= from =>
                \E p \in RawBuckets(temp, seg, from, to, label) : p.t = label[s.t]
<1> DEFINE rows == RawOf(seg, from - Lookback, to)
           in(t) == {s \in rows : label[s.t] = t}
           level(t) == IF temp = "cumulative" THEN MaxOr0({s.cum : s \in in(t)})
                       ELSE Total([s \in in(t) |-> s.inc])
           points == {[t |-> t, cum |-> level(t)] : t \in {label[s.t] : s \in rows}}
           value(p) == IF temp = "cumulative" THEN Positive(p.cum - Lag(points, p.t)) ELSE p.cum
           B == {[t |-> p.t, value |-> value(p)] : p \in {q \in points : q.t >= from}}
<1>1. RawBuckets(temp, seg, from, to, label) = B
    BY DEF RawBuckets
<1> HIDE DEF rows, level, value
<1>2. \A p \in points : \E s \in rows : p.t = label[s.t]
    OBVIOUS
<1>3. \A s \in rows : \E p \in points : p.t = label[s.t]
    <2> SUFFICES ASSUME NEW s \in rows PROVE \E p \in points : p.t = label[s.t]
        OBVIOUS
    <2>1. [t |-> label[s.t], cum |-> level(label[s.t])] \in points
        OBVIOUS
    <2> QED
        BY <2>1
<1> HIDE DEF points
<1>4. \A b \in B : \E p \in points : b.t = p.t /\ p.t >= from
    OBVIOUS
<1>5. \A p \in points : p.t >= from => \E b \in B : b.t = p.t
    <2> SUFFICES ASSUME NEW p \in points, p.t >= from PROVE \E b \in B : b.t = p.t
        OBVIOUS
    <2>1. [t |-> p.t, value |-> value(p)] \in B
        OBVIOUS
    <2> QED
        BY <2>1
<1> HIDE DEF B
<1>6. \A b \in B : \E s \in rows : b.t = label[s.t] /\ label[s.t] >= from
    BY <1>2, <1>4
<1>7. \A s \in rows : label[s.t] >= from => \E b \in B : b.t = label[s.t]
    BY <1>3, <1>5
<1> QED
    BY <1>1, <1>6, <1>7 DEF rows

LEMMA RollupBucketTimes ==
    ASSUME IInv, NEW temp \in Temporalities, NEW seg,
           NEW from \in Nat, NEW to \in Int, NEW width \in {HOUR, DAY}, FirstBucket(from, to, width)
    PROVE  /\ \A p \in RollupBuckets(temp, seg, from, to, width) :
                \E k \in Hours(seg, Reach(from), to) : p.t = Bucket(width, k[2])
           /\ \A k \in Hours(seg, Reach(from), to) : Bucket(width, k[2]) >= Bucket(width, from) =>
                \E p \in RollupBuckets(temp, seg, from, to, width) : p.t = Bucket(width, k[2])
<1> DEFINE K == Hours(seg, Reach(from), to)
           lab == HourLabels(seg, from, to, width)
           start == Bucket(width, from)
           val == HourValue(temp)
           points == PointsOf(temp, val, K, lab)
           first(p) == IF temp = "cumulative"
                       THEN Positive(p.cum - MaxOr0({Lag(points, p.t), RawLevel(temp, seg, start, from)}))
                       ELSE RawLevel(temp, seg, from, Cut(from, to, width))
           later(p) == IF temp = "cumulative" THEN Positive(p.cum - MaxOr0({Lag(points, p.t), 0})) ELSE p.cum
           B == {[t |-> p.t, value |-> IF p.t = start THEN first(p) ELSE later(p)] :
                    p \in {q \in points : q.t >= start}}
<1>1. RollupBuckets(temp, seg, from, to, width) = B
    <2>1. RollupBuckets(temp, seg, from, to, width) = RollupChart(temp, seg, from, to, width)
        BY RollupBucketsWritten
    <2>2. RollupChart(temp, seg, from, to, width) = B
        BY DEF RollupChart
    <2> QED
        BY <2>1, <2>2
<1>2. \A k \in K : lab[k] = Bucket(width, k[2])
    BY DEF HourLabels
<1> HIDE DEF K, lab, val, first, later
<1>3. \A p \in points : \E k \in K : p.t = lab[k]
    BY DEF PointsOf
<1>4. \A k \in K : \E p \in points : p.t = lab[k]
    <2> SUFFICES ASSUME NEW k \in K PROVE \E p \in points : p.t = lab[k]
        OBVIOUS
    <2>1. [t |-> lab[k], cum |-> Level(temp, val, In(K, lab, lab[k]))] \in points
        BY DEF PointsOf
    <2> QED
        BY <2>1
<1> HIDE DEF points, start
<1>5. \A b \in B : \E p \in points : b.t = p.t
    OBVIOUS
<1>6. \A p \in points : p.t >= start => \E b \in B : b.t = p.t
    <2> SUFFICES ASSUME NEW p \in points, p.t >= start PROVE \E b \in B : b.t = p.t
        OBVIOUS
    <2>1. [t |-> p.t, value |-> IF p.t = start THEN first(p) ELSE later(p)] \in B
        OBVIOUS
    <2> QED
        BY <2>1
<1> HIDE DEF B
<1>7. \A b \in B : \E k \in K : b.t = Bucket(width, k[2])
    BY <1>2, <1>3, <1>5
<1>8. \A k \in K : Bucket(width, k[2]) >= start => \E b \in B : b.t = Bucket(width, k[2])
    BY <1>2, <1>4, <1>6
<1> QED
    BY <1>1, <1>7, <1>8 DEF K, start

LEMMA ClientObservedIs ==
    ASSUME IInv, NEW seg, NEW from \in Nat, NEW to \in Nat, from < to, Closed(to), NEW fine \in BOOLEAN
    PROVE  ClientObserved(seg, from, to, fine) <=> RawOf(seg, from, ClientEnd(from, to, fine)) # {}
<1> DEFINE e == RangeEnd(from, to, FALSE)
           end == ClientEnd(from, to, fine)
           width == IF fine THEN Fine ELSE 1
           split == SplitLabel(width, from)
           h == Bucket(HOUR, from)
<1>1. LongEnd(from, to, e)
    BY LongEnds
<1>2. end = IF fine \/ IncFlatRaw(from, to) THEN to ELSE e
    <2>1. IncFlatRaw(from, to) \in BOOLEAN
        BY DEF IncFlatRaw
    <2>2. RangeEnd(from, to, TRUE) = to
        BY <1>1 DEF LongEnd
    <2> QED
        BY <2>1, <2>2 DEF ClientEnd
<1>3. width \in Nat \ {0}
    BY Spans
<1>4. h \in Nat /\ h <= from /\ from < h + HOUR
    BY ReachLies
<1>5. end \in Nat /\ end \in Int /\ from < end
    <2> HIDE DEF e, end
    <2>1. e \in Nat /\ from < e
        BY <1>1 DEF LongEnd
    <2>2. end \in {to, e}
        BY <1>2
    <2>3. end \in Nat /\ from < end
        BY <2>1, <2>2
    <2> QED
        BY <2>3
<1>6. CASE fine \/ IncFlatRaw(from, end)
    <2>1. ClientObserved(seg, from, to, fine)
            <=> \E p \in RawBuckets("delta", seg, from, end, split) : TRUE
        BY <1>6 DEF ClientObserved, ClientPoints, SplitLabel
    <2>2. /\ split \in [Times -> Nat]
          /\ \A x \in Times : split[x] >= from <=> x >= from
        BY <1>3, SplitLabels
    <2> HIDE DEF split, end, width
    <2>3. /\ \A p \in RawBuckets("delta", seg, from, end, split) :
                \E s \in RawOf(seg, from - Lookback, end) : p.t = split[s.t] /\ split[s.t] >= from
          /\ \A s \in RawOf(seg, from - Lookback, end) : split[s.t] >= from =>
                \E p \in RawBuckets("delta", seg, from, end, split) : p.t = split[s.t]
        BY RawBucketTimes
    <2>4. \A s \in raw : s.t \in Times /\ s.t \in Nat /\ (s.t >= from => s.t >= from - Lookback)
        BY RawFacts, SampleFields, Spans
    <2>5. \A s : s \in RawOf(seg, from, end) <=> s \in RawOf(seg, from - Lookback, end) /\ s.t >= from
        BY <2>4 DEF RawOf
    <2>6. \A s \in RawOf(seg, from - Lookback, end) : s.t \in Times
        BY <2>4 DEF RawOf
    <2> QED
        BY <2>1, <2>2, <2>3, <2>5, <2>6 DEF end
<1>7. CASE ~(fine \/ IncFlatRaw(from, end))
    <2> DEFINE first == RawOf(seg, from, Min({h + HOUR, end}))
    <2> HIDE DEF e
    <2>1. end = e /\ RangeEnd(from, end, FALSE) = end /\ (Aligned(HOUR, end) \/ now < end)
        <3> HIDE DEF end
        <3>1. IncFlatRaw(from, to) => end = to
            BY <1>2
        <3> QED
            BY <1>1, <1>2, <1>7, <3>1 DEF LongEnd
    <2>2. ClientObserved(seg, from, to, fine)
            <=> \E p \in RollupBuckets("delta", seg, from, end, HOUR) : p.t >= from \/ first # {}
        <3>1. (fine \/ IncFlatRaw(from, end)) = FALSE
            BY <1>7
        <3> QED
            BY <1>7, <2>1, <3>1 DEF ClientObserved, ClientPoints
    <2> HIDE DEF end
    <2>3. FirstBucket(from, end, HOUR) /\ h + HOUR <= end
        <3>1. RawSpan < end - from
            BY <1>7, <1>5, Spans DEF IncFlatRaw
        <3>2. h + HOUR <= end
            BY <1>4, <1>5, <3>1, Spans
        <3> QED
            BY <1>5, <3>2 DEF FirstBucket
    <2>4. first = RawOf(seg, from, h + HOUR)
        <3>1. h + HOUR \in Int /\ end \in Int
            BY <1>4, <1>5, Spans
        <3> DEFINE m == h + HOUR
        <3>2. m \in Int /\ m <= end
            BY <2>3, <3>1
        <3> HIDE DEF m
        <3>3. Min({m, end}) = m
            <4>1. \A x \in {m, end} : (\A y \in {m, end} : x <= y) <=> x = m
                BY <1>5, <3>2
            <4> QED
                BY <4>1 DEF Min
        <3> QED
            BY <3>3 DEF m
    <2> HIDE DEF h, first
    <2>5. /\ \A p \in RollupBuckets("delta", seg, from, end, HOUR) :
                \E k \in Hours(seg, Reach(from), end) : p.t = Bucket(HOUR, k[2])
          /\ \A k \in Hours(seg, Reach(from), end) : Bucket(HOUR, k[2]) >= Bucket(HOUR, from) =>
                \E p \in RollupBuckets("delta", seg, from, end, HOUR) : p.t = Bucket(HOUR, k[2])
        BY <1>5, <2>3, RollupBucketTimes DEF Temporalities
    <2>6. \A k \in DOMAIN hourly : Bucket(HOUR, k[2]) = k[2]
        <3> SUFFICES ASSUME NEW k \in DOMAIN hourly PROVE Bucket(HOUR, k[2]) = k[2]
            OBVIOUS
        <3>1. k[2] \in Int /\ Aligned(HOUR, k[2]) /\ HOUR \in Nat \ {0} /\ k[2] <= k[2] /\ k[2] < k[2] + HOUR
            BY HourFacts, Spans
        <3> QED
            BY <3>1, AlignedBucket
    <2>7. ASSUME NEW p \in RollupBuckets("delta", seg, from, end, HOUR), p.t >= from
          PROVE  RawOf(seg, from, end) # {}
        <3>1. PICK k \in Hours(seg, Reach(from), end) : p.t = Bucket(HOUR, k[2])
            BY <2>5
        <3>2. k \in DOMAIN hourly /\ k[1] = seg /\ k[2] < end
            BY DEF Hours
        <3>3. k[2] >= from
            BY <2>6, <2>7, <3>1, <3>2
        <3>4. PICK s \in raw : k = KeyOf(s)
            BY <3>2, HourFacts
        <3>5. /\ k[1] = s.seg /\ k[2] \in Nat /\ k[2] <= s.t /\ s.t \in Nat
              /\ k[2] < end <=> s.t < end
            BY <1>5, <2>1, <3>4, HourInside
        <3>6. s.t >= from /\ s.t < end /\ s.seg = seg
            BY <3>2, <3>3, <3>5
        <3> QED
            BY <3>6 DEF RawOf
    <2>8. ASSUME NEW s \in first PROVE s \in RawOf(seg, from, end)
        <3>1. s \in raw /\ s.seg = seg /\ s.t >= from /\ s.t < h + HOUR
            BY <2>4 DEF RawOf
        <3>2. s.t < end
            BY <1>4, <1>5, <2>3, <3>1, RawFacts, Spans
        <3> QED
            BY <3>1, <3>2 DEF RawOf
    <2>9. ASSUME NEW s \in RawOf(seg, from, end)
          PROVE  \E p \in RollupBuckets("delta", seg, from, end, HOUR) : p.t >= from \/ first # {}
        <3>1. s \in raw /\ s.seg = seg /\ s.t >= from /\ s.t < end
            BY DEF RawOf
        <3> DEFINE x == KeyOf(s)[2]
        <3>2. /\ KeyOf(s) \in DOMAIN hourly /\ KeyOf(s)[1] = s.seg /\ x \in Nat
              /\ x <= s.t /\ s.t \in Nat /\ s.t < x + HOUR /\ Aligned(HOUR, x)
              /\ x < end <=> s.t < end
            BY <1>5, <2>1, <3>1, HourInside
        <3>3. (x >= h => x = h \/ x > from) /\ (x < h => x + HOUR <= h)
            BY <3>2, FirstHour DEF h
        <3> HIDE DEF x
        <3>4. x >= h /\ (x = h \/ x > from)
            BY <1>4, <3>1, <3>2, <3>3, Spans
        <3>5. KeyOf(s) \in Hours(seg, Reach(from), end) /\ Bucket(HOUR, KeyOf(s)[2]) = x
            <4>1. Reach(from) \in Int /\ Reach(from) <= h
                BY ReachLies DEF h
            <4>2. x >= Reach(from)
                BY <1>4, <3>2, <3>4, <4>1
            <4> QED
                BY <2>6, <3>1, <3>2, <4>2 DEF Hours, x
        <3>6. PICK p \in RollupBuckets("delta", seg, from, end, HOUR) : p.t = x
            BY <2>5, <3>4, <3>5 DEF h
        <3>7. CASE x > from
            BY <1>4, <3>2, <3>6, <3>7
        <3>8. CASE x = h
            <4>1. s \in first
                BY <2>4, <3>1, <3>2, <3>8 DEF RawOf
            <4> QED
                BY <3>6, <4>1
        <3> QED
            BY <3>4, <3>7, <3>8
    <2> QED
        BY <2>2, <2>7, <2>8, <2>9 DEF end
<1> QED
    BY <1>6, <1>7

\* A series is marked as observed exactly when a sample of it lies in the window: a zero
\* shown is one that was measured (queries.js, InWindow, token_seen and cost_seen).
THEOREM ObservedIsMeasured == Spec => []ObservedMeansMeasured
<1>1. ASSUME IInv PROVE ObservedMeansMeasured
    <2> SUFFICES ASSUME NEW w \in Windows, NEW seg \in 1..Segments, Closed(w[2])
                 PROVE  /\ ObservedInWindow(seg, w[1], w[2])
                            <=> RawOf(seg, w[1], RangeEnd(w[1], w[2], IncFlatRaw(w[1], w[2]))) # {}
                        /\ \A fine \in Finenesses(w[1], w[2]) :
                            ClientObserved(seg, w[1], w[2], fine)
                                <=> RawOf(seg, w[1], ClientEnd(w[1], w[2], fine)) # {}
        BY DEF ObservedMeansMeasured
    <2>1. w[1] \in Nat /\ w[2] \in Nat /\ w[1] < w[2]
        BY Spans DEF Windows, Times
    <2>2. \A fine \in Finenesses(w[1], w[2]) : fine \in BOOLEAN
        BY DEF Finenesses
    <2> QED
        BY <1>1, <2>1, <2>2, ObservedIs, ClientObservedIs
<1> QED
    BY <1>1, InductiveInvariant, PTL

(***************************************************************************)
(* ApiHook: hooks and their requests.  The invariant says of each hook     *)
(* what its labels, its request and the last run of its effect have to do  *)
(* with each other, and is kept through the passes of a render one effect  *)
(* at a time.                                                              *)
(***************************************************************************)

Bounds == [identity : {NoKey}, range : Ranges \cup {{}}, window : 0..MaxWindow]
InputsType == [enabled : BOOLEAN, hold : BOOLEAN, bounds : Bounds]
ParamsType == {<<>>} \cup (Identities \X Ranges \X (0..MaxWindow) \X Bounds)
DepsType == {<<>>} \cup (Identities \X Periods \X (0..MaxTicks) \X InputsType)
HookState ==
    [data : Data, loading : BOOLEAN, error : BOOLEAN,
     shownIdentity : Identities \cup {NoKey}, shownPeriod : Periods \cup {NoKey},
     inflight : 0..Slots, params : ParamsType,
     identity : Identities \cup {NoKey}, period : Periods \cup {NoKey},
     pendingPeriod : BOOLEAN, payload : Data, deps : DepsType]
Request == [hook : Hooks, identity : Identities, period : Periods, content : Data,
            retain : BOOLEAN, clears : BOOLEAN, live : BOOLEAN]
Requests == {Free} \cup Request
Works == [hook : [Hooks -> HookState], request : [1..Slots -> Requests], pending : Int]

Counted(req) == {n \in 1..Slots : req[n].live /\ req[n].retain}

\* The hook's own request is the one that will be shown.
Sends(h, s, r) ==
    /\ r \in Request /\ r.hook = h /\ r.live /\ r.identity = s.identity
    /\ r.content.identity = r.identity
    /\ h = "overview" => r.content.range = RangeOf(r.period)
    /\ r.clears => s.data = NoData

\* What a hook shows carries its labels, and what it waits for is not on screen.
Labels(s) ==
    /\ s.payload # NoData => s.payload = s.data
    /\ s.pendingPeriod => s.payload = NoData /\ s.shownPeriod # s.period
    /\ s.data # NoData => s.data.identity = s.shownIdentity /\ s.data.range = RangeOf(s.shownPeriod)
    /\ s.data # NoData /\ s.identity # NoKey => s.shownIdentity = s.identity
    /\ ~s.loading => s.identity # NoKey
    /\ s.params # <<>> => s.params[1] = s.identity

Tracked(w, n) == w.request[n].live => w.hook[w.request[n].hook].inflight = n

Sound(w) ==
    /\ w \in Works
    /\ w.pending = Cardinality(Counted(w.request))
    /\ \A n \in 1..Slots : Tracked(w, n)
    /\ \A h \in Hooks : w.hook[h].inflight # 0 => Sends(h, w.hook[h], w.request[w.hook[h].inflight])
    /\ \A h \in Hooks : Labels(w.hook[h])

Selection ==
    /\ sel \in [identity : Identities, period : Periods, count : 0..MaxSelections]
    /\ window \in 0..MaxWindow
    /\ cycle \in [tick : 0..MaxTicks, skipNext : BOOLEAN, pending : Nat]

-----------------------------------------------------------------------------

LEMMA CountedFinite ==
    ASSUME NEW req
    PROVE  IsFiniteSet(Counted(req)) /\ Cardinality(Counted(req)) \in Nat
<1>1. IsFiniteSet(1..Slots)
  BY FS_Interval, HookAssumption
<1>2. Counted(req) \in SUBSET (1..Slots)
  BY DEF Counted
<1> QED  BY <1>1, <1>2, FS_Subset, FS_CardinalityType

LEMMA RequestFields ==
    ASSUME NEW r \in Requests
    PROVE  /\ r.live \in BOOLEAN /\ r.retain \in BOOLEAN
           /\ r.live => r \in Request
           /\ r # Free <=> r \in Request
           /\ r.live => r # Free
<1>1. Free.hook \notin Hooks /\ Free.live = FALSE /\ Free.retain = FALSE
  BY DEF Free, Hooks, NoKey
<1>2. CASE r = Free
  <2>1. r \notin Request
    BY <1>1, <1>2 DEF Request
  <2> QED  BY <2>1, <1>1, <1>2
<1>3. CASE r \in Request
  <2>1. r # Free
    BY <1>1, <1>3 DEF Request
  <2> QED  BY <2>1, <1>3 DEF Request
<1> QED  BY <1>2, <1>3 DEF Requests

\* The state a hook is left in when its request is given up.
LEMMA AbortIs ==
    ASSUME NEW w \in Works, NEW h \in Hooks, w.hook[h].inflight = 0
    PROVE  Abort(w, h) = w
  BY DEF Abort

GivenUp(w, v, h) ==
    /\ Sound(v)
    /\ v.hook[h] = [w.hook[h] EXCEPT !.inflight = 0]
    /\ \A g \in Hooks : g # h => v.hook[g] = w.hook[g]
    /\ \A m \in 1..Slots : w.request[m] = Free => v.request[m] = Free
    /\ \A g \in Hooks : g # h /\ w.hook[g].inflight # 0
        => v.request[w.hook[g].inflight] = w.request[w.hook[g].inflight]

LEMMA AbortGivesUp ==
    ASSUME NEW w, Sound(w), NEW h \in Hooks
    PROVE  GivenUp(w, Abort(w, h), h)
<1> DEFINE n == w.hook[h].inflight
           v == Abort(w, h)
<1>w. /\ w \in Works /\ w.hook \in [Hooks -> HookState] /\ w.request \in [1..Slots -> Requests]
      /\ w.pending \in Int /\ w.hook[h] \in HookState /\ n \in 0..Slots
  BY DEF Sound, Works, HookState
<1>1. CASE n = 0
  <2>1. v = w
    BY <1>1 DEF Abort
  <2>2. w.hook[h] = [w.hook[h] EXCEPT !.inflight = 0]
    BY <1>1, <1>w DEF HookState
  <2> QED  BY <2>1, <2>2 DEF GivenUp
<1>2. CASE n # 0
  <2>n. n \in 1..Slots
    BY <1>2, <1>w, HookAssumption
  <2>v. v = [hook |-> [w.hook EXCEPT ![h].inflight = 0],
             request |-> [w.request EXCEPT ![n].live = FALSE],
             pending |-> w.pending - (IF w.request[n].retain THEN 1 ELSE 0)]
    BY <1>2 DEF Abort
  <2>r. w.request[n] \in Request /\ w.request[n].hook = h /\ w.request[n].live
    BY <1>2 DEF Sound, Sends
  <2>1. /\ v.hook = [w.hook EXCEPT ![h].inflight = 0]
        /\ v.request = [w.request EXCEPT ![n].live = FALSE]
        /\ v.pending = w.pending - (IF w.request[n].retain THEN 1 ELSE 0)
    BY <2>v
  <2> HIDE DEF v
  <2>2. v.hook[h] = [w.hook[h] EXCEPT !.inflight = 0] /\ \A g \in Hooks : g # h => v.hook[g] = w.hook[g]
    BY <2>1, <1>w
  <2>3. v.hook \in [Hooks -> HookState]
    <3>1. [w.hook[h] EXCEPT !.inflight = 0] \in HookState
      BY <1>w, HookAssumption DEF HookState
    <3> QED  BY <3>1, <2>1, <1>w
  <2>4. v.request[n] = [w.request[n] EXCEPT !.live = FALSE]
        /\ \A m \in 1..Slots : m # n => v.request[m] = w.request[m]
    BY <2>1, <1>w, <2>n
  <2>5. v.request \in [1..Slots -> Requests]
    <3>1. [w.request[n] EXCEPT !.live = FALSE] \in Request
      BY <2>r DEF Request
    <3> QED  BY <3>1, <2>1, <1>w, <2>n DEF Requests
  <2>6. Sound(v)
    <3>1. v \in Works
      <4>1. v.pending \in Int
        BY <2>1, <1>w
      <4>2. v = [hook |-> v.hook, request |-> v.request, pending |-> v.pending]
        BY <2>v DEF v
      <4> QED  BY <4>1, <4>2, <2>3, <2>5 DEF Works
    <3>2. v.pending = Cardinality(Counted(v.request))
      <4>1. w.pending = Cardinality(Counted(w.request)) /\ IsFiniteSet(Counted(w.request))
        BY CountedFinite DEF Sound
      <4>2. Counted(v.request) = Counted(w.request) \ {n}
        <5>1. ~v.request[n].live
          BY <2>4, <2>r DEF Request
        <5> QED  BY <5>1, <2>4 DEF Counted
      <4>3. n \in Counted(w.request) <=> w.request[n].retain
        BY <2>n, <2>r DEF Counted
      <4>4. w.request[n].retain \in BOOLEAN
        BY <2>r DEF Request
      <4>5. Cardinality(Counted(w.request) \ {n})
              = IF n \in Counted(w.request) THEN Cardinality(Counted(w.request)) - 1
                                            ELSE Cardinality(Counted(w.request))
        BY <4>1, FS_RemoveElement
      <4>6. Cardinality(Counted(w.request)) \in Nat
        BY CountedFinite
      <4> QED  BY <4>1, <4>2, <4>3, <4>4, <4>5, <4>6, <2>1
    <3>3. \A m \in 1..Slots : Tracked(v, m)
      <4> SUFFICES ASSUME NEW m \in 1..Slots, v.request[m].live
                   PROVE  v.hook[v.request[m].hook].inflight = m
        BY DEF Tracked
      <4>1. m # n
        BY <2>4, <2>r DEF Request
      <4>2. v.request[m] = w.request[m] /\ w.request[m].live /\ w.request[m] \in Requests
        BY <4>1, <2>4, <1>w
      <4>3. w.hook[w.request[m].hook].inflight = m
        BY <4>2 DEF Sound, Tracked
      <4>4. w.request[m].hook \in Hooks
        BY <4>2, RequestFields DEF Request
      <4>5. w.request[m].hook # h
        BY <4>3, <4>1
      <4> QED  BY <4>2, <4>3, <4>4, <4>5, <2>2
    <3>4. ASSUME NEW g \in Hooks, v.hook[g].inflight # 0
          PROVE  Sends(g, v.hook[g], v.request[v.hook[g].inflight])
      <4>1. g # h
        BY <3>4, <2>2, <1>w DEF HookState
      <4>2. v.hook[g] = w.hook[g] /\ w.hook[g].inflight # 0
        BY <4>1, <2>2, <3>4
      <4>3. Sends(g, w.hook[g], w.request[w.hook[g].inflight])
        BY <4>2 DEF Sound
      <4>4. w.hook[g].inflight # n
        BY <4>3, <4>1, <2>r DEF Sends
      <4>5. w.hook[g].inflight \in 1..Slots
        BY <4>2, <1>w, HookAssumption DEF HookState
      <4> QED  BY <4>2, <4>3, <4>4, <4>5, <2>4
    <3>5. ASSUME NEW g \in Hooks
          PROVE  Labels(v.hook[g])
      <4>1. CASE g = h
        BY <4>1, <2>2, <1>w DEF Sound, Labels, HookState
      <4>2. CASE g # h
        BY <4>2, <2>2 DEF Sound
      <4> QED  BY <4>1, <4>2
    <3> QED  BY <3>1, <3>2, <3>3, <3>4, <3>5 DEF Sound
  <2>7. \A m \in 1..Slots : w.request[m] = Free => v.request[m] = Free
    BY <2>4, <2>r DEF Free
  <2>8. ASSUME NEW g \in Hooks, g # h, w.hook[g].inflight # 0
        PROVE  v.request[w.hook[g].inflight] = w.request[w.hook[g].inflight]
    <3>1. w.hook[g].inflight \in 1..Slots
      BY <2>8, <1>w, HookAssumption DEF HookState
    <3>2. w.request[w.hook[g].inflight].hook = g
      BY <2>8 DEF Sound, Sends
    <3> QED  BY <3>1, <3>2, <2>8, <2>r, <2>4
  <2> QED  BY <2>2, <2>6, <2>7, <2>8 DEF GivenUp, v
<1> QED  BY <1>1, <1>2

\* Another state of a hook, under which its request stays its own.
LEMMA ReplaceSound ==
    ASSUME NEW w, Sound(w), NEW h \in Hooks, NEW t \in HookState, Labels(t),
           t.inflight = w.hook[h].inflight,
           t.inflight # 0 => t.identity = w.hook[h].identity /\ t.data = w.hook[h].data
    PROVE  Sound([w EXCEPT !.hook[h] = t])
<1> DEFINE v == [w EXCEPT !.hook[h] = t]
<1>w. w \in Works /\ w.hook \in [Hooks -> HookState]
  BY DEF Sound, Works
<1>1. /\ v.hook = [w.hook EXCEPT ![h] = t] /\ v.request = w.request /\ v.pending = w.pending
      /\ v \in Works
  BY <1>w DEF Works
<1>2. v.hook[h] = t /\ \A g \in Hooks : g # h => v.hook[g] = w.hook[g]
  BY <1>1, <1>w
<1> HIDE DEF v
<1>3. \A g \in Hooks : v.hook[g].inflight = w.hook[g].inflight
  BY <1>2
<1>4. v.pending = Cardinality(Counted(v.request))
  BY <1>1 DEF Sound
<1>5. ASSUME NEW m \in 1..Slots
      PROVE  Tracked(v, m)
  <2> SUFFICES ASSUME w.request[m].live
               PROVE  v.hook[w.request[m].hook].inflight = m
    BY <1>1 DEF Tracked
  <2>1. w.request[m].hook \in Hooks
    BY RequestFields, <1>w DEF Works, Request
  <2>2. w.hook[w.request[m].hook].inflight = m
    BY DEF Sound, Tracked
  <2> QED  BY <2>1, <2>2, <1>3
<1>6. ASSUME NEW g \in Hooks, v.hook[g].inflight # 0
      PROVE  Sends(g, v.hook[g], v.request[v.hook[g].inflight])
  <2>1. Sends(g, w.hook[g], w.request[w.hook[g].inflight])
    BY <1>6, <1>3 DEF Sound
  <2>2. v.hook[g].identity = w.hook[g].identity /\ v.hook[g].data = w.hook[g].data
    BY <1>2, <1>6
  <2> QED  BY <2>1, <2>2, <1>3, <1>1 DEF Sends
<1>7. ASSUME NEW g \in Hooks
      PROVE  Labels(v.hook[g])
  BY <1>2 DEF Sound
<1>8. Sound(v)
  BY <1>1, <1>4, <1>5, <1>6, <1>7 DEF Sound
<1> QED  BY <1>8 DEF v

\* What an effect leaves of the other hook, and of the free slots.
Apart(w, v, h) ==
    /\ \A g \in Hooks : g # h => v.hook[g] = w.hook[g]
    /\ \A g \in Hooks : g # h /\ w.hook[g].inflight # 0
        => v.request[w.hook[g].inflight] = w.request[w.hook[g].inflight]
    /\ \A m, k \in 1..Slots : m # k /\ w.request[m] = Free /\ w.request[k] = Free
        => v.request[m] = Free \/ v.request[k] = Free

Disabled(s) == [s EXCEPT !.inflight = 0, !.params = <<>>, !.identity = NoKey, !.period = NoKey,
                         !.pendingPeriod = FALSE, !.payload = NoData,
                         !.loading = TRUE, !.error = FALSE]

LEMMA DisableSound ==
    ASSUME NEW w, Sound(w), NEW h \in Hooks
    PROVE  /\ Sound(Disable(w, h)) /\ Apart(w, Disable(w, h), h)
           /\ Disable(w, h).hook[h] = Disabled(w.hook[h])
<1> DEFINE a == Abort(w, h)
           s == w.hook[h]
           t == [a.hook[h] EXCEPT !.params = <<>>, !.identity = NoKey, !.period = NoKey,
                     !.pendingPeriod = FALSE, !.payload = NoData,
                     !.loading = TRUE, !.error = FALSE]
<1>1. GivenUp(w, a, h)
  BY AbortGivesUp
<1>2. Disable(w, h) = [a EXCEPT !.hook[h] = t]
  BY DEF Disable
<1>3. Sound(a) /\ a.hook[h] = [s EXCEPT !.inflight = 0]
  BY <1>1 DEF GivenUp
<1>4. s \in HookState /\ a.hook[h] \in HookState /\ a \in Works /\ w \in Works
  BY <1>3 DEF Sound, Works
<1> HIDE DEF a
<1>5. t = Disabled(s) /\ t.inflight = 0
  <2>1. t = [[s EXCEPT !.inflight = 0] EXCEPT !.params = <<>>, !.identity = NoKey, !.period = NoKey,
                     !.pendingPeriod = FALSE, !.payload = NoData,
                     !.loading = TRUE, !.error = FALSE]
    BY <1>3
  <2> QED  BY <2>1, <1>4 DEF Disabled, HookState
<1>6. t \in HookState
  <2>1. <<>> \in ParamsType /\ NoData \in Data
    BY DEF ParamsType, Data
  <2> QED  BY <2>1, <1>4 DEF HookState
<1>7. Labels(t)
  <2>1. Labels(a.hook[h])
    BY <1>3 DEF Sound
  <2> QED  BY <2>1, <1>4 DEF Labels, HookState, NoKey
<1>8. a.hook[h].inflight = 0
  BY <1>3, <1>4 DEF HookState
<1> HIDE DEF t
<1>9. Sound([a EXCEPT !.hook[h] = t])
  BY <1>3, <1>5, <1>6, <1>7, <1>8, ReplaceSound
<1>10. /\ [a EXCEPT !.hook[h] = t].hook = [a.hook EXCEPT ![h] = t]
       /\ [a EXCEPT !.hook[h] = t].request = a.request
  BY <1>4 DEF Works
<1>11. a.hook \in [Hooks -> HookState]
  BY <1>4 DEF Works
<1>12. Apart(w, [a EXCEPT !.hook[h] = t], h)
  BY <1>1, <1>10, <1>11 DEF Apart, GivenUp
<1> QED  BY <1>2, <1>5, <1>9, <1>10, <1>11, <1>12

\* A request is sent from a free slot, and is counted when it refreshes.
LEMMA SendSound ==
    ASSUME NEW a, Sound(a), NEW h \in Hooks, a.hook[h].inflight = 0,
           NEW n \in 1..Slots, a.request[n] = Free,
           NEW t \in HookState, t.inflight = n, Labels(t),
           NEW r \in Request, Sends(h, t, r)
    PROVE  Sound([hook |-> [a.hook EXCEPT ![h] = t],
                  request |-> [a.request EXCEPT ![n] = r],
                  pending |-> a.pending + (IF r.retain THEN 1 ELSE 0)])
<1> DEFINE v == [hook |-> [a.hook EXCEPT ![h] = t],
                 request |-> [a.request EXCEPT ![n] = r],
                 pending |-> a.pending + (IF r.retain THEN 1 ELSE 0)]
<1>w. /\ a.hook \in [Hooks -> HookState] /\ a.request \in [1..Slots -> Requests]
      /\ a.pending \in Int /\ n # 0
  BY HookAssumption DEF Sound, Works
<1>1. /\ v.hook = [a.hook EXCEPT ![h] = t]
      /\ v.request = [a.request EXCEPT ![n] = r]
      /\ v.pending = a.pending + (IF r.retain THEN 1 ELSE 0)
  OBVIOUS
<1>2. v \in Works
  BY <1>w DEF Works, Requests
<1> HIDE DEF v
<1>3. v.hook[h] = t /\ \A g \in Hooks : g # h => v.hook[g] = a.hook[g]
  BY <1>1, <1>w
<1>4. v.request[n] = r /\ \A m \in 1..Slots : m # n => v.request[m] = a.request[m]
  BY <1>1, <1>w
<1>5. r.hook = h /\ r.live /\ r.retain \in BOOLEAN
  BY DEF Sends, Request
<1>6. v.pending = Cardinality(Counted(v.request))
  <2>1. a.pending = Cardinality(Counted(a.request)) /\ IsFiniteSet(Counted(a.request))
        /\ Cardinality(Counted(a.request)) \in Nat
    BY CountedFinite DEF Sound
  <2>2. n \notin Counted(a.request)
    BY DEF Counted, Free
  <2>3. CASE r.retain
    <3>1. Counted(v.request) = Counted(a.request) \cup {n}
      BY <2>3, <1>4, <1>5 DEF Counted
    <3>2. Cardinality(Counted(a.request) \cup {n}) = Cardinality(Counted(a.request)) + 1
      BY <2>1, <2>2, FS_AddElement
    <3> QED  BY <3>1, <3>2, <2>1, <2>3, <1>1
  <2>4. CASE ~r.retain
    <3>1. Counted(v.request) = Counted(a.request)
      BY <2>4, <2>2, <1>4, <1>5 DEF Counted
    <3> QED  BY <3>1, <2>1, <2>4, <1>1
  <2> QED  BY <2>3, <2>4
<1>7. ASSUME NEW m \in 1..Slots
      PROVE  Tracked(v, m)
  <2>1. CASE m = n
    BY <2>1, <1>3, <1>4, <1>5 DEF Tracked
  <2>2. CASE m # n
    <3> SUFFICES ASSUME a.request[m].live
                 PROVE  v.hook[a.request[m].hook].inflight = m
      BY <2>2, <1>4 DEF Tracked
    <3>1. a.hook[a.request[m].hook].inflight = m /\ m # 0
      BY HookAssumption DEF Sound, Tracked
    <3>2. a.request[m].hook \in Hooks
      BY <1>w, RequestFields DEF Request
    <3> QED  BY <3>1, <3>2, <1>3
  <2> QED  BY <2>1, <2>2
<1>8. ASSUME NEW g \in Hooks, v.hook[g].inflight # 0
      PROVE  Sends(g, v.hook[g], v.request[v.hook[g].inflight])
  <2>1. CASE g = h
    BY <2>1, <1>3, <1>4
  <2>2. CASE g # h
    <3>1. Sends(g, a.hook[g], a.request[a.hook[g].inflight])
      BY <1>8, <2>2, <1>3 DEF Sound
    <3>2. a.hook[g].inflight \in 1..Slots
      BY <1>8, <2>2, <1>3, <1>w, HookAssumption DEF HookState
    <3>3. a.hook[g].inflight # n
      BY <3>1 DEF Sends, Free
    <3> QED  BY <3>1, <3>2, <3>3, <2>2, <1>3, <1>4
  <2> QED  BY <2>1, <2>2
<1>9. ASSUME NEW g \in Hooks
      PROVE  Labels(v.hook[g])
  BY <1>3 DEF Sound
<1>10. Sound(v)
  BY <1>2, <1>6, <1>7, <1>8, <1>9 DEF Sound
<1> QED  BY <1>10 DEF v

Retains(s) == s.identity = sel.identity /\ s.data # NoData

\* What a hook asks for once its effect has run for the selection.
LEMMA SelectedIs ==
    ASSUME Selection, NEW s \in HookState, Labels(s), NEW params \in ParamsType,
           params # <<>>, params[1] = sel.identity,
           NEW t, t = Selected(s, params, Retains(s))
    PROVE  /\ t \in HookState /\ Labels(t)
           /\ t.identity = sel.identity /\ t.period = sel.period /\ t.deps = s.deps
           /\ \/ t.data = s.data /\ t.loading = s.loading /\ t.error = s.error
                 /\ t.shownIdentity = s.shownIdentity /\ t.shownPeriod = s.shownPeriod
              \/ t.data = NoData /\ t.loading
           /\ s.identity # sel.identity => t.data = NoData /\ t.loading
           /\ ~Retains(s) /\ ~(s.identity = sel.identity /\ s.period = sel.period) => t.data = NoData
<1>1. sel.identity \in Identities /\ sel.period \in Periods /\ sel.identity # NoKey
  BY HookAssumption DEF Selection
<1> DEFINE asked == [s EXCEPT !.params = params, !.identity = sel.identity, !.period = sel.period]
<1>2. Retains(s) \in BOOLEAN
  BY DEF Retains
<1>3. CASE s.identity = sel.identity /\ s.period = sel.period
  <2>1. t = asked
    BY <1>3 DEF Selected
  <2>2. t \in HookState
    BY <2>1, <1>1 DEF HookState
  <2>3. /\ t.payload = s.payload /\ t.data = s.data /\ t.pendingPeriod = s.pendingPeriod
        /\ t.shownPeriod = s.shownPeriod /\ t.shownIdentity = s.shownIdentity
        /\ t.loading = s.loading /\ t.error = s.error /\ t.deps = s.deps
        /\ t.identity = sel.identity /\ t.period = sel.period /\ t.params = params
    BY <2>1 DEF HookState
  <2>4. Labels(t)
    BY <2>3, <1>1, <1>3 DEF Labels
  <2> QED  BY <2>2, <2>3, <2>4, <1>3 DEF Retains
<1>4. CASE ~(s.identity = sel.identity /\ s.period = sel.period) /\ Retains(s)
  <2>1. t = [asked EXCEPT !.payload = NoData, !.pendingPeriod = AwaitsPeriod(s, TRUE)]
    BY <1>4 DEF Selected
  <2>2. t \in HookState
    BY <2>1, <1>1 DEF HookState, Data, AwaitsPeriod
  <2>3. /\ t.payload = NoData /\ t.data = s.data /\ t.pendingPeriod = (s.shownPeriod # sel.period)
        /\ t.shownPeriod = s.shownPeriod /\ t.shownIdentity = s.shownIdentity
        /\ t.loading = s.loading /\ t.error = s.error /\ t.deps = s.deps
        /\ t.identity = sel.identity /\ t.period = sel.period /\ t.params = params
    BY <2>1 DEF HookState, AwaitsPeriod
  <2>4. Labels(t)
    BY <2>3, <1>1, <1>4 DEF Labels, Retains
  <2> QED  BY <2>2, <2>3, <2>4, <1>4 DEF Retains
<1>5. CASE ~(s.identity = sel.identity /\ s.period = sel.period) /\ ~Retains(s)
  <2>1. t = [asked EXCEPT !.payload = NoData, !.pendingPeriod = FALSE, !.data = NoData,
                          !.loading = TRUE, !.error = FALSE,
                          !.shownIdentity = NoKey, !.shownPeriod = NoKey]
    BY <1>5 DEF Selected
  <2>2. t \in HookState
    BY <2>1, <1>1 DEF HookState, Data
  <2>3. /\ t.payload = NoData /\ t.data = NoData /\ t.pendingPeriod = FALSE
        /\ t.loading = TRUE /\ t.deps = s.deps
        /\ t.identity = sel.identity /\ t.period = sel.period /\ t.params = params
    BY <2>1 DEF HookState
  <2>4. Labels(t)
    BY <2>3, <1>1 DEF Labels
  <2> QED  BY <2>2, <2>3, <2>4
<1> QED  BY <1>3, <1>4, <1>5

\* What the effect of a hook makes of it.
Follows(s, t, in) ==
    /\ t.deps = s.deps
    /\ ~in.enabled => t.inflight = 0 /\ t.loading /\ t.identity = NoKey
    /\ in.enabled /\ in.hold => t = s
    /\ in.enabled /\ ~in.hold => t.identity = sel.identity
    /\ \/ t.data = s.data /\ t.loading = s.loading /\ t.error = s.error
          /\ t.shownIdentity = s.shownIdentity /\ t.shownPeriod = s.shownPeriod
       \/ ~in.enabled
       \/ t.data = NoData /\ t.loading
    /\ in.enabled /\ ~in.hold /\ s.identity # sel.identity => t.data = NoData /\ t.loading

Suits(w) ==
    LET n == w.hook["details"].inflight
    IN n # 0 => w.request[n].content.range = RangeOf(w.request[n].period)

Ran(w, v, h, in) ==
    /\ Sound(v) /\ Apart(w, v, h) /\ Follows(w.hook[h], v.hook[h], in)
    /\ h = "details" /\ Suits(w) /\ (in.bounds.range = RangeOf(sel.period) \/ ~in.enabled \/ in.hold) => Suits(v)

Params(in) == <<sel.identity, RangeOf(sel.period), window, in.bounds>>

LEMMA AskRuns ==
    ASSUME Selection, NEW w, Sound(w), NEW h \in Hooks, NEW in \in InputsType,
           in.enabled, ~in.hold, h = "details" => in.bounds.range \in Ranges,
           ~Dropped(w.hook[h], Params(in)), \E m \in 1..Slots : w.request[m] = Free
    PROVE  Ran(w, Ask(w, h, in, Params(in)), h, in)
<1> DEFINE s == w.hook[h]
           params == Params(in)
           a == IF params # s.params THEN Abort(w, h) ELSE w
           n == CHOOSE m \in 1..Slots : a.request[m] = Free
           bounds == IF h = "overview" THEN [range |-> RangeOf(sel.period), window |-> window] ELSE in.bounds
           r == [hook |-> h, identity |-> sel.identity, period |-> sel.period,
                 content |-> [identity |-> sel.identity, range |-> bounds.range,
                              window |-> bounds.window],
                 retain |-> Retains(s), live |-> TRUE,
                 clears |-> ~Retains(s) /\ ~(s.identity = sel.identity /\ s.period = sel.period)]
           u == Selected(s, params, Retains(s))
           t == [u EXCEPT !.inflight = n]
           v == [hook |-> [a.hook EXCEPT ![h] = t], request |-> [a.request EXCEPT ![n] = r],
                 pending |-> a.pending + (IF Retains(s) THEN 1 ELSE 0)]
<1>1. Ask(w, h, in, params) = v
  BY DEF Ask, Retains
<1>s. s \in HookState /\ Labels(s) /\ w \in Works
  BY DEF Sound, Works
<1>c. sel.identity \in Identities /\ sel.period \in Periods /\ window \in 0..MaxWindow
      /\ sel.identity # NoKey /\ RangeOf(sel.period) \in Ranges
  BY HookAssumption DEF Selection, Ranges
<1>p. params \in ParamsType /\ params # <<>> /\ params[1] = sel.identity
  BY <1>c DEF Params, ParamsType, InputsType
<1>2. GivenUp(w, a, h) /\ a.hook[h].inflight = 0
  <2>1. CASE params # s.params
    <3>1. GivenUp(w, Abort(w, h), h)
      BY AbortGivesUp
    <3> QED  BY <3>1, <2>1, <1>s DEF GivenUp, HookState
  <2>2. CASE params = s.params
    <3>1. s.inflight = 0
      BY <2>2 DEF Dropped
    <3>2. GivenUp(w, Abort(w, h), h) /\ Abort(w, h) = w
      BY <3>1, <1>s, AbortGivesUp, AbortIs
    <3> QED  BY <3>1, <3>2, <2>2
  <2> QED  BY <2>1, <2>2
<1> HIDE DEF a
<1>3. Sound(a) /\ a \in Works
  BY <1>2 DEF GivenUp, Sound
<1>4. n \in 1..Slots /\ a.request[n] = Free
  <2>1. \E m \in 1..Slots : a.request[m] = Free
    BY <1>2 DEF GivenUp
  <2> QED  BY <2>1
<1> HIDE DEF n
<1>5. bounds.range \in Ranges /\ bounds.window \in 0..MaxWindow
  BY <1>c DEF InputsType, Bounds, Hooks
<1>b. h = "overview" => bounds.range = RangeOf(sel.period)
  OBVIOUS
<1>d. h = "details" => bounds.range = in.bounds.range
  OBVIOUS
<1> HIDE DEF bounds
<1>6. r \in Request
  BY <1>5, <1>c DEF Request, Data, Retains
<1>7. /\ u \in HookState /\ Labels(u)
      /\ u.identity = sel.identity /\ u.period = sel.period /\ u.deps = s.deps
      /\ \/ u.data = s.data /\ u.loading = s.loading /\ u.error = s.error
            /\ u.shownIdentity = s.shownIdentity /\ u.shownPeriod = s.shownPeriod
         \/ u.data = NoData /\ u.loading
      /\ s.identity # sel.identity => u.data = NoData /\ u.loading
      /\ ~Retains(s) /\ ~(s.identity = sel.identity /\ s.period = sel.period) => u.data = NoData
  <2> HIDE DEF params, s, u
  <2>1. u = Selected(s, params, Retains(s))
    BY DEF u
  <2> QED  BY <2>1, <1>s, <1>p, SelectedIs
<1> HIDE DEF u
<1>8. /\ t \in HookState /\ t.inflight = n
      /\ t.identity = u.identity /\ t.period = u.period /\ t.deps = u.deps /\ t.data = u.data
      /\ t.loading = u.loading /\ t.error = u.error
      /\ t.shownIdentity = u.shownIdentity /\ t.shownPeriod = u.shownPeriod
      /\ t.payload = u.payload /\ t.pendingPeriod = u.pendingPeriod /\ t.params = u.params
  BY <1>7, <1>4 DEF HookState
<1> HIDE DEF t
<1>9. Labels(t)
  BY <1>7, <1>8 DEF Labels
<1>10. /\ r.hook = h /\ r.live /\ r.identity = sel.identity /\ r.content.identity = sel.identity
       /\ r.content.range = bounds.range /\ r.period = sel.period
       /\ r.retain = Retains(s)
       /\ r.clears => ~Retains(s) /\ ~(s.identity = sel.identity /\ s.period = sel.period)
  OBVIOUS
<1>11. v = [hook |-> [a.hook EXCEPT ![h] = t], request |-> [a.request EXCEPT ![n] = r],
            pending |-> a.pending + (IF r.retain THEN 1 ELSE 0)]
  BY <1>10
<1> HIDE DEF r
<1>12. Sends(h, t, r)
  BY <1>6, <1>7, <1>8, <1>10, <1>b DEF Sends
<1>13. Sound(v)
  BY <1>11, <1>3, <1>2, <1>4, <1>6, <1>8, <1>9, <1>12, SendSound
<1>14. /\ v.hook = [a.hook EXCEPT ![h] = t] /\ v.request = [a.request EXCEPT ![n] = r]
       /\ a.hook \in [Hooks -> HookState] /\ a.request \in [1..Slots -> Requests]
  BY <1>3 DEF Works
<1> HIDE DEF v
<1>15. v.hook[h] = t /\ \A g \in Hooks : g # h => v.hook[g] = a.hook[g]
  BY <1>14
<1>16. v.request[n] = r /\ \A m \in 1..Slots : m # n => v.request[m] = a.request[m]
  BY <1>14, <1>4
<1>17. Apart(w, v, h)
  <2>1. \A g \in Hooks : g # h => v.hook[g] = w.hook[g]
    BY <1>15, <1>2 DEF GivenUp
  <2>2. ASSUME NEW g \in Hooks, g # h, w.hook[g].inflight # 0
        PROVE  v.request[w.hook[g].inflight] = w.request[w.hook[g].inflight]
    <3>1. w.hook[g].inflight \in 1..Slots
      BY <2>2, <1>s, HookAssumption DEF Works, HookState
    <3>2. a.request[w.hook[g].inflight] = w.request[w.hook[g].inflight]
      BY <2>2, <1>2 DEF GivenUp
    <3>3. w.request[w.hook[g].inflight] # Free
      BY <2>2 DEF Sound, Sends, Free
    <3> QED  BY <3>1, <3>2, <3>3, <1>4, <1>16
  <2>3. ASSUME NEW m \in 1..Slots, NEW k \in 1..Slots, m # k, w.request[m] = Free, w.request[k] = Free
        PROVE  v.request[m] = Free \/ v.request[k] = Free
    <3>1. a.request[m] = Free /\ a.request[k] = Free
      BY <2>3, <1>2 DEF GivenUp
    <3> QED  BY <3>1, <2>3, <1>16
  <2> QED  BY <2>1, <2>2, <2>3 DEF Apart
<1>18. Follows(s, v.hook[h], in)
  <2> HIDE DEF s
  <2> QED  BY <1>15, <1>8, <1>7 DEF Follows
<1>19. h = "details" /\ in.bounds.range = RangeOf(sel.period) => Suits(v)
  BY <1>15, <1>8, <1>16, <1>10, <1>d DEF Suits
<1> QED  BY <1>1, <1>13, <1>17, <1>18, <1>19 DEF Ran

LEMMA EffectRuns ==
    ASSUME Selection, NEW w, Sound(w), NEW h \in Hooks, NEW in \in InputsType,
           in.enabled /\ ~in.hold /\ h = "details" => in.bounds.range \in Ranges,
           in.enabled => \E m \in 1..Slots : w.request[m] = Free
    PROVE  Ran(w, Effect(w, h, in), h, in)
<1>s. w.hook[h] \in HookState /\ Labels(w.hook[h]) /\ sel.identity \in Identities
      /\ in.enabled \in BOOLEAN /\ in.hold \in BOOLEAN
  BY DEF Sound, Works, Selection, InputsType
<1>e. Effect(w, h, in) = IF ~in.enabled THEN Disable(w, h)
                         ELSE IF in.hold \/ Dropped(w.hook[h], Params(in)) THEN w
                         ELSE Ask(w, h, in, Params(in))
  BY DEF Effect, Params
<1>a. Apart(w, w, h)
  BY DEF Apart
<1>1. CASE ~in.enabled
  <2>1. Effect(w, h, in) = Disable(w, h)
    BY <1>1, <1>e
  <2>2. Sound(Disable(w, h)) /\ Apart(w, Disable(w, h), h) /\ Disable(w, h).hook[h] = Disabled(w.hook[h])
    BY DisableSound
  <2>3. /\ Disabled(w.hook[h]).inflight = 0 /\ Disabled(w.hook[h]).loading = TRUE
        /\ Disabled(w.hook[h]).identity = NoKey /\ Disabled(w.hook[h]).deps = w.hook[h].deps
    BY <1>s DEF Disabled, HookState
  <2>4. Follows(w.hook[h], Disable(w, h).hook[h], in)
    BY <2>2, <2>3, <1>1 DEF Follows
  <2>5. h = "details" => Suits(Disable(w, h))
    BY <2>2, <2>3 DEF Suits
  <2> QED  BY <2>1, <2>2, <2>4, <2>5 DEF Ran
<1>2. CASE in.enabled /\ in.hold
  <2>1. Effect(w, h, in) = w
    BY <1>2, <1>e
  <2>2. Follows(w.hook[h], w.hook[h], in)
    BY <1>2 DEF Follows
  <2> QED  BY <2>1, <2>2, <1>a DEF Ran
<1>3. CASE in.enabled /\ ~in.hold /\ Dropped(w.hook[h], Params(in))
  <2>1. Effect(w, h, in) = w
    BY <1>3, <1>e
  <2>2. w.hook[h].identity = sel.identity
    <3>1. w.hook[h].params = Params(in) /\ Params(in) # <<>>
      BY <1>3 DEF Dropped, Params
    <3>2. Params(in)[1] = sel.identity
      BY DEF Params
    <3> QED  BY <3>1, <3>2, <1>s DEF Labels
  <2>3. Follows(w.hook[h], w.hook[h], in)
    BY <1>3, <2>2 DEF Follows
  <2> QED  BY <2>1, <2>3, <1>a DEF Ran
<1>4. CASE in.enabled /\ ~in.hold /\ ~Dropped(w.hook[h], Params(in))
  <2>1. Effect(w, h, in) = Ask(w, h, in, Params(in))
    BY <1>4, <1>e
  <2>2. Ran(w, Ask(w, h, in, Params(in)), h, in)
    BY <1>4, AskRuns
  <2> QED  BY <2>1, <2>2
<1> QED  BY <1>1, <1>2, <1>3, <1>4, <1>s

Unconditional == [enabled |-> TRUE, hold |-> FALSE, bounds |-> NoData]

LEMMA InputsAre ==
    ASSUME NEW hooks \in [Hooks -> HookState]
    PROVE  /\ Inputs(hooks, "overview") = Unconditional
           /\ Inputs(hooks, "details") \in InputsType /\ Unconditional \in InputsType
           /\ Inputs(hooks, "details").enabled
              => /\ hooks["overview"].data # NoData /\ ~hooks["overview"].loading
                 /\ Inputs(hooks, "details").bounds.range = hooks["overview"].data.range
                 /\ hooks["overview"].data.range \in Ranges
           /\ Inputs(hooks, "details").hold = Stale(hooks["overview"])
<1> DEFINE o == hooks["overview"]
<1>1. o \in HookState /\ o.data \in Data
  BY DEF Hooks, HookState
<1>2. Inputs(hooks, "details")
        = [enabled |-> ~o.loading /\ ~o.error /\ o.data # NoData, hold |-> Stale(o),
           bounds |-> [o.data EXCEPT !.identity = NoKey]]
  BY DEF Inputs
<1>3. /\ [o.data EXCEPT !.identity = NoKey] \in Bounds
      /\ [o.data EXCEPT !.identity = NoKey].range = o.data.range
      /\ o.data # NoData => o.data.range \in Ranges
  <2>0. 0 \in 0..MaxWindow
    BY HookAssumption
  <2>1. CASE o.data = NoData
    BY <2>1, <2>0 DEF NoData, Bounds
  <2>2. CASE o.data \in [identity : Identities, range : Ranges, window : 0..MaxWindow]
    BY <2>2 DEF Bounds
  <2> QED  BY <2>1, <2>2, <1>1 DEF Data
<1>4. Stale(o) \in BOOLEAN
  BY DEF Stale
<1>5. Unconditional \in InputsType /\ Inputs(hooks, "overview") = Unconditional
  <2>1. NoData \in Bounds
    BY HookAssumption DEF NoData, Bounds
  <2> QED  BY <2>1 DEF Unconditional, InputsType, Inputs
<1>6. /\ Inputs(hooks, "details").enabled = (~o.loading /\ ~o.error /\ o.data # NoData)
      /\ Inputs(hooks, "details").hold = Stale(o)
      /\ Inputs(hooks, "details").bounds = [o.data EXCEPT !.identity = NoKey]
  BY <1>2
<1>7. (~o.loading /\ ~o.error /\ o.data # NoData) \in BOOLEAN
  OBVIOUS
<1> DEFINE enabled == ~o.loading /\ ~o.error /\ o.data # NoData
<1> HIDE DEF enabled
<1>8. Inputs(hooks, "details") \in InputsType
  <2>1. enabled \in BOOLEAN
    BY DEF enabled
  <2>2. Inputs(hooks, "details") = [enabled |-> enabled, hold |-> Stale(o),
                                    bounds |-> [o.data EXCEPT !.identity = NoKey]]
    BY <1>2 DEF enabled
  <2> QED  BY <2>1, <2>2, <1>3, <1>4 DEF InputsType
<1> QED  BY <1>3, <1>5, <1>6, <1>8

LEMMA DepsAre ==
    ASSUME Selection, NEW hooks \in [Hooks -> HookState], NEW h \in Hooks
    PROVE  /\ Deps(hooks, h) = <<sel.identity, sel.period, cycle.tick, Inputs(hooks, h)>>
           /\ Deps(hooks, h) \in DepsType /\ Deps(hooks, h) # <<>>
<1>1. Inputs(hooks, h) \in InputsType
  BY InputsAre DEF Hooks
<1> QED  BY <1>1 DEF Deps, DepsType, Selection

\* The effect of a hook ran for what it depends on.
Heard(s) ==
    /\ s.deps = <<>> => s.inflight = 0 /\ s.loading /\ s.identity = NoKey
    /\ s.deps # <<>> =>
        /\ ~s.deps[4].enabled => s.inflight = 0 /\ s.loading /\ s.identity = NoKey
        /\ s.deps[4].enabled /\ ~s.deps[4].hold => s.identity = s.deps[1]

\* The hooks of a page run in the same renders.
Together(hooks) ==
    LET o == hooks["overview"]
        d == hooks["details"]
    IN /\ o.deps = <<>> <=> d.deps = <<>>
       /\ o.deps # <<>> => /\ o.deps[4] = Unconditional
                           /\ o.deps[1] = d.deps[1] /\ o.deps[2] = d.deps[2] /\ o.deps[3] = d.deps[3]
       /\ d.identity \in {NoKey, o.identity}

Page(w) ==
    /\ Sound(w) /\ Suits(w) /\ Together(w.hook)
    /\ \A h \in Hooks : Heard(w.hook[h])

\* What a run of the effect of h makes of v: z.
HasRun(w, v, z, h, in, deps) ==
    /\ Sound(z) /\ Apart(v, z, h)
    /\ z.hook[h].deps = deps
    /\ w.hook[h].deps = deps => z = v
    /\ \E t \in HookState :
         /\ z.hook[h] = [t EXCEPT !.deps = deps]
         /\ w.hook[h].deps # deps => Follows(w.hook[h], t, in)
    /\ w.hook[h].deps # deps /\ h = "details" /\ Suits(v)
         /\ (in.bounds.range = RangeOf(sel.period) \/ ~in.enabled \/ in.hold)
       => Suits(z)

\* A hook's effect ran, and what it depends on is remembered.
LEMMA RunSound ==
    ASSUME Selection, NEW w, NEW v, NEW h \in Hooks,
           w.hook \in [Hooks -> HookState], Sound(v), w.hook[h] = v.hook[h],
           NEW in, in = Inputs(w.hook, h), NEW deps, deps = Deps(w.hook, h),
           in.enabled /\ w.hook[h].deps # deps => \E m \in 1..Slots : v.request[m] = Free
    PROVE  HasRun(w, v, Run(w, v, h), h, in, deps)
<1> DEFINE done == IF w.hook[h].deps = deps THEN v ELSE Effect(v, h, in)
           z == [done EXCEPT !.hook[h] = [done.hook[h] EXCEPT !.deps = deps]]
<1>1. Run(w, v, h) = z
  BY DEF Run
<1>2. deps \in DepsType /\ in \in InputsType /\ (in.enabled /\ h = "details" => in.bounds.range \in Ranges)
  <2>1. in \in InputsType /\ (in.enabled /\ h = "details" => in.bounds.range \in Ranges)
    BY InputsAre DEF Hooks
  <2> QED  BY <2>1, DepsAre
<1>3. w.hook[h].deps # deps => Ran(v, Effect(v, h, in), h, in)
  BY <1>2, EffectRuns
<1>4. Sound(done) /\ Apart(v, done, h) /\ (w.hook[h].deps # deps => Follows(w.hook[h], done.hook[h], in))
      /\ (w.hook[h].deps = deps => done = v)
      /\ (w.hook[h].deps # deps /\ h = "details" /\ Suits(v)
            /\ (in.bounds.range = RangeOf(sel.period) \/ ~in.enabled \/ in.hold) => Suits(done))
  <2>1. CASE w.hook[h].deps = deps
    BY <2>1 DEF Apart
  <2>2. CASE w.hook[h].deps # deps
    BY <2>2, <1>3 DEF Ran
  <2> QED  BY <2>1, <2>2
<1> HIDE DEF done
<1>5. done \in Works /\ done.hook \in [Hooks -> HookState] /\ done.hook[h] \in HookState
      /\ Labels(done.hook[h])
  BY <1>4 DEF Sound, Works
<1> DEFINE t == [done.hook[h] EXCEPT !.deps = deps]
<1>6. /\ t \in HookState /\ t.inflight = done.hook[h].inflight /\ t.deps = deps
      /\ t.identity = done.hook[h].identity /\ t.data = done.hook[h].data
      /\ (done.hook[h].deps = deps => t = done.hook[h])
  BY <1>5, <1>2 DEF HookState
<1>7. Labels(t)
  BY <1>5, <1>2 DEF Labels, HookState
<1>8. z = [done EXCEPT !.hook[h] = t]
  OBVIOUS
<1>t. t = [done.hook[h] EXCEPT !.deps = deps]
  OBVIOUS
<1> HIDE DEF t, z
<1>9. Sound(z)
  BY <1>8, <1>4, <1>6, <1>7, ReplaceSound
<1>10. /\ z.hook = [done.hook EXCEPT ![h] = t] /\ z.request = done.request
       /\ (t = done.hook[h] => z = done)
  BY <1>8, <1>5 DEF Works
<1>11. z.hook[h] = t /\ \A g \in Hooks : g # h => z.hook[g] = done.hook[g]
  BY <1>10, <1>5
<1>12. Apart(v, z, h)
  BY <1>11, <1>10, <1>4 DEF Apart
<1>13. w.hook[h].deps = deps => z = v
  BY <1>4, <1>6, <1>10
<1>14. \A g \in Hooks : z.hook[g].inflight = done.hook[g].inflight
  BY <1>11, <1>6
<1>15. Suits(done) => Suits(z)
  BY <1>14, <1>10 DEF Suits, Hooks
<1> QED  BY <1>1, <1>4, <1>5, <1>t, <1>6, <1>9, <1>11, <1>12, <1>13, <1>15 DEF HasRun

\* A render leaves a page whose parts belong together, whatever came before it.
LEMMA RenderPage ==
    ASSUME Selection, NEW w, Page(w), \E h \in Hooks : w.hook[h].deps # Deps(w.hook, h),
           NEW m1 \in 1..Slots, NEW m2 \in 1..Slots, m1 # m2,
           w.request[m1] = Free, w.request[m2] = Free,
           NEW d, d = Run(w, w, "details"), NEW first, first = Run(w, d, "overview"),
           NEW e, e = Run(first, first, "details"), NEW last, last = Run(first, e, "overview")
    PROVE  Page(last)
<1> DEFINE o == w.hook["overview"]
           s == w.hook["details"]
           in == Inputs(w.hook, "details")
           depsD == Deps(w.hook, "details")
           depsO == <<sel.identity, sel.period, cycle.tick, Unconditional>>
<1>h. "overview" \in Hooks /\ "details" \in Hooks /\ \A h \in Hooks : h = "overview" \/ h = "details"
  BY DEF Hooks
<1>w. /\ Sound(w) /\ Suits(w) /\ w.hook \in [Hooks -> HookState]
      /\ o \in HookState /\ s \in HookState /\ Labels(o) /\ Labels(s)
      /\ Heard(o) /\ Heard(s)
      /\ o.deps = <<>> <=> s.deps = <<>>
      /\ o.deps # <<>> => /\ o.deps[4] = Unconditional
                          /\ o.deps[1] = s.deps[1] /\ o.deps[2] = s.deps[2] /\ o.deps[3] = s.deps[3]
      /\ s.identity \in {NoKey, o.identity}
  BY <1>h DEF Page, Sound, Works, Together
<1>c. /\ sel.identity \in Identities /\ sel.identity # NoKey /\ sel.period \in Periods
  BY HookAssumption DEF Selection
<1>in. /\ in \in InputsType /\ Unconditional \in InputsType
       /\ in.enabled => /\ o.data # NoData /\ ~o.loading
                        /\ in.bounds.range = o.data.range /\ in.bounds.range \in Ranges
       /\ in.hold = Stale(o)
       /\ in.enabled \in BOOLEAN /\ in.hold \in BOOLEAN
  <2>1. /\ in \in InputsType /\ Unconditional \in InputsType
        /\ in.enabled => /\ o.data # NoData /\ ~o.loading
                         /\ in.bounds.range = o.data.range /\ o.data.range \in Ranges
        /\ in.hold = Stale(o)
    BY <1>w, InputsAre
  <2> QED  BY <2>1 DEF InputsType
<1>u. Unconditional.enabled /\ ~Unconditional.hold
  BY DEF Unconditional
<1>do. \A hooks \in [Hooks -> HookState] :
         /\ Deps(hooks, "overview") = depsO /\ Inputs(hooks, "overview") = Unconditional
  BY <1>h, InputsAre, DepsAre
<1>dd. /\ depsD = <<sel.identity, sel.period, cycle.tick, in>> /\ depsD \in DepsType /\ depsD # <<>>
       /\ depsO \in DepsType /\ depsO # <<>>
  <2>1. /\ depsD = <<sel.identity, sel.period, cycle.tick, in>> /\ depsD \in DepsType /\ depsD # <<>>
    BY <1>w, <1>h, DepsAre
  <2>2. depsO = Deps(w.hook, "overview")
    BY <1>do, <1>w
  <2>3. depsO \in DepsType /\ depsO # <<>>
    BY <2>2, <1>w, <1>h, DepsAre
  <2> QED  BY <2>1, <2>3
<1>f. /\ depsD[1] = sel.identity /\ depsD[2] = sel.period /\ depsD[3] = cycle.tick /\ depsD[4] = in
      /\ depsO[1] = sel.identity /\ depsO[2] = sel.period /\ depsO[3] = cycle.tick
      /\ depsO[4] = Unconditional
  BY <1>dd
<1> HIDE DEF depsD, in
<1>1. s.deps # depsD
  <2> SUFFICES ASSUME s.deps = depsD
               PROVE  FALSE
    OBVIOUS
  <2>1. o.deps # <<>> /\ o.deps[1] = sel.identity /\ o.deps[2] = sel.period /\ o.deps[3] = cycle.tick
        /\ o.deps[4] = Unconditional
    BY <1>dd, <1>f, <1>w
  <2>2. o.deps \in Identities \X Periods \X (0..MaxTicks) \X InputsType
    BY <2>1, <1>w DEF HookState, DepsType
  <2>3. o.deps = depsO
    BY <2>1, <2>2
  <2>4. s.deps = Deps(w.hook, "details") /\ o.deps = Deps(w.hook, "overview")
    BY <2>3, <1>do, <1>w DEF depsD
  <2> QED  BY <2>4, <1>h
<1> HIDE DEF depsO
<1>2. /\ Sound(d) /\ Apart(w, d, "details") /\ d.hook["details"].deps = depsD
      /\ \E t \in HookState : d.hook["details"] = [t EXCEPT !.deps = depsD] /\ Follows(s, t, in)
      /\ (in.bounds.range = RangeOf(sel.period) \/ ~in.enabled \/ in.hold) => Suits(d)
  <2>1. \E m \in 1..Slots : w.request[m] = Free
    OBVIOUS
  <2>2. in = Inputs(w.hook, "details") /\ depsD = Deps(w.hook, "details")
    BY DEF in, depsD
  <2>3. HasRun(w, w, d, "details", in, depsD)
    BY <2>1, <2>2, <1>w, <1>h, RunSound
  <2> QED  BY <2>3, <1>w, <1>1 DEF HasRun
<1>3. d.hook \in [Hooks -> HookState] /\ d.hook["overview"] = o
  BY <1>2, <1>h DEF Apart, Sound, Works
<1>4. /\ Sound(first) /\ Apart(d, first, "overview") /\ first.hook["overview"].deps = depsO
      /\ o.deps = depsO => first = d
      /\ \E t \in HookState :
           /\ first.hook["overview"] = [t EXCEPT !.deps = depsO]
           /\ o.deps # depsO => Follows(o, t, Unconditional)
  <2>1. \E m \in 1..Slots : d.request[m] = Free
    BY <1>2 DEF Apart
  <2>2. Unconditional = Inputs(w.hook, "overview") /\ depsO = Deps(w.hook, "overview")
    BY <1>do, <1>w
  <2>3. HasRun(w, d, first, "overview", Unconditional, depsO)
    BY <2>1, <2>2, <1>w, <1>h, <1>2, <1>3, RunSound
  <2> QED  BY <2>3 DEF HasRun
<1> DEFINE p == first.hook["overview"]
           q == first.hook["details"]
<1>5. first.hook \in [Hooks -> HookState] /\ p \in HookState /\ q \in HookState /\ q = d.hook["details"]
  BY <1>4, <1>h DEF Apart, Sound, Works
<1>6. /\ p.identity = sel.identity
      /\ \/ p.data = o.data /\ p.loading = o.loading /\ p.error = o.error
            /\ p.shownIdentity = o.shownIdentity /\ p.shownPeriod = o.shownPeriod
         \/ p.data = NoData /\ p.loading
      /\ o.identity # sel.identity => p.data = NoData /\ p.loading
  <2>1. CASE o.deps = depsO
    <3>1. p = o
      BY <2>1, <1>4, <1>3
    <3>2. o.identity = sel.identity
      BY <2>1, <1>w, <1>dd, <1>f, <1>u DEF Heard
    <3> QED  BY <3>1, <3>2
  <2>2. CASE o.deps # depsO
    <3>1. PICK t \in HookState : p = [t EXCEPT !.deps = depsO] /\ Follows(o, t, Unconditional)
      BY <2>2, <1>4
    <3>2. /\ p.identity = t.identity /\ p.data = t.data /\ p.loading = t.loading
          /\ p.error = t.error /\ p.shownIdentity = t.shownIdentity /\ p.shownPeriod = t.shownPeriod
      BY <3>1 DEF HookState
    <3> QED  BY <3>1, <3>2, <1>u DEF Follows
  <2> QED  BY <2>1, <2>2
<1> DEFINE in2 == Inputs(first.hook, "details")
           depsE == Deps(first.hook, "details")
<1>7. /\ in2 \in InputsType /\ depsE = <<sel.identity, sel.period, cycle.tick, in2>>
      /\ depsE \in DepsType /\ depsE # <<>>
  BY <1>5, <1>h, InputsAre, DepsAre
<1>8. in2 = in \/ (in2 # in /\ ~in2.enabled)
  <2>1. CASE p.data = o.data /\ p.loading = o.loading /\ p.error = o.error
             /\ p.shownIdentity = o.shownIdentity /\ p.shownPeriod = o.shownPeriod
    <3>1. Stale(p) = Stale(o)
      BY <2>1 DEF Stale
    <3>2. in2 = in
      BY <2>1, <3>1 DEF Inputs, in
    <3> QED  BY <3>2
  <2>2. CASE p.data = NoData /\ p.loading
    <3>1. in2.enabled => p.data # NoData
      BY <1>5, InputsAre
    <3> QED  BY <3>1, <2>2
  <2> QED  BY <2>1, <2>2, <1>6
<1>9. in2 = in => o.identity = sel.identity \/ ~in.enabled
  <2>1. in2.enabled => p.data # NoData
    BY <1>5, InputsAre
  <2> QED  BY <2>1, <1>6
<1>g. depsE[1] = sel.identity /\ depsE[2] = sel.period /\ depsE[3] = cycle.tick /\ depsE[4] = in2
  BY <1>7
<1> HIDE DEF in2, depsE
<1>10. /\ Sound(e) /\ Apart(first, e, "details") /\ e.hook["details"].deps = depsE
       /\ q.deps = depsE => e = first
       /\ \E t \in HookState :
            /\ e.hook["details"] = [t EXCEPT !.deps = depsE]
            /\ q.deps # depsE => Follows(q, t, in2)
  <2>1. in2.enabled /\ q.deps # depsE => \E m \in 1..Slots : first.request[m] = Free
    <3>1. CASE in2 = in
      <4>1. depsE = depsD
        BY <3>1, <1>7, <1>dd
      <4> QED  BY <4>1, <1>2, <1>5
    <3> QED  BY <3>1, <1>8
  <2>2. in2 = Inputs(first.hook, "details") /\ depsE = Deps(first.hook, "details")
    BY DEF in2, depsE
  <2>3. HasRun(first, first, e, "details", in2, depsE)
    BY <2>1, <2>2, <1>4, <1>5, <1>h, RunSound
  <2> QED  BY <2>3 DEF HasRun
<1> DEFINE c == e.hook["details"]
<1>11. e.hook \in [Hooks -> HookState] /\ e.hook["overview"] = p /\ c \in HookState
  BY <1>10, <1>h DEF Apart, Sound, Works
<1>12. last = e
  <2>1. first.hook["overview"] = e.hook["overview"] /\ p.deps = depsO
    BY <1>11, <1>4
  <2>2. Unconditional = Inputs(first.hook, "overview") /\ depsO = Deps(first.hook, "overview")
    BY <1>do, <1>5
  <2>3. HasRun(first, e, last, "overview", Unconditional, depsO)
    BY <2>1, <2>2, <1>5, <1>h, <1>10, <1>u, RunSound
  <2> QED  BY <2>1, <2>3 DEF HasRun
\* What the details are left with.
<1>13. /\ Heard(c) /\ Suits(e) /\ c.identity \in {NoKey, sel.identity}
  <2>1. CASE in2 = in
    <3>1. depsE = depsD /\ q.deps = depsD
      BY <2>1, <1>7, <1>dd, <1>2, <1>5
    <3>2. e = first /\ c = q
      BY <3>1, <1>10
    <3>3. PICK t \in HookState : q = [t EXCEPT !.deps = depsD] /\ Follows(s, t, in)
      BY <1>2, <1>5
    <3>4. /\ q.identity = t.identity /\ q.inflight = t.inflight
          /\ q.loading = t.loading /\ q.deps = depsD
      BY <3>3, <1>dd DEF HookState
    <3>5. Heard(c)
      <4>1. c.deps = depsD /\ c.deps # <<>> /\ c.deps[4] = in /\ c.deps[1] = sel.identity
        BY <3>2, <3>4, <1>f, <1>dd
      <4>2. ~in.enabled => c.inflight = 0 /\ c.loading /\ c.identity = NoKey
        BY <3>2, <3>3, <3>4 DEF Follows
      <4>3. in.enabled /\ ~in.hold => c.identity = sel.identity
        BY <3>2, <3>3, <3>4 DEF Follows
      <4> HIDE DEF c
      <4> QED  BY <4>1, <4>2, <4>3 DEF Heard
    <3>6. in.enabled => o.identity = sel.identity
      BY <1>9, <2>1
    <3>7. in.enabled => o.shownIdentity = sel.identity /\ o.data.range = RangeOf(o.shownPeriod)
      BY <3>6, <1>in, <1>w, <1>c DEF Labels
    <3>8. in.enabled /\ ~in.hold => in.bounds.range = RangeOf(sel.period)
      BY <3>7, <1>in DEF Stale
    <3>9. Suits(d)
      BY <3>8, <1>2, <1>in
    <3>10. Suits(first)
      <4>1. q.inflight # 0 => first.request[q.inflight] = d.request[q.inflight]
        BY <1>4, <1>5, <1>h DEF Apart
      <4> QED  BY <4>1, <3>9, <1>5 DEF Suits
    <3>11. c.identity \in {NoKey, sel.identity}
      <4>1. CASE ~in.enabled
        BY <4>1, <3>2, <3>3, <3>4 DEF Follows
      <4>2. CASE in.enabled /\ ~in.hold
        BY <4>2, <3>2, <3>3, <3>4 DEF Follows
      <4>3. CASE in.enabled /\ in.hold
        BY <4>3, <3>2, <3>3, <3>4, <3>6, <1>w DEF Follows
      <4> QED  BY <4>1, <4>2, <4>3, <1>in
    <3> QED  BY <3>2, <3>5, <3>10, <3>11
  <2>2. CASE in2 # in /\ ~in2.enabled
    <3>1. q.deps # depsE
      BY <2>2, <1>f, <1>g, <1>2, <1>5
    <3>2. PICK t \in HookState : c = [t EXCEPT !.deps = depsE] /\ Follows(q, t, in2)
      BY <3>1, <1>10
    <3>3. /\ c.identity = t.identity /\ c.inflight = t.inflight
          /\ c.loading = t.loading /\ c.deps = depsE
      BY <3>2, <1>7 DEF HookState
    <3>4. c.inflight = 0 /\ c.loading /\ c.identity = NoKey
      BY <2>2, <3>2, <3>3 DEF Follows
    <3>5. Heard(c)
      BY <3>3, <3>4, <1>7, <1>g, <2>2 DEF Heard
    <3>6. Suits(e)
      BY <3>4 DEF Suits
    <3> QED  BY <3>4, <3>5, <3>6
  <2> QED  BY <2>1, <2>2, <1>8
<1>14. Heard(p)
  BY <1>4, <1>6, <1>dd, <1>f, <1>u DEF Heard
<1>15. Together(e.hook)
  <2>1. e.hook["overview"].deps = depsO /\ c.deps = depsE
    BY <1>11, <1>4, <1>10
  <2>2. e.hook["overview"].identity = sel.identity
    BY <1>11, <1>6
  <2>3. /\ e.hook["overview"].deps # <<>> /\ c.deps # <<>> /\ e.hook["overview"].deps[4] = Unconditional
        /\ e.hook["overview"].deps[1] = c.deps[1] /\ e.hook["overview"].deps[2] = c.deps[2]
        /\ e.hook["overview"].deps[3] = c.deps[3]
    BY <2>1, <1>7, <1>dd, <1>f, <1>g
  <2> QED  BY <2>2, <2>3, <1>13 DEF Together
<1>16. \A h \in Hooks : Heard(e.hook[h])
  BY <1>h, <1>11, <1>13, <1>14
<1> QED  BY <1>10, <1>12, <1>13, <1>15, <1>16 DEF Page

-----------------------------------------------------------------------------
Work == [hook |-> hook, request |-> request, pending |-> cycle.pending]

HookInv == Selection /\ Page(Work)

LEMMA HooksAre == Hooks = {"overview", "details"} /\ "overview" # "details"
  BY DEF Hooks

LEMMA MountedIs ==
    /\ Mounted \in HookState /\ Labels(Mounted) /\ Heard(Mounted)
    /\ Mounted.inflight = 0 /\ Mounted.deps = <<>> /\ Mounted.identity = NoKey
<1>1. 0 \in 0..Slots
  BY HookAssumption
<1>2. Mounted \in HookState
  BY <1>1 DEF Mounted, HookState, ParamsType, DepsType, Data
<1> QED  BY <1>2 DEF Mounted, Labels, Heard

\* A page without requests, just mounted.
LEMMA MountedPage ==
    ASSUME NEW req \in [1..Slots -> Requests], \A n \in 1..Slots : ~req[n].live,
           NEW pending, pending = 0
    PROVE  Page([hook |-> [h \in Hooks |-> Mounted], request |-> req, pending |-> pending])
<1> DEFINE v == [hook |-> [h \in Hooks |-> Mounted], request |-> req, pending |-> pending]
<1>1. /\ v.hook = [h \in Hooks |-> Mounted] /\ v.request = req /\ v.pending = 0
      /\ \A h \in Hooks : v.hook[h] = Mounted
  OBVIOUS
<1>2. v \in Works
  BY MountedIs DEF Works
<1> HIDE DEF v
<1>3. v.pending = Cardinality(Counted(v.request))
  <2>1. Counted(req) = {}
    BY DEF Counted
  <2> QED  BY <2>1, <1>1, FS_EmptySet
<1>4. Sound(v)
  BY <1>1, <1>2, <1>3, MountedIs DEF Sound, Tracked
<1>5. Suits(v)
  BY <1>1, MountedIs, HooksAre DEF Suits
<1>6. Together(v.hook)
  BY <1>1, MountedIs, HooksAre DEF Together
<1>7. Page(v)
  BY <1>1, <1>4, <1>5, <1>6, MountedIs DEF Page
<1> QED  BY <1>7 DEF v

LEMMA HookInitInv == HookInit => HookInv
<1> SUFFICES ASSUME HookInit  PROVE HookInv
  OBVIOUS
<1> USE DEF HookInit
<1>1. Selection
  <2>1. (CHOOSE i \in Identities : TRUE) \in Identities /\ (CHOOSE p \in Periods : TRUE) \in Periods
    BY HookAssumption
  <2>2. 0 \in 0..MaxSelections /\ 0 \in 0..MaxWindow /\ 0 \in 0..MaxTicks
    BY HookAssumption
  <2> QED  BY <2>1, <2>2 DEF Selection, DefaultSelection
<1>2. request \in [1..Slots -> Requests] /\ \A n \in 1..Slots : ~request[n].live
  BY DEF Requests, Free
<1>3. Work = [hook |-> [h \in Hooks |-> Mounted], request |-> request, pending |-> 0]
  BY DEF Work
<1>4. Page(Work)
  BY <1>2, <1>3, MountedPage
<1> QED  BY <1>1, <1>4 DEF HookInv

LEMMA WorkFields ==
    /\ Work.hook = hook /\ Work.request = request /\ Work.pending = cycle.pending
    /\ (Page(Work) => /\ hook \in [Hooks -> HookState] /\ request \in [1..Slots -> Requests]
                      /\ cycle.pending = Cardinality(Counted(request))
                      /\ Sound(Work))
  BY DEF Work, Page, Sound, Works

LEMMA RenderInv ==
    ASSUME HookInv, Render
    PROVE  HookInv'
<1>1. PICK w \in {[hook |-> hook, request |-> request, pending |-> cycle.pending]} :
       \E d \in {Run(w, w, "details")} : \E first \in {Run(w, d, "overview")} :
       \E e \in {Run(first, first, "details")} : \E last \in {Run(first, e, "overview")} :
            /\ hook' = last.hook /\ request' = last.request
            /\ cycle' = [cycle EXCEPT !.pending = last.pending]
  BY DEF Render
<1>2. PICK d \in {Run(w, w, "details")} : \E first \in {Run(w, d, "overview")} :
       \E e \in {Run(first, first, "details")} : \E last \in {Run(first, e, "overview")} :
            /\ hook' = last.hook /\ request' = last.request
            /\ cycle' = [cycle EXCEPT !.pending = last.pending]
  BY <1>1
<1>3. PICK first \in {Run(w, d, "overview")} :
       \E e \in {Run(first, first, "details")} : \E last \in {Run(first, e, "overview")} :
            /\ hook' = last.hook /\ request' = last.request
            /\ cycle' = [cycle EXCEPT !.pending = last.pending]
  BY <1>2
<1>4. PICK e \in {Run(first, first, "details")} : \E last \in {Run(first, e, "overview")} :
            /\ hook' = last.hook /\ request' = last.request
            /\ cycle' = [cycle EXCEPT !.pending = last.pending]
  BY <1>3
<1>5. PICK last \in {Run(first, e, "overview")} :
            /\ hook' = last.hook /\ request' = last.request
            /\ cycle' = [cycle EXCEPT !.pending = last.pending]
  BY <1>4
<1>6. /\ w = Work /\ d = Run(w, w, "details") /\ first = Run(w, d, "overview")
      /\ e = Run(first, first, "details") /\ last = Run(first, e, "overview")
  BY <1>1, <1>2, <1>3, <1>4, <1>5 DEF Work
<1>7. PICK m1, m2 \in 1..Slots : m1 # m2 /\ request[m1] = Free /\ request[m2] = Free
  <2> DEFINE F == {n \in 1..Slots : request[n] = Free}
  <2>1. IsFiniteSet(F) /\ Cardinality(F) \in Nat /\ Cardinality(F) >= 3
    <3>1. IsFiniteSet(1..Slots)
      BY FS_Interval, HookAssumption
    <3>2. F \in SUBSET (1..Slots)
      OBVIOUS
    <3>3. Cardinality(F) >= 3
      BY DEF Render
    <3> QED  BY <3>1, <3>2, <3>3, FS_Subset, FS_CardinalityType
  <2> HIDE DEF F
  <2>2. F # {}
    BY <2>1, FS_EmptySet
  <2>3. PICK m1 \in F : TRUE
    BY <2>2
  <2>4. IsFiniteSet(F \ {m1}) /\ Cardinality(F \ {m1}) = Cardinality(F) - 1
    BY <2>1, <2>3, FS_RemoveElement
  <2>5. F \ {m1} # {}
    BY <2>1, <2>4, FS_EmptySet
  <2> QED  BY <2>3, <2>5 DEF F
<1>8. Selection /\ Page(w) /\ w.hook = hook /\ w.request = request
  BY <1>6, WorkFields DEF HookInv
<1>9. \E h \in Hooks : w.hook[h].deps # Deps(w.hook, h)
  BY <1>8 DEF Render, Rendered
<1>10. Page(last)
  BY <1>6, <1>7, <1>8, <1>9, RenderPage
<1>11. sel' = sel /\ window' = window
  BY DEF Render
<1>12. cycle'.pending = last.pending /\ cycle'.tick = cycle.tick /\ cycle'.skipNext = cycle.skipNext
       /\ cycle' \in [tick : 0..MaxTicks, skipNext : BOOLEAN, pending : Nat]
  <2>1. last.pending \in Nat
    <3>1. last.pending = Cardinality(Counted(last.request))
      BY <1>10 DEF Page, Sound
    <3> QED  BY <3>1, CountedFinite
  <2> QED  BY <2>1, <1>5, <1>8 DEF Selection
<1>13. Work' = last
  <2>1. Work' = [hook |-> last.hook, request |-> last.request, pending |-> last.pending]
    BY <1>5, <1>12 DEF Work
  <2>2. last \in Works
    BY <1>10 DEF Page, Sound
  <2> QED  BY <2>1, <2>2 DEF Works
<1>14. Selection'
  BY <1>8, <1>11, <1>12 DEF Selection
<1>15. Page(last)'
  BY <1>10
<1> QED  BY <1>10, <1>13, <1>14 DEF HookInv

LEMMA SelectInv ==
    ASSUME HookInv, Select
    PROVE  HookInv'
<1>1. Work' = Work
  BY DEF Select, Work
<1>2. Selection'
  BY HookAssumption DEF Select, HookInv, Selection
<1> QED  BY <1>1, <1>2 DEF HookInv

LEMMA WindowMovesInv ==
    ASSUME HookInv, WindowMoves
    PROVE  HookInv'
<1>1. Work' = Work
  BY DEF WindowMoves, Work
<1>2. Selection'
  BY HookAssumption DEF WindowMoves, HookInv, Selection
<1> QED  BY <1>1, <1>2 DEF HookInv

LEMMA TimerInv ==
    ASSUME HookInv, Timer \/ RefreshNow
    PROVE  HookInv'
<1>c. cycle \in [tick : 0..MaxTicks, skipNext : BOOLEAN, pending : Nat]
  BY DEF HookInv, Selection
<1>1. cycle' \in [tick : 0..MaxTicks, skipNext : BOOLEAN, pending : Nat] /\ cycle'.pending = cycle.pending
  <2>1. cycle.tick \in 0..MaxTicks /\ cycle.tick < MaxTicks /\ MaxTicks \in Nat
    BY <1>c, HookAssumption DEF Timer, RefreshNow
  <2>2. cycle.tick + 1 \in 0..MaxTicks
    BY <2>1
  <2>3. \/ cycle' = [cycle EXCEPT !.skipNext = FALSE]
        \/ cycle' = [cycle EXCEPT !.tick = cycle.tick + 1]
    BY DEF Timer, RefreshNow
  <2>4. CASE cycle' = [cycle EXCEPT !.skipNext = FALSE]
    BY <2>4, <1>c
  <2>5. CASE cycle' = [cycle EXCEPT !.tick = cycle.tick + 1]
    BY <2>5, <2>2, <1>c
  <2> QED  BY <2>3, <2>4, <2>5
<1>2. hook' = hook /\ request' = request /\ sel' = sel /\ window' = window
  BY DEF Timer, RefreshNow
<1>3. Work' = Work
  BY <1>1, <1>2 DEF Work
<1>4. Selection'
  BY <1>1, <1>2 DEF HookInv, Selection
<1> QED  BY <1>3, <1>4 DEF HookInv

LEMMA RevisitInv ==
    ASSUME HookInv, Revisit
    PROVE  HookInv'
<1> DEFINE a == Abort(Work, "details")
           w == Abort(a, "overview")
<1>1. Sound(Work)
  BY DEF HookInv, Page
<1>2. GivenUp(Work, a, "details")
  BY <1>1, AbortGivesUp, HooksAre
<1>3. Sound(a)
  BY <1>2 DEF GivenUp
<1>4. GivenUp(a, w, "overview")
  BY <1>3, AbortGivesUp, HooksAre
<1>5. /\ hook' = [h \in Hooks |-> Mounted] /\ request' = w.request
      /\ cycle' = [cycle EXCEPT !.pending = w.pending] /\ window' = window
      /\ sel.count < MaxSelections /\ sel' = [sel EXCEPT !.count = @ + 1]
  BY DEF Revisit, Work
<1> HIDE DEF w, a
<1>6. w \in Works /\ Sound(w) /\ \A h \in Hooks : w.hook[h].inflight = 0
  <2>1. Sound(w) /\ w \in Works /\ a \in Works /\ Work \in Works
    BY <1>1, <1>3, <1>4 DEF GivenUp, Sound
  <2>2. w.hook["overview"].inflight = 0
    BY <1>4, <2>1, HooksAre DEF GivenUp, Works, HookState
  <2>3. w.hook["details"].inflight = 0
    BY <1>2, <1>4, <2>1, HooksAre DEF GivenUp, Works, HookState
  <2> QED  BY <2>1, <2>2, <2>3, HooksAre
<1>7. ASSUME NEW n \in 1..Slots
      PROVE  ~w.request[n].live
  <2> SUFFICES ASSUME w.request[n].live  PROVE FALSE
    OBVIOUS
  <2>1. w.request[n].hook \in Hooks
    BY <1>6, RequestFields DEF Works, Request
  <2>2. w.hook[w.request[n].hook].inflight = n /\ n # 0
    BY <1>6, HookAssumption DEF Sound, Tracked
  <2> QED  BY <2>1, <2>2, <1>6
<1>8. w.pending = 0
  <2>1. Counted(w.request) = {}
    BY <1>7 DEF Counted
  <2> QED  BY <2>1, <1>6, FS_EmptySet DEF Sound
<1>9. w.request \in [1..Slots -> Requests]
  BY <1>6 DEF Works
<1>10. Page([hook |-> [h \in Hooks |-> Mounted], request |-> w.request, pending |-> w.pending])
  BY <1>7, <1>8, <1>9, MountedPage
<1>11. cycle' \in [tick : 0..MaxTicks, skipNext : BOOLEAN, pending : Nat] /\ cycle'.pending = w.pending
  BY <1>5, <1>8 DEF HookInv, Selection
<1>12. Work' = [hook |-> [h \in Hooks |-> Mounted], request |-> w.request, pending |-> w.pending]
  BY <1>5, <1>11 DEF Work
<1>13. Selection'
  BY <1>5, <1>11, HookAssumption DEF HookInv, Selection
<1> QED  BY <1>10, <1>12, <1>13 DEF HookInv

\* What is shown once the request of slot n ended: t, when it was the hook's own.
Ended(w, n, t) ==
    [hook |-> IF w.request[n].live THEN [w.hook EXCEPT ![w.request[n].hook] = t] ELSE w.hook,
     request |-> [w.request EXCEPT ![n] = Free],
     pending |-> w.pending - (IF w.request[n].live /\ w.request[n].retain THEN 1 ELSE 0)]

\* The state after an answer keeps what the effect asked for.
Answered(s, t) ==
    /\ t \in HookState /\ Labels(t) /\ t.inflight = 0
    /\ t.deps = s.deps /\ t.identity = s.identity /\ t.period = s.period

LEMMA EndPage ==
    ASSUME NEW w, Page(w), NEW n \in 1..Slots, w.request[n] # Free, NEW t,
           w.request[n].live => Answered(w.hook[w.request[n].hook], t)
    PROVE  Page(Ended(w, n, t))
<1> DEFINE r == w.request[n]
           h == r.hook
           s == w.hook[h]
           v == Ended(w, n, t)
<1>w. /\ Sound(w) /\ w.hook \in [Hooks -> HookState] /\ w.request \in [1..Slots -> Requests]
      /\ w.pending \in Int /\ n # 0 /\ Suits(w) /\ Together(w.hook)
      /\ \A g \in Hooks : Heard(w.hook[g])
  BY HookAssumption DEF Page, Sound, Works
<1>r. r \in Request /\ h \in Hooks /\ r.live \in BOOLEAN /\ r.retain \in BOOLEAN
  <2>1. r \in Requests /\ r # Free
    BY <1>w
  <2> HIDE DEF r
  <2>2. r \in Request
    BY <2>1, RequestFields
  <2> QED  BY <2>2 DEF Request
<1>t. r.live => s.inflight = n
  BY <1>w DEF Sound, Tracked
<1>1. /\ v.hook = IF r.live THEN [w.hook EXCEPT ![h] = t] ELSE w.hook
      /\ v.request = [w.request EXCEPT ![n] = Free]
      /\ v.pending = w.pending - (IF r.live /\ r.retain THEN 1 ELSE 0)
      /\ v = [hook |-> v.hook, request |-> v.request, pending |-> v.pending]
  BY DEF Ended
<1> HIDE DEF v
<1>2. \A g \in Hooks : v.hook[g] = IF r.live /\ g = h THEN t ELSE w.hook[g]
  BY <1>1, <1>w, <1>r
<1>3. v.request[n] = Free /\ \A m \in 1..Slots : m # n => v.request[m] = w.request[m]
  BY <1>1, <1>w
<1>4. v \in Works
  <2>1. v.hook \in [Hooks -> HookState]
    BY <1>1, <1>w, <1>r DEF Answered
  <2>2. v.request \in [1..Slots -> Requests]
    BY <1>1, <1>w DEF Requests
  <2>3. v.pending \in Int
    BY <1>1, <1>w
  <2> HIDE DEF r
  <2> QED  BY <1>1, <2>1, <2>2, <2>3 DEF Works
<1>5. v.pending = Cardinality(Counted(v.request))
  <2>1. w.pending = Cardinality(Counted(w.request)) /\ IsFiniteSet(Counted(w.request))
        /\ Cardinality(Counted(w.request)) \in Nat
    BY <1>w, CountedFinite DEF Sound
  <2>2. Counted(v.request) = Counted(w.request) \ {n}
    BY <1>3 DEF Counted, Free
  <2>3. n \in Counted(w.request) <=> r.live /\ r.retain
    BY DEF Counted
  <2>4. Cardinality(Counted(w.request) \ {n})
          = IF n \in Counted(w.request) THEN Cardinality(Counted(w.request)) - 1
                                        ELSE Cardinality(Counted(w.request))
    BY <2>1, FS_RemoveElement
  <2> QED  BY <2>1, <2>2, <2>3, <2>4, <1>1, <1>r
<1>6. \A g \in Hooks : r.live /\ g = h => v.hook[g].inflight = 0
  BY <1>2 DEF Answered
<1>7. \A g \in Hooks : ~(r.live /\ g = h) => v.hook[g] = w.hook[g]
  BY <1>2
\* The slot that ends belongs to no other hook.
<1>8. ASSUME NEW g \in Hooks, v.hook[g].inflight # 0
      PROVE  /\ v.hook[g] = w.hook[g] /\ w.hook[g].inflight # 0
             /\ Sends(g, w.hook[g], w.request[w.hook[g].inflight])
             /\ v.request[w.hook[g].inflight] = w.request[w.hook[g].inflight]
  <2>1. v.hook[g] = w.hook[g] /\ w.hook[g].inflight # 0
    BY <1>8, <1>6, <1>7
  <2>2. Sends(g, w.hook[g], w.request[w.hook[g].inflight])
    BY <2>1, <1>w DEF Sound
  <2>3. w.hook[g].inflight # n
    <3> SUFFICES ASSUME w.hook[g].inflight = n  PROVE FALSE
      OBVIOUS
    <3>1. r.live /\ g = h
      BY <2>2 DEF Sends
    <3> QED  BY <3>1, <1>6, <1>8
  <2>4. w.hook[g].inflight \in 1..Slots
    BY <2>1, <1>w, HookAssumption DEF HookState
  <2> QED  BY <2>1, <2>2, <2>3, <2>4, <1>3
<1>9. ASSUME NEW m \in 1..Slots
      PROVE  Tracked(v, m)
  <2> SUFFICES ASSUME v.request[m].live
               PROVE  v.hook[v.request[m].hook].inflight = m
    BY DEF Tracked
  <2>1. m # n
    BY <1>3 DEF Free
  <2>2. v.request[m] = w.request[m] /\ w.request[m].live
    BY <2>1, <1>3
  <2>3. w.hook[w.request[m].hook].inflight = m
    BY <2>2, <1>w DEF Sound, Tracked
  <2>4. w.request[m].hook \in Hooks
    BY <2>2, <1>w, RequestFields DEF Request
  <2>5. ~(r.live /\ w.request[m].hook = h)
    BY <2>1, <2>3, <1>t
  <2> QED  BY <2>2, <2>3, <2>4, <2>5, <1>7
<1>10. ASSUME NEW g \in Hooks
       PROVE  Labels(v.hook[g])
  <2>1. CASE r.live /\ g = h
    BY <2>1, <1>2 DEF Answered
  <2>2. CASE ~(r.live /\ g = h)
    BY <2>2, <1>7, <1>w DEF Sound
  <2> QED  BY <2>1, <2>2
<1>11. Sound(v)
  BY <1>4, <1>5, <1>8, <1>9, <1>10 DEF Sound
<1>12. Suits(v)
  <2>1. v.hook["details"].inflight # 0 =>
          v.request[v.hook["details"].inflight] = w.request[w.hook["details"].inflight]
          /\ w.hook["details"] = v.hook["details"]
    BY <1>8, HooksAre
  <2> QED  BY <2>1, <1>w DEF Suits
<1>13. \A g \in Hooks : /\ v.hook[g].deps = w.hook[g].deps /\ v.hook[g].identity = w.hook[g].identity
                        /\ v.hook[g].period = w.hook[g].period
  BY <1>2 DEF Answered
<1>14. Together(v.hook)
  BY <1>13, <1>w, HooksAre DEF Together
<1>15. ASSUME NEW g \in Hooks
       PROVE  Heard(v.hook[g])
  <2>1. CASE r.live /\ g = h
    <3>1. w.hook[g].inflight # 0 /\ Heard(w.hook[g])
      BY <2>1, <1>t, <1>w
    <3>2. w.hook[g].deps # <<>> /\ w.hook[g].deps[4].enabled
      BY <3>1 DEF Heard
    <3> QED  BY <3>1, <3>2, <1>13 DEF Heard
  <2>2. CASE ~(r.live /\ g = h)
    BY <2>2, <1>7, <1>w
  <2> QED  BY <2>1, <2>2
<1>16. Page(v)
  BY <1>11, <1>12, <1>14, <1>15 DEF Page
<1> QED  BY <1>16 DEF v

\* A hook's own request is the one that is live.
LEMMA CurrentIsLive ==
    ASSUME HookInv, NEW n \in 1..Slots, request[n] # Free
    PROVE  /\ Current(n) <=> request[n].live
           /\ request[n] \in Request /\ request[n].hook \in Hooks /\ n # 0
           /\ hook[request[n].hook] \in HookState /\ Labels(hook[request[n].hook])
           /\ Current(n) => /\ Sends(request[n].hook, hook[request[n].hook], request[n])
                            /\ hook[request[n].hook].inflight = n
<1>1. Page(Work) /\ Sound(Work) /\ request \in [1..Slots -> Requests] /\ hook \in [Hooks -> HookState]
      /\ Work.hook = hook /\ Work.request = request
  BY WorkFields DEF HookInv
<1>2. request[n] \in Request /\ request[n].hook \in Hooks /\ n # 0
  BY <1>1, RequestFields, HookAssumption DEF Request
<1>3. request[n].live => hook[request[n].hook].inflight = n
  BY <1>1 DEF Sound, Tracked
<1>4. Current(n) <=> request[n].live
  BY <1>3 DEF Current
<1>5. Current(n) => Sends(request[n].hook, hook[request[n].hook], request[n])
  BY <1>1, <1>2, <1>3, <1>4 DEF Sound
<1>6. Labels(hook[request[n].hook])
  BY <1>1, <1>2 DEF Sound
<1> QED  BY <1>1, <1>2, <1>3, <1>4, <1>5, <1>6

\* The numbers that an answer brings.
LEMMA ContentIs ==
    ASSUME HookInv, NEW n \in 1..Slots, request[n] # Free, Current(n)
    PROVE  /\ request[n].content \in Data /\ request[n].content # NoData
           /\ request[n].identity \in Identities
           /\ request[n].content.identity = request[n].identity
           /\ request[n].content.range = RangeOf(request[n].period)
<1> DEFINE r == request[n]
<1>1. r \in Request /\ r.hook \in Hooks /\ Sends(r.hook, hook[r.hook], r) /\ hook[r.hook].inflight = n
      /\ n # 0
  BY CurrentIsLive
<1>2. r.content \in Data /\ r.identity \in Identities /\ r.content.identity = r.identity
      /\ (r.hook = "overview" => r.content.range = RangeOf(r.period))
  BY <1>1 DEF Request, Sends
<1>3. r.content # NoData
  BY <1>2, HookAssumption DEF NoData
<1>4. r.hook = "details" => r.content.range = RangeOf(r.period)
  <2>1. Suits(Work) /\ Work.hook = hook /\ Work.request = request
    BY WorkFields DEF HookInv, Page
  <2> QED  BY <2>1, <1>1 DEF Suits
<1> QED  BY <1>1, <1>2, <1>3, <1>4, HooksAre

\* The step of an end, in terms of the page.
LEMMA EndInv ==
    ASSUME HookInv, NEW n \in 1..Slots, request[n] # Free, NEW t,
           Current(n) => Answered(hook[request[n].hook], t),
           hook' = IF ~Current(n) THEN hook ELSE [hook EXCEPT ![request[n].hook] = t],
           request' = [request EXCEPT ![n] = Free],
           cycle'.pending = Finished(n),
           cycle'.pending \in Nat => Selection'
    PROVE  HookInv'
<1>1. /\ Page(Work) /\ Work.hook = hook /\ Work.request = request /\ Work.pending = cycle.pending
  BY WorkFields DEF HookInv
<1>2. Current(n) <=> request[n].live
  BY CurrentIsLive
<1>3. Page(Ended(Work, n, t))
  BY <1>1, <1>2, EndPage
<1>4. Work' = Ended(Work, n, t)
  <2>1. hook' = IF request[n].live THEN [hook EXCEPT ![request[n].hook] = t] ELSE hook
    BY <1>2
  <2> QED  BY <2>1, <1>1 DEF Ended, Work, Finished
<1>5. cycle'.pending \in Nat
  <2>1. Page(Work')
    BY <1>3, <1>4
  <2>2. Work'.pending = Cardinality(Counted(Work'.request))
    BY <2>1 DEF Page, Sound
  <2>3. Work'.pending = cycle'.pending
    BY DEF Work
  <2> QED  BY <2>2, <2>3, CountedFinite
<1> QED  BY <1>3, <1>4, <1>5 DEF HookInv

LEMMA SucceedInv ==
    ASSUME HookInv, NEW n \in 1..Slots, Succeed(n)
    PROVE  HookInv'
<1> DEFINE r == request[n]
           s == hook[r.hook]
           t == [s EXCEPT !.inflight = 0, !.pendingPeriod = FALSE, !.payload = r.content,
                          !.data = IF r.content = s.payload THEN s.data ELSE r.content,
                          !.loading = FALSE, !.error = FALSE,
                          !.shownIdentity = r.identity, !.shownPeriod = r.period]
<1>1. /\ r # Free
      /\ hook' = IF ~Current(n) THEN hook ELSE [hook EXCEPT ![r.hook] = t]
      /\ request' = [request EXCEPT ![n] = Free]
      /\ cycle' = [cycle EXCEPT !.pending = Finished(n)]
      /\ sel' = sel /\ window' = window
  BY DEF Succeed
<1>2. Current(n) => Answered(s, t)
  <2> SUFFICES ASSUME Current(n)  PROVE Answered(s, t)
    OBVIOUS
  <2>1. /\ r.content \in Data /\ r.content # NoData /\ r.identity \in Identities
        /\ r.content.identity = r.identity /\ r.content.range = RangeOf(r.period)
    BY <1>1, ContentIs
  <2>2. s \in HookState /\ Labels(s) /\ r.identity = s.identity /\ r \in Request
    BY <1>1, CurrentIsLive DEF Sends
  <2>d. (IF r.content = s.payload THEN s.data ELSE r.content) = r.content
    BY <2>1, <2>2 DEF Labels
  <2>3. t = [s EXCEPT !.inflight = 0, !.pendingPeriod = FALSE, !.payload = r.content,
                      !.data = r.content, !.loading = FALSE, !.error = FALSE,
                      !.shownIdentity = r.identity, !.shownPeriod = r.period]
    BY <2>d
  <2> HIDE DEF t
  <2>4. t \in HookState
    <3>1. 0 \in 0..Slots /\ r.period \in Periods
      BY <2>2, HookAssumption DEF Request
    <3> HIDE DEF r, s
    <3> QED  BY <2>1, <2>2, <2>3, <3>1 DEF HookState
  <2>5. /\ t.inflight = 0 /\ t.deps = s.deps /\ t.identity = s.identity /\ t.period = s.period
        /\ t.payload = r.content /\ t.data = r.content /\ t.pendingPeriod = FALSE
        /\ t.shownIdentity = r.identity /\ t.shownPeriod = r.period /\ t.params = s.params
    <3> HIDE DEF r, s
    <3> QED  BY <2>2, <2>3 DEF HookState
  <2>6. Labels(t)
    BY <2>1, <2>2, <2>5, HookAssumption DEF Labels
  <2> QED  BY <2>4, <2>5, <2>6 DEF Answered
<1>3. cycle'.pending = Finished(n)
      /\ (cycle'.pending \in Nat => Selection')
  BY <1>1 DEF HookInv, Selection
<1> HIDE DEF t
<1> QED  BY <1>1, <1>2, <1>3, EndInv

LEMMA FailInv ==
    ASSUME HookInv, NEW n \in 1..Slots, Fail(n)
    PROVE  HookInv'
<1> DEFINE r == request[n]
           s == hook[r.hook]
           clears == r.clears \/ s.pendingPeriod
           settled == [s EXCEPT !.inflight = 0, !.loading = FALSE]
           emptied == [settled EXCEPT !.pendingPeriod = FALSE, !.data = NoData, !.error = TRUE,
                                      !.shownIdentity = NoKey, !.shownPeriod = NoKey]
           t == IF clears \/ s.data = NoData THEN emptied ELSE settled
<1>1. /\ r # Free
      /\ hook' = IF ~Current(n) THEN hook ELSE [hook EXCEPT ![r.hook] = t]
      /\ request' = [request EXCEPT ![n] = Free]
      /\ cycle' = [cycle EXCEPT !.pending = Finished(n),
                                !.skipNext = @ \/ (Current(n) /\ ~clears)]
      /\ sel' = sel /\ window' = window
  BY DEF Fail
<1>2. Current(n) => Answered(s, t)
  <2> SUFFICES ASSUME Current(n)  PROVE Answered(s, t)
    OBVIOUS
  <2>1. r.identity \in Identities /\ r.identity # NoKey
    BY <1>1, ContentIs, HookAssumption
  <2>2. /\ s \in HookState /\ Labels(s) /\ r.identity = s.identity
        /\ r.clears => s.data = NoData
    BY <1>1, CurrentIsLive DEF Sends
  <2> HIDE DEF s, r
  <2>3. /\ settled \in HookState /\ settled.inflight = 0 /\ settled.deps = s.deps
        /\ settled.identity = s.identity /\ settled.period = s.period
        /\ settled.payload = s.payload /\ settled.data = s.data
        /\ settled.pendingPeriod = s.pendingPeriod /\ settled.params = s.params
        /\ settled.shownIdentity = s.shownIdentity /\ settled.shownPeriod = s.shownPeriod
    <3>1. 0 \in 0..Slots
      BY HookAssumption
    <3>2. settled = [s EXCEPT !.inflight = 0, !.loading = FALSE]
      OBVIOUS
    <3> HIDE DEF settled
    <3>3. settled \in HookState
      BY <3>1, <3>2, <2>2 DEF HookState
    <3> QED  BY <3>2, <3>3, <2>2 DEF HookState
  <2>4. Labels(settled)
    BY <2>1, <2>2, <2>3 DEF Labels
  <2>5. Answered(s, settled)
    BY <2>3, <2>4 DEF Answered
  <2> HIDE DEF settled
  <2>6. /\ emptied \in HookState /\ emptied.inflight = 0 /\ emptied.deps = s.deps
        /\ emptied.identity = s.identity /\ emptied.period = s.period
        /\ emptied.payload = s.payload /\ emptied.data = NoData
        /\ emptied.pendingPeriod = FALSE /\ emptied.params = s.params
    BY <2>3 DEF HookState, Data
  <2>7. clears \/ s.data = NoData => s.payload = NoData
    BY <2>2 DEF Labels
  <2>8. clears \/ s.data = NoData => Answered(s, emptied)
    BY <2>1, <2>2, <2>6, <2>7 DEF Answered, Labels
  <2> QED  BY <2>5, <2>8
<1>3. cycle'.pending = Finished(n)
      /\ (cycle'.pending \in Nat => Selection')
  <2>1. cycle \in [tick : 0..MaxTicks, skipNext : BOOLEAN, pending : Nat]
    BY DEF HookInv, Selection
  <2>2. (cycle.skipNext \/ (Current(n) /\ ~clears)) \in BOOLEAN
    OBVIOUS
  <2> DEFINE b == cycle.skipNext \/ (Current(n) /\ ~clears)
  <2>3. cycle' = [cycle EXCEPT !.pending = Finished(n), !.skipNext = b] /\ b \in BOOLEAN
    BY <1>1
  <2> HIDE DEF b
  <2>4. cycle'.pending = Finished(n)
        /\ (cycle'.pending \in Nat => cycle' \in [tick : 0..MaxTicks, skipNext : BOOLEAN, pending : Nat])
    BY <2>1, <2>3
  <2> QED  BY <2>4, <1>1 DEF HookInv, Selection
<1> HIDE DEF t
<1> QED  BY <1>1, <1>2, <1>3, EndInv

LEMMA HookNextInv == HookInv /\ [HookNext]_hookVars => HookInv'
<1> SUFFICES ASSUME HookInv, [HookNext]_hookVars  PROVE HookInv'
  OBVIOUS
<1>1. CASE Render
  BY <1>1, RenderInv
<1>2. CASE Select
  BY <1>2, SelectInv
<1>3. CASE Revisit
  BY <1>3, RevisitInv
<1>4. CASE WindowMoves
  BY <1>4, WindowMovesInv
<1>5. CASE Timer \/ RefreshNow
  BY <1>5, TimerInv
<1>6. ASSUME NEW n \in 1..Slots, Succeed(n)
      PROVE  HookInv'
  BY <1>6, SucceedInv
<1>7. ASSUME NEW n \in 1..Slots, Fail(n)
      PROVE  HookInv'
  BY <1>7, FailInv
<1>8. CASE UNCHANGED hookVars
  BY <1>8 DEF hookVars, HookInv, Selection, Work
<1> QED  BY <1>1, <1>2, <1>3, <1>4, <1>5, <1>6, <1>7, <1>8 DEF HookNext

\* The inductive invariant: what each hook shows, asks for and has sent belong together.
THEOREM HooksStaySound == HookSpec => []HookInv
BY HookInitInv, HookNextInv, PTL DEF HookSpec

\* The refresh indicator counts exactly the refreshes under way (RefreshContext.jsx's
\* pendingRequests, however often useApi.js finishes a request).
THEOREM HooksTyped == HookSpec => []TypeOK
<1>1. HookInv => TypeOK
  <2> SUFFICES ASSUME HookInv  PROVE TypeOK
    OBVIOUS
  <2>1. /\ hook \in [Hooks -> HookState] /\ request \in [1..Slots -> Requests] /\ Selection
        /\ Sound(Work) /\ cycle.pending = Cardinality(Counted(request))
        /\ Work.hook = hook /\ Work.request = request
    BY WorkFields DEF HookInv
  <2>2. ASSUME NEW h \in Hooks
        PROVE  /\ {hook[h].data, hook[h].payload} \subseteq Data
               /\ {hook[h].identity, hook[h].shownIdentity} \subseteq Identities \cup {NoKey}
               /\ {hook[h].period, hook[h].shownPeriod} \subseteq Periods \cup {NoKey}
               /\ {hook[h].loading, hook[h].error, hook[h].pendingPeriod} \subseteq BOOLEAN
               /\ hook[h].inflight # 0
                  => request[hook[h].inflight].hook = h /\ request[hook[h].inflight].live
    <3>1. hook[h] \in HookState
      BY <2>1
    <3>2. hook[h].inflight # 0 => Sends(h, hook[h], request[hook[h].inflight])
      BY <2>1 DEF Sound
    <3> QED  BY <3>1, <3>2 DEF HookState, Sends
  <2>3. cycle.pending = Cardinality({n \in 1..Slots : request[n].live /\ request[n].retain})
    BY <2>1 DEF Counted
  <2> QED  BY <2>1, <2>2, <2>3 DEF TypeOK, Selection
<1> QED  BY <1>1, HooksStaySound, PTL

\* What a rendered hook asks for, when it is enabled and not on hold, is the selection.
LEMMA RenderedAsks ==
    ASSUME HookInv, Rendered, NEW h \in Hooks
    PROVE  /\ ~Inputs(hook, h).enabled => hook[h].loading
           /\ Inputs(hook, h).enabled /\ ~Inputs(hook, h).hold
              => hook[h].identity = sel.identity
           /\ Inputs(hook, "overview") = Unconditional
           /\ Inputs(hook, "details").hold = Stale(hook["overview"])
<1>1. hook \in [Hooks -> HookState] /\ Heard(hook[h]) /\ Selection
  BY WorkFields DEF HookInv, Page
<1>2. hook[h].deps = <<sel.identity, sel.period, cycle.tick, Inputs(hook, h)>> /\ hook[h].deps # <<>>
  BY <1>1, DepsAre DEF Rendered
<1>3. hook[h].deps[1] = sel.identity /\ hook[h].deps[4] = Inputs(hook, h)
  BY <1>2
<1> QED  BY <1>1, <1>2, <1>3, InputsAre DEF Heard

\* Numbers on screen that are not marked stale are of the selected filters and the selected
\* period's range, in the details (pages/Clients.jsx) as in the overview (useApi.js).
THEOREM SelectionIsShown == HookSpec => []ShownIsSelected
<1>1. HookInv => ShownIsSelected
  <2> SUFFICES ASSUME HookInv, Rendered, NEW h \in Hooks, Shows(h), ~Stale(hook[h])
               PROVE  hook[h].data.identity = sel.identity /\ hook[h].data.range = RangeOf(sel.period)
    BY DEF ShownIsSelected
  <2>1. hook[h] \in HookState /\ Labels(hook[h]) /\ hook[h].data # NoData /\ ~hook[h].loading
        /\ Together(hook) /\ Labels(hook["overview"])
    BY WorkFields, HooksAre DEF HookInv, Page, Sound, Shows
  <2>2. hook[h].identity # NoKey /\ hook[h].data.identity = hook[h].shownIdentity
        /\ hook[h].data.range = RangeOf(hook[h].shownPeriod) /\ hook[h].shownIdentity = hook[h].identity
    BY <2>1 DEF Labels
  <2>3. Inputs(hook, h).enabled
    BY <2>1, RenderedAsks
  <2>4. hook["overview"].identity = sel.identity
    BY RenderedAsks, HooksAre DEF Unconditional
  <2>5. hook[h].identity = sel.identity
    <3>1. CASE h = "overview"
      BY <3>1, <2>4
    <3>2. CASE h = "details"
      BY <3>2, <2>1, <2>2, <2>4 DEF Together
    <3> QED  BY <3>1, <3>2, HooksAre
  <2>6. hook[h].shownPeriod = sel.period
    BY <2>1, <2>2, <2>5 DEF Stale
  <2> QED  BY <2>2, <2>5, <2>6
<1> QED  BY <1>1, HooksStaySound, PTL

\* Numbers of the selection leave the screen only with the selection: no failure of a
\* refresh, or of another period's load, takes them once the hook has noted the selection
\* (useApi.js 134-147, 191-199).
THEOREM NumbersStay == HookSpec => FreshStays
<1>1. HookInv /\ [HookNext]_hookVars =>
        \A h \in Hooks :
          /\ Rendered /\ Shows(h) /\ ~Stale(hook[h]) /\ sel' = sel
          /\ hook[h].identity = sel.identity /\ hook[h].period = sel.period
          => hook'[h].data # NoData
  <2> SUFFICES ASSUME HookInv, [HookNext]_hookVars, NEW h \in Hooks, Rendered, Shows(h), sel' = sel,
                      ~Stale(hook[h]), hook[h].identity = sel.identity, hook[h].period = sel.period
               PROVE  hook'[h].data # NoData
    OBVIOUS
  <2>1. /\ hook \in [Hooks -> HookState] /\ hook[h] \in HookState /\ Labels(hook[h])
        /\ hook[h].data # NoData /\ ~hook[h].loading /\ sel.count \in 0..MaxSelections
        /\ sel \in [identity : Identities, period : Periods, count : 0..MaxSelections]
    BY WorkFields DEF HookInv, Page, Sound, Shows, Selection
  <2>2. hook[h].shownPeriod = hook[h].period
    <3>1. hook[h].identity # NoKey
      BY <2>1, HookAssumption
    <3>2. hook[h].shownIdentity = sel.identity
      BY <3>1, <2>1 DEF Labels
    <3> QED  BY <3>2, <2>1 DEF Stale
  <2>3. ~hook[h].pendingPeriod
    BY <2>1, <2>2 DEF Labels
  <2>4. CASE Render
    BY <2>4 DEF Render
  <2>5. CASE Select \/ Revisit
    <3>1. sel'.count = sel.count + 1
      BY <2>5, <2>1 DEF Select, Revisit
    <3> QED  BY <3>1, <2>1, HookAssumption
  <2>6. CASE hook' = hook
    BY <2>6, <2>1
  <2>7. ASSUME NEW n \in 1..Slots, Succeed(n)
        PROVE  hook'[h].data # NoData
    <3> DEFINE r == request[n]
               s == hook[r.hook]
               t == [s EXCEPT !.inflight = 0, !.pendingPeriod = FALSE, !.payload = r.content,
                              !.data = IF r.content = s.payload THEN s.data ELSE r.content,
                              !.loading = FALSE, !.error = FALSE,
                              !.shownIdentity = r.identity, !.shownPeriod = r.period]
    <3>1. r # Free /\ hook' = IF ~Current(n) THEN hook ELSE [hook EXCEPT ![r.hook] = t]
      BY <2>7 DEF Succeed
    <3>2. CASE ~Current(n) \/ r.hook # h
      BY <3>1, <3>2, <2>1
    <3>3. CASE Current(n) /\ r.hook = h
      <4>1. r.content # NoData
        BY <3>1, <3>3, ContentIs
      <4>2. t.data = IF r.content = s.payload THEN s.data ELSE r.content
        BY <3>3, <2>1 DEF HookState
      <4>3. t.data # NoData
        BY <4>1, <4>2, <3>3, <2>1
      <4>4. hook'[h] = t
        BY <3>1, <3>3, <2>1
      <4> QED  BY <4>3, <4>4
    <3> QED  BY <3>2, <3>3
  <2>8. ASSUME NEW n \in 1..Slots, Fail(n)
        PROVE  hook'[h].data # NoData
    <3> DEFINE r == request[n]
               s == hook[r.hook]
               clears == r.clears \/ s.pendingPeriod
               settled == [s EXCEPT !.inflight = 0, !.loading = FALSE]
               emptied == [settled EXCEPT !.pendingPeriod = FALSE, !.data = NoData, !.error = TRUE,
                                          !.shownIdentity = NoKey, !.shownPeriod = NoKey]
    <3>1. r # Free /\ hook' = IF ~Current(n) THEN hook
                              ELSE [hook EXCEPT ![r.hook] = IF clears \/ s.data = NoData
                                                            THEN emptied ELSE settled]
      BY <2>8 DEF Fail
    <3>2. CASE ~Current(n) \/ r.hook # h
      BY <3>1, <3>2, <2>1
    <3>3. CASE Current(n) /\ r.hook = h
      <4>1. ~r.clears
        BY <3>1, <3>3, <2>1, CurrentIsLive DEF Sends
      <4>2. hook'[h] = settled
        BY <4>1, <3>1, <3>3, <2>1, <2>3
      <4>3. settled.data = s.data
        BY <3>3, <2>1 DEF HookState
      <4> QED  BY <4>2, <4>3, <3>3, <2>1
    <3> QED  BY <3>2, <3>3
  <2>9. CASE WindowMoves \/ Timer \/ RefreshNow \/ UNCHANGED hookVars
    <3>1. hook' = hook
      BY <2>9 DEF WindowMoves, Timer, RefreshNow, hookVars
    <3> QED  BY <3>1, <2>6
  <2> QED  BY <2>4, <2>5, <2>7, <2>8, <2>9 DEF HookNext
<1> QED  BY <1>1, HooksStaySound, PTL DEF HookSpec, FreshStays
=============================================================================
