-------------------------- MODULE ResultCacheProofs ---------------------------
(***************************************************************************)
(* Theorems about ResultCache, for any keys, jobs, sizes and limits: what  *)
(* the cache keeps, which load owns which entry, and that it uses its      *)
(* budget as QueuedBudget says, whose theorems then hold of it.            *)
(***************************************************************************)
EXTENDS ResultCache, SumTheorems

-----------------------------------------------------------------------------
(* What entries hold in total. *)

IsMap(es) == es \in [DOMAIN es -> Entry] /\ IsFiniteSet(DOMAIN es)

LEMMA TotalFacts ==
    ASSUME NEW es, IsMap(es), NEW ks \in SUBSET (DOMAIN es)
    PROVE  /\ Total(es, ks) \in Nat
           /\ Total(es, DOMAIN es) = Total(es, ks) + Total(es, (DOMAIN es) \ ks)
<1> DEFINE f == [k \in DOMAIN es |-> es[k].bytes]
<1>1. \A k \in DOMAIN es : f[k] \in Nat
    BY DEF IsMap, Entry
<1>2. IsFiniteSet(DOMAIN es) /\ IsFiniteSet(ks)
    BY FS_Subset DEF IsMap
<1>3. Total(es, ks) = SumFunctionOnSet(f, ks) /\ Total(es, DOMAIN es) = SumFunctionOnSet(f, DOMAIN es)
      /\ Total(es, (DOMAIN es) \ ks) = SumFunctionOnSet(f, (DOMAIN es) \ ks)
    BY DEF Total
<1> HIDE DEF f
<1>4. SumFunctionOnSet(f, ks) \in Nat
    BY <1>1, <1>2, IterSums
<1> QED
    BY <1>1, <1>2, <1>3, <1>4, SumSplit

\* Only what the entries of ks hold matters.
LEMMA TotalSame ==
    ASSUME NEW es, NEW fs, NEW ks, IsFiniteSet(ks), ks \subseteq DOMAIN es, ks \subseteq DOMAIN fs,
           \A k \in ks : es[k].bytes \in Nat /\ es[k].bytes = fs[k].bytes
    PROVE  Total(es, ks) = Total(fs, ks)
<1> DEFINE f == [k \in DOMAIN es |-> es[k].bytes]
           g == [k \in DOMAIN fs |-> fs[k].bytes]
<1>1. \A k \in ks : f[k] \in Nat /\ f[k] = g[k]
    OBVIOUS
<1>2. Total(es, ks) = SumFunctionOnSet(f, ks) /\ Total(fs, ks) = SumFunctionOnSet(g, ks)
    BY DEF Total
<1> HIDE DEF f, g
<1> QED
    BY <1>1, <1>2, SumSame

LEMMA TotalWithout ==
    ASSUME NEW es, IsMap(es), NEW k \in DOMAIN es
    PROVE  Total(es, DOMAIN es) = es[k].bytes + Total(es, (DOMAIN es) \ {k})
<1> DEFINE f == [l \in DOMAIN es |-> es[l].bytes]
<1>1. \A l \in DOMAIN es : f[l] \in Nat
    BY DEF IsMap, Entry
<1>2. /\ Total(es, DOMAIN es) = SumFunctionOnSet(f, DOMAIN es) /\ f[k] = es[k].bytes
      /\ Total(es, (DOMAIN es) \ {k}) = SumFunctionOnSet(f, (DOMAIN es) \ {k})
    BY DEF Total
<1> HIDE DEF f
<1> QED
    BY <1>1, <1>2, SumRemove DEF IsMap

LEMMA TotalZero ==
    ASSUME NEW es, NEW ks \in SUBSET (DOMAIN es), IsFiniteSet(ks), \A k \in ks : es[k].bytes = 0
    PROVE  Total(es, ks) = 0
<1> DEFINE f == [k \in DOMAIN es |-> es[k].bytes]
<1>1. (\A k \in ks : f[k] = 0) /\ Total(es, ks) = SumFunctionOnSet(f, ks)
    BY DEF Total
<1> HIDE DEF f
<1> QED
    BY <1>1, SumZero

-----------------------------------------------------------------------------
(* The map, its order and its bytes. *)

OrderInv ==
    /\ order \subseteq (DOMAIN entries) \X (DOMAIN entries)
    /\ \A k, l \in DOMAIN entries : <<k, l>> \in order <=> k # l /\ <<l, k>> \notin order
    /\ \A k, l, m \in DOMAIN entries : {<<k, l>>, <<l, m>>} \subseteq order => <<k, m>> \in order

\* A pending entry holds nothing yet.
PendingEmpty == \A k \in DOMAIN entries : entries[k].pending => entries[k].bytes = 0

CacheInv ==
    /\ IsMap(entries) /\ DOMAIN entries \subseteq Keys
    /\ OrderInv /\ PendingEmpty /\ BytesExact

\* What is left after gone is removed, whatever map holds it then.
LEMMA KeptTotal ==
    ASSUME CacheInv, NEW gone \in SUBSET (DOMAIN entries), NEW es,
           (DOMAIN entries) \ gone \subseteq DOMAIN es,
           \A k \in (DOMAIN entries) \ gone : es[k].bytes = entries[k].bytes
    PROVE  /\ Total(es, (DOMAIN entries) \ gone) = bytes - Total(entries, gone)
           /\ bytes - Total(entries, gone) \in Nat /\ bytes - Total(entries, gone) <= bytes
           /\ bytes \in Nat
           /\ IsFiniteSet((DOMAIN entries) \ gone)
           /\ Cardinality((DOMAIN entries) \ gone) \in Nat
           /\ Cardinality((DOMAIN entries) \ gone) <= MaxEntries
<1> DEFINE kept == (DOMAIN entries) \ gone
<1>1. IsMap(entries) /\ bytes = Total(entries, DOMAIN entries) /\ Cardinality(DOMAIN entries) <= MaxEntries
    BY DEF CacheInv, BytesExact
<1>2. IsFiniteSet(kept) /\ Cardinality(kept) \in Nat /\ Cardinality(kept) <= Cardinality(DOMAIN entries)
      /\ Cardinality(DOMAIN entries) \in Nat
    BY <1>1, FS_Subset, FS_CardinalityType DEF IsMap
<1>3. bytes = Total(entries, gone) + Total(entries, kept)
      /\ Total(entries, gone) \in Nat /\ Total(entries, kept) \in Nat
    BY <1>1, TotalFacts
<1>4. Total(entries, kept) = Total(es, kept)
    <2>1. \A k \in kept : entries[k].bytes \in Nat
        BY <1>1 DEF IsMap, Entry
    <2> QED
        BY <1>2, <2>1, TotalSame
<1>5. MaxEntries \in Nat
    BY LimitsAssumption
<1> QED
    BY <1>1, <1>2, <1>3, <1>4, <1>5

LEMMA OrderKept ==
    ASSUME OrderInv, NEW kept \in SUBSET (DOMAIN entries), DOMAIN entries' = kept,
           order' = order \cap (kept \X kept)
    PROVE  OrderInv'
<1>1. order' \subseteq kept \X kept
    OBVIOUS
<1>2. \A k, l \in kept : <<k, l>> \in order' <=> <<k, l>> \in order
    OBVIOUS
<1>3. \A k, l \in kept : <<k, l>> \in order' <=> k # l /\ <<l, k>> \notin order'
    BY <1>2 DEF OrderInv
<1>4. \A k, l, m \in kept : {<<k, l>>, <<l, m>>} \subseteq order' => <<k, m>> \in order'
    BY <1>2 DEF OrderInv
<1> QED
    BY <1>1, <1>3, <1>4 DEF OrderInv

LEMMA RemoveKeeps ==
    ASSUME CacheInv, NEW gone \in SUBSET (DOMAIN entries), Remove(gone)
    PROVE  /\ CacheInv'
           /\ DOMAIN entries' = (DOMAIN entries) \ gone
           /\ \A k \in (DOMAIN entries) \ gone : entries'[k] = entries[k]
<1> DEFINE kept == (DOMAIN entries) \ gone
<1>1. entries' = [k \in kept |-> entries[k]] /\ order' = order \cap (kept \X kept)
      /\ bytes' = bytes - Total(entries, gone)
    BY DEF Remove, Restrict
<1>2. DOMAIN entries' = kept /\ \A k \in kept : entries'[k] = entries[k]
    BY <1>1
<1>3. /\ Total(entries', kept) = bytes' /\ bytes' <= bytes /\ bytes' \in Nat /\ bytes \in Nat
      /\ IsFiniteSet(kept) /\ Cardinality(kept) <= MaxEntries
    BY <1>1, <1>2, KeptTotal
<1>4. BytesExact'
    BY <1>2, <1>3, LimitsAssumption DEF CacheInv, BytesExact
<1>5. IsMap(entries)' /\ DOMAIN entries' \subseteq Keys /\ PendingEmpty'
    BY <1>1, <1>2, <1>3 DEF CacheInv, IsMap, PendingEmpty
<1>6. OrderInv'
    BY <1>1, <1>2, OrderKept DEF CacheInv
<1> QED
    BY <1>2, <1>4, <1>5, <1>6 DEF CacheInv

LEMMA InsertKeeps ==
    ASSUME CacheInv, NEW gone \in SUBSET (DOMAIN entries), NEW j \in Jobs, NEW k \in Keys,
           Insert(j, k, gone), k \notin (DOMAIN entries) \ gone,
           Cardinality((DOMAIN entries) \ gone) < MaxEntries
    PROVE  /\ CacheInv'
           /\ DOMAIN entries' = ((DOMAIN entries) \ gone) \cup {k}
           /\ entries'[k] = NewEntry(j)
           /\ \A l \in (DOMAIN entries) \ gone : entries'[l] = entries[l]
<1> DEFINE kept == (DOMAIN entries) \ gone
<1>1. entries' = [l \in kept \cup {k} |-> IF l = k THEN NewEntry(j) ELSE entries[l]]
      /\ order' = (order \cap (kept \X kept)) \cup (kept \X {k})
      /\ bytes' = bytes - Total(entries, gone)
    BY DEF Insert
<1>2. DOMAIN entries' = kept \cup {k} /\ entries'[k] = NewEntry(j) /\ \A l \in kept : entries'[l] = entries[l]
    BY <1>1
<1>3. /\ Total(entries', kept) = bytes' /\ bytes' <= bytes /\ bytes' \in Nat /\ bytes \in Nat
      /\ IsFiniteSet(kept) /\ Cardinality(kept) \in Nat
    BY <1>1, <1>2, KeptTotal
<1>4. NewEntry(j) \in Entry /\ NewEntry(j).bytes = 0 /\ NewEntry(j).pending
    BY DEF NewEntry, Entry
<1>5. IsFiniteSet(kept \cup {k}) /\ Cardinality(kept \cup {k}) = Cardinality(kept) + 1
    BY <1>3, FS_AddElement
<1>6. IsMap(entries') /\ DOMAIN entries' \subseteq Keys /\ PendingEmpty'
    BY <1>1, <1>2, <1>4, <1>5 DEF CacheInv, IsMap, PendingEmpty
<1>7. BytesExact'
    <2>1. Total(entries', kept \cup {k}) = 0 + Total(entries', (kept \cup {k}) \ {k})
        BY <1>2, <1>4, <1>6, TotalWithout
    <2>2. (kept \cup {k}) \ {k} = kept
        OBVIOUS
    <2> QED
        BY <1>2, <1>3, <1>5, <2>1, <2>2, LimitsAssumption DEF CacheInv, BytesExact
<1>8. OrderInv'
    <2>1. order' \subseteq (kept \cup {k}) \X (kept \cup {k})
        BY <1>1
    <2>2. \A l, m \in kept : <<l, m>> \in order' <=> <<l, m>> \in order
        BY <1>1
    <2>3. \A l \in kept : <<l, k>> \in order' /\ <<k, l>> \notin order'
        BY <1>1
    <2>4. <<k, k>> \notin order'
        BY <1>1
    <2>5. /\ \A l, m \in kept : <<l, m>> \in order <=> l # m /\ <<m, l>> \notin order
          /\ \A l, m, n \in kept : <<l, m>> \in order /\ <<m, n>> \in order => <<l, n>> \in order
        BY DEF CacheInv, OrderInv
    <2>6. k \notin kept
        OBVIOUS
    <2> HIDE DEF kept
    <2>7. \A l, m \in kept \cup {k} : <<l, m>> \in order' <=> l # m /\ <<m, l>> \notin order'
        BY <2>2, <2>3, <2>4, <2>5, <2>6
    <2>8. \A l, m, n \in kept \cup {k} : <<l, m>> \in order' /\ <<m, n>> \in order' => <<l, n>> \in order'
        BY <2>2, <2>3, <2>4, <2>5, <2>6
    <2>9. \A l, m, n \in kept \cup {k} : {<<l, m>>, <<m, n>>} \subseteq order' => <<l, n>> \in order'
        BY <2>8
    <2> QED
        BY <1>2, <2>1, <2>7, <2>9 DEF OrderInv
<1> QED
    BY <1>2, <1>6, <1>7, <1>8 DEF CacheInv

LEMMA SettleKeeps ==
    ASSUME CacheInv, NEW gone \in SUBSET Settled, NEW k \in DOMAIN entries, entries[k].pending,
           NEW size \in Nat, size <= MaxEntryBytes, Room(gone, size) \/ gone = Settled,
           Settle(k, size, gone)
    PROVE  /\ CacheInv'
           /\ DOMAIN entries' = (DOMAIN entries) \ gone
           /\ ~entries'[k].pending
           /\ \A l \in (DOMAIN entries) \ gone : l # k => entries'[l] = entries[l]
<1> DEFINE kept == (DOMAIN entries) \ gone
           e == [entries[k] EXCEPT !.pending = FALSE, !.bytes = size]
<1>1. /\ entries' = [l \in kept |-> IF l = k THEN e ELSE entries[l]]
      /\ order' = order \cap (kept \X kept) /\ bytes' = bytes - Total(entries, gone) + size
    BY DEF Settle
<1>2. k \in kept /\ gone \in SUBSET (DOMAIN entries)
    BY DEF Settled
<1>3. e \in Entry /\ e.bytes = size /\ ~e.pending
    BY DEF CacheInv, IsMap, Entry
<1> HIDE DEF e
<1>4. DOMAIN entries' = kept /\ entries'[k] = e /\ \A l \in kept : l # k => entries'[l] = entries[l]
    BY <1>1, <1>2
<1>5. /\ Total(entries, kept) = bytes - Total(entries, gone) /\ bytes \in Nat
      /\ bytes - Total(entries, gone) \in Nat
      /\ IsFiniteSet(kept) /\ Cardinality(kept) <= MaxEntries
    BY <1>2, KeptTotal
<1>6. IsMap(entries') /\ DOMAIN entries' \subseteq Keys /\ PendingEmpty'
    BY <1>1, <1>3, <1>4, <1>5 DEF CacheInv, IsMap, PendingEmpty
<1>7. Total(entries', kept) = bytes'
    <2> DEFINE rest == kept \ {k}
               old == [l \in kept |-> entries[l]]
    <2>1. Total(entries', kept) = size + Total(entries', rest)
        BY <1>2, <1>3, <1>4, <1>6, TotalWithout
    <2>2. IsMap(old) /\ DOMAIN old = kept /\ \A l \in kept : old[l] = entries[l]
        BY <1>5 DEF CacheInv, IsMap
    <2>3. old[k].bytes = 0
        BY <1>2, <2>2 DEF CacheInv, PendingEmpty
    <2>4. Total(old, kept) = 0 + Total(old, rest)
        <3> HIDE DEF old
        <3> QED
            BY <1>2, <2>2, <2>3, TotalWithout
    <2>5. Total(old, kept) = Total(entries, kept)
        <3>1. \A l \in kept : old[l].bytes \in Nat
            BY <2>2 DEF IsMap, Entry
        <3> HIDE DEF old
        <3> QED
            BY <1>5, <2>2, <3>1, TotalSame
    <2>6. Total(old, rest) = Total(entries', rest)
        <3>1. \A l \in rest : old[l].bytes \in Nat /\ old[l] = entries'[l]
            BY <1>4, <2>2 DEF IsMap, Entry
        <3>2. IsFiniteSet(rest) /\ rest \subseteq DOMAIN old /\ rest \subseteq DOMAIN entries'
            BY <1>4, <1>5, <2>2, FS_Subset
        <3> HIDE DEF old, rest
        <3> QED
            BY <3>1, <3>2, TotalSame
    <2>7. Total(old, rest) \in Nat
        <3> HIDE DEF old
        <3> QED
            BY <2>2, TotalFacts
    <2> HIDE DEF old, rest
    <2> QED
        BY <1>1, <1>5, <2>1, <2>4, <2>5, <2>6, <2>7
<1>8. bytes' <= MaxBytes
    <2>1. CASE Room(gone, size)
        BY <1>1, <2>1 DEF Room
    <2>2. CASE gone = Settled
        <3>1. \A l \in kept : entries[l].bytes = 0
            BY <2>2 DEF Settled, CacheInv, PendingEmpty
        <3>2. Total(entries, kept) = 0
            BY <1>5, <3>1, TotalZero
        <3> QED
            BY <1>1, <1>5, <3>2, LimitsAssumption
    <2> QED
        BY <2>1, <2>2
<1>9. BytesExact'
    BY <1>4, <1>5, <1>7, <1>8 DEF BytesExact
<1>10. OrderInv'
    BY <1>1, <1>4, OrderKept DEF CacheInv
<1> QED
    BY <1>3, <1>4, <1>6, <1>9, <1>10 DEF CacheInv

\* A settled entry passes its ttl.
LEMMA ExpireKeeps ==
    ASSUME CacheInv, NEW k \in DOMAIN entries, entries' = [entries EXCEPT ![k].live = FALSE],
           UNCHANGED <<order, bytes>>
    PROVE  /\ CacheInv' /\ DOMAIN entries' = DOMAIN entries
           /\ \A l \in DOMAIN entries : /\ entries'[l].pending = entries[l].pending
                                        /\ entries'[l].job = entries[l].job
<1>1. \A l \in DOMAIN entries : entries[l] \in Entry
    BY DEF CacheInv, IsMap
<1>2. DOMAIN entries' = DOMAIN entries
    OBVIOUS
<1>3. \A l \in DOMAIN entries : /\ entries'[l] \in Entry /\ entries'[l].pending = entries[l].pending
                                /\ entries'[l].job = entries[l].job
                                /\ entries'[l].bytes = entries[l].bytes
    BY <1>1 DEF Entry
<1>4. IsMap(entries') /\ PendingEmpty'
    <2>1. entries' = [l \in DOMAIN entries |-> entries'[l]]
        BY DEF CacheInv, IsMap
    <2>2. entries' \in [DOMAIN entries -> Entry]
        BY <1>3, <2>1
    <2> QED
        BY <1>2, <1>3, <2>2 DEF CacheInv, IsMap, PendingEmpty
<1>5. Total(entries', DOMAIN entries) = Total(entries, DOMAIN entries)
    <2>1. \A l \in DOMAIN entries : entries[l].bytes \in Nat
        BY <1>1 DEF Entry
    <2>2. IsFiniteSet(DOMAIN entries) /\ DOMAIN entries \subseteq DOMAIN entries'
        BY <1>2 DEF CacheInv, IsMap
    <2>3. \A l \in DOMAIN entries : entries[l].bytes \in Nat /\ entries[l].bytes = entries'[l].bytes
        BY <1>3, <2>1
    <2>4. Total(entries, DOMAIN entries) = Total(entries', DOMAIN entries)
        BY ONLY <2>2, <2>3, TotalSame
    <2> QED
        BY <2>4
<1>6. BytesExact'
    BY <1>2, <1>5 DEF CacheInv, BytesExact
<1>7. OrderInv'
    BY <1>2 DEF CacheInv, OrderInv
<1> QED
    BY <1>2, <1>3, <1>4, <1>6, <1>7 DEF CacheInv
\* The entries that make room are determined: the loop that evicts the oldest settled
\* entry until the result fits has one outcome, and the action is never without one.
LEMMA EvictionDefined ==
    ASSUME CacheInv, NEW size
    PROVE  \E gone \in SUBSET Settled :
               /\ MakesRoom(gone, size)
               /\ \A other \in SUBSET Settled : MakesRoom(other, size) => other = gone
<1> DEFINE Prefix(g) == \A k \in g, l \in Settled \ g : <<k, l>> \in order
           Before(g, k) == {l \in g : <<l, k>> \in order}
           Enough == {g \in SUBSET Settled : Prefix(g) /\ (Room(g, size) \/ g = Settled)}
<1>1. /\ IsFiniteSet(Settled)
      /\ \A k, l \in Settled : <<k, l>> \in order <=> k # l /\ <<l, k>> \notin order
      /\ \A k, l, m \in Settled : <<k, l>> \in order /\ <<l, m>> \in order => <<k, m>> \in order
    <2>1. Settled \subseteq DOMAIN entries /\ IsFiniteSet(DOMAIN entries) /\ OrderInv
        BY DEF Settled, CacheInv, IsMap
    <2>2. \A k, l, m \in DOMAIN entries :
              <<k, l>> \in order /\ <<l, m>> \in order => <<k, m>> \in order
        BY <2>1 DEF OrderInv
    <2>3. IsFiniteSet(Settled)
        BY <2>1, FS_Subset
    <2> HIDE DEF Prefix, Before, Enough
    <2> QED
        BY <2>1, <2>2, <2>3 DEF OrderInv
<1>2. Enough \in SUBSET (SUBSET Settled) /\ Settled \in Enough
    OBVIOUS
<1>3. \A g \in SUBSET Settled : Prefix(g) =>
          \A k \in g : Before(g, k) \in SUBSET Settled /\ Prefix(Before(g, k)) /\ k \notin Before(g, k)
    <2> SUFFICES ASSUME NEW g \in SUBSET Settled, Prefix(g), NEW k \in g
                 PROVE  Before(g, k) \in SUBSET Settled /\ Prefix(Before(g, k)) /\ k \notin Before(g, k)
        OBVIOUS
    <2>1. Before(g, k) \in SUBSET Settled /\ k \notin Before(g, k)
        BY <1>1
    <2>2. ASSUME NEW l \in Before(g, k), NEW m \in Settled \ Before(g, k)
          PROVE  <<l, m>> \in order
        <3>1. l \in g /\ l \in Settled /\ k \in Settled /\ m \in Settled /\ <<l, k>> \in order
            BY <2>2
        <3>2. CASE m \notin g
            BY <3>1, <3>2
        <3>3. CASE m \in g
            <4>1. <<m, k>> \notin order
                BY <2>2, <3>3
            <4>2. m = k \/ <<k, m>> \in order
                BY <1>1, <3>1, <4>1
            <4> QED
                BY <1>1, <3>1, <4>2
        <3> QED
            BY <3>2, <3>3
    <2> QED
        BY <2>1, <2>2
<1>4. PICK gone \in Enough : \A g \in Enough : g \subseteq gone => g = gone
    <2> HIDE DEF Enough
    <2> QED
        BY <1>1, <1>2, SmallestMember
<1>5. MakesRoom(gone, size)
    <2>1. ASSUME NEW k \in gone
          PROVE  ~Room(Before(gone, k), size)
        <3>1. /\ Before(gone, k) \in SUBSET Settled /\ Prefix(Before(gone, k))
              /\ k \notin Before(gone, k) /\ Before(gone, k) \subseteq gone
            BY <1>3, <1>4
        <3>2. Before(gone, k) \notin Enough
            BY <1>4, <2>1, <3>1
        <3> QED
            BY <3>1, <3>2
    <2> QED
        BY <1>4, <2>1 DEF MakesRoom
<1>6. ASSUME NEW other \in SUBSET Settled, MakesRoom(other, size)
      PROVE  other = gone
    <2>1. other \in Enough /\ \A k \in other : ~Room(Before(other, k), size)
        BY <1>6 DEF MakesRoom
    <2>2. \A k \in gone \ other, l \in other \ gone : FALSE
        <3> SUFFICES ASSUME NEW k \in gone \ other, NEW l \in other \ gone  PROVE FALSE
            OBVIOUS
        <3>1. <<k, l>> \in order /\ <<l, k>> \in order
            BY <1>4, <2>1
        <3> QED
            BY <3>1, <1>1, <1>4
    <2>3. CASE other \subseteq gone
        BY <1>4, <2>1, <2>3
    <2>4. CASE gone \subseteq other /\ gone # other
        <3> DEFINE Starts == {Before(other, k) : k \in other \ gone}
        <3>1. Starts \in SUBSET (SUBSET Settled) /\ Starts # {}
            <4>1. other \ gone # {} /\ \A k : Before(other, k) \in SUBSET Settled
                <5> HIDE DEF Enough, Prefix
                <5> QED
                    BY <2>4
            <4> HIDE DEF Before, Enough, Prefix
            <4> QED
                BY <4>1
        <3>2. PICK A \in Starts : \A B \in Starts : B \subseteq A => B = A
            <4> HIDE DEF Starts
            <4> QED
                BY <1>1, <3>1, SmallestMember
        <3>3. PICK k \in other \ gone : A = Before(other, k)
            BY <3>2
        <3>4. gone \subseteq A
            BY <1>4, <2>4, <3>3
        <3>5. ASSUME NEW l \in A, l \notin gone
              PROVE  FALSE
            <4>1. l \in other \ gone /\ <<l, k>> \in order /\ l \in Settled /\ k \in Settled
                BY <3>3, <3>5
            <4>2. Before(other, l) \in Starts
                BY <4>1
            <4>3. Before(other, l) \subseteq A
                BY <1>1, <3>3, <4>1
            <4>4. l \notin Before(other, l)
                BY <1>1, <4>1
            <4> QED
                BY <3>2, <3>5, <4>2, <4>3, <4>4
        <3>6. A = gone
            BY <3>4, <3>5
        <3>7. ~Room(gone, size) /\ gone # Settled
            BY <2>1, <2>4, <3>3, <3>6
        <3> QED
            BY <1>4, <3>7
    <2> QED
        BY <2>2, <2>3, <2>4
<1> QED
    BY <1>4, <1>5, <1>6

-----------------------------------------------------------------------------
(* The invariant: the map with its order and its bytes, and the load that  *)
(* owns each pending entry.  Each operation keeps it.                      *)

IInv == CacheInv /\ job \in [Jobs -> JobState] /\ OneLoadPerKey

LEMMA InitEstablishes == Init => IInv
<1> SUFFICES ASSUME Init PROVE IInv
    OBVIOUS
<1>1. DOMAIN entries = {} /\ IsMap(entries)
    <2>1. entries = <<>> /\ DOMAIN entries = {}
        BY DEF Init
    <2>2. entries = [k \in {} |-> entries[k]]
        BY <2>1
    <2> QED
        BY <2>1, <2>2, FS_EmptySet DEF IsMap
<1>2. Total(entries, DOMAIN entries) = 0 /\ Cardinality(DOMAIN entries) = 0
    BY <1>1, TotalZero, FS_EmptySet
<1>3. CacheInv
    BY <1>1, <1>2, LimitsAssumption DEF Init, CacheInv, OrderInv, PendingEmpty, BytesExact
<1>4. job \in [Jobs -> JobState] /\ \A j \in Jobs : job[j].pc = "idle"
    BY DEF Init, NoJob, JobState
<1> QED
    BY <1>1, <1>3, <1>4 DEF IInv, OneLoadPerKey

\* Pending entries and the loads that own them stay as they are when settled entries go.
LEMMA SettledGone ==
    ASSUME IInv, NEW gone \in SUBSET Settled, Remove(gone)
    PROVE  /\ CacheInv'
           /\ \A j \in Jobs : job[j].pc \in {"reserving", "loading"} =>
                  /\ job[j].key \in DOMAIN entries' /\ entries'[job[j].key].job = j
                  /\ entries'[job[j].key].pending
           /\ \A k \in DOMAIN entries' : entries'[k].pending =>
                  /\ job[entries'[k].job].pc \in {"reserving", "loading", "failed"}
                  /\ job[entries'[k].job].key = k
<1>1. gone \in SUBSET (DOMAIN entries) /\ \A k \in gone : ~entries[k].pending
    BY DEF Settled
<1>2. CacheInv' /\ DOMAIN entries' = (DOMAIN entries) \ gone
      /\ \A k \in (DOMAIN entries) \ gone : entries'[k] = entries[k]
    BY <1>1, RemoveKeeps DEF IInv
<1> QED
    BY <1>1, <1>2 DEF IInv, OneLoadPerKey

LEMMA RefusedKeeps ==
    ASSUME IInv, Remove(Stale), UNCHANGED job
    PROVE  IInv'
<1>1. Stale \in SUBSET Settled
    BY DEF Stale, Settled
<1> QED
    BY <1>1, SettledGone DEF IInv, OneLoadPerKey

\* A load is added for a key whose entry, if any, is among those that go.
LEMMA LoadAdded ==
    ASSUME IInv, NEW j \in Jobs, NEW k \in Keys, job[j].pc = "idle",
           NEW gone \in SUBSET Settled, k \notin (DOMAIN entries) \ gone,
           Cardinality((DOMAIN entries) \ gone) < MaxEntries,
           Insert(j, k, gone),
           job' = [job EXCEPT ![j] = [pc |-> "reserving", key |-> k, aborted |-> FALSE]]
    PROVE  IInv'
<1>1. gone \in SUBSET (DOMAIN entries) /\ \A l \in gone : ~entries[l].pending
    BY DEF Settled
<1>2. /\ CacheInv' /\ DOMAIN entries' = ((DOMAIN entries) \ gone) \cup {k}
      /\ entries'[k] = NewEntry(j)
      /\ \A l \in (DOMAIN entries) \ gone : entries'[l] = entries[l]
    BY <1>1, InsertKeeps DEF IInv
<1>3. NewEntry(j).job = j /\ NewEntry(j).pending
    BY DEF NewEntry
<1>4. /\ job' \in [Jobs -> JobState] /\ job'[j].pc = "reserving" /\ job'[j].key = k
      /\ \A i \in Jobs : i # j => job'[i] = job[i]
    BY DEF IInv, JobState
<1>5. ASSUME NEW i \in Jobs, job'[i].pc \in {"reserving", "loading"}
      PROVE  LET l == job'[i].key
             IN  l \in DOMAIN entries' /\ entries'[l].job = i /\ entries'[l].pending
    <2>1. CASE i = j
        BY <1>2, <1>3, <1>4, <2>1
    <2>2. CASE i # j
        BY <1>1, <1>2, <1>4, <1>5, <2>2 DEF IInv, OneLoadPerKey
    <2> QED
        BY <2>1, <2>2
<1>6. ASSUME NEW l \in DOMAIN entries', entries'[l].pending
      PROVE  LET owner == job'[entries'[l].job]
             IN  owner.pc \in {"reserving", "loading", "failed"} /\ owner.key = l
    <2>1. CASE l = k
        BY <1>2, <1>3, <1>4, <2>1
    <2>2. CASE l # k
        <3>1. l \in (DOMAIN entries) \ gone /\ entries'[l] = entries[l]
            BY <1>2, <2>2
        <3>2. entries[l].job \in Jobs
            BY <3>1 DEF IInv, CacheInv, IsMap, Entry
        <3>3. /\ job[entries[l].job].pc \in {"reserving", "loading", "failed"}
              /\ job[entries[l].job].key = l
            BY <1>6, <3>1 DEF IInv, OneLoadPerKey
        <3>4. entries[l].job # j
            BY <3>3
        <3> QED
            BY <1>4, <3>1, <3>2, <3>3, <3>4
    <2> QED
        BY <2>1, <2>2
<1> QED
    BY <1>2, <1>4, <1>5, <1>6 DEF IInv, OneLoadPerKey

LEMMA GetKeeps ==
    ASSUME IInv, NEW j \in Jobs, NEW k \in Keys, Get(j, k)
    PROVE  IInv'
<1> DEFINE full == Cardinality((DOMAIN entries) \ Stale) >= MaxEntries
           started == job' = [job EXCEPT ![j] = [pc |-> "reserving", key |-> k, aborted |-> FALSE]]
<1>1. Stale \in SUBSET Settled /\ Stale \in SUBSET (DOMAIN entries) /\ Settled \subseteq DOMAIN entries
    BY DEF Stale, Settled
<1>2. k \notin (DOMAIN entries) \ Stale /\ job[j].pc = "idle"
    BY DEF Get, Stale
<1>3. IsFiniteSet(DOMAIN entries) /\ Cardinality(DOMAIN entries) <= MaxEntries
      /\ Cardinality(DOMAIN entries) \in Nat /\ MaxEntries \in Nat
    BY LimitsAssumption, FS_CardinalityType DEF IInv, CacheInv, IsMap, BytesExact
<1>4. /\ IsFiniteSet((DOMAIN entries) \ Stale) /\ Cardinality((DOMAIN entries) \ Stale) \in Nat
      /\ Cardinality((DOMAIN entries) \ Stale) <= MaxEntries
    BY <1>1, <1>3, FS_Subset, FS_CardinalityType
<1>5. CASE Remove(Stale) /\ UNCHANGED job
    BY <1>5, RefusedKeeps
<1>6. CASE started /\ ~full /\ Insert(j, k, Stale)
    <2>1. Cardinality((DOMAIN entries) \ Stale) < MaxEntries
        BY <1>3, <1>4, <1>6
    <2> QED
        BY <1>1, <1>2, <1>6, <2>1, LoadAdded
<1>7. CASE started /\ \E o \in Oldest(Settled \ Stale) : Insert(j, k, Stale \cup {o})
    <2>1. PICK o \in Settled \ Stale : Insert(j, k, Stale \cup {o})
        BY <1>7 DEF Oldest
    <2>2. Stale \cup {o} \in SUBSET Settled /\ k \notin (DOMAIN entries) \ (Stale \cup {o})
        BY <1>1, <1>2
    <2>3. (DOMAIN entries) \ (Stale \cup {o}) = ((DOMAIN entries) \ Stale) \ {o}
          /\ o \in (DOMAIN entries) \ Stale
        BY <1>1
    <2>4. Cardinality((DOMAIN entries) \ (Stale \cup {o})) = Cardinality((DOMAIN entries) \ Stale) - 1
        BY <1>4, <2>3, FS_RemoveElement
    <2>5. Cardinality((DOMAIN entries) \ (Stale \cup {o})) < MaxEntries
        <3> DEFINE kept == Cardinality((DOMAIN entries) \ Stale)
                   rest == Cardinality((DOMAIN entries) \ (Stale \cup {o}))
        <3>1. kept \in Nat /\ kept <= MaxEntries /\ MaxEntries \in Nat /\ rest = kept - 1
            BY <1>3, <1>4, <2>4, Zenon
        <3> HIDE DEF kept, rest
        <3>2. rest < MaxEntries
            BY <3>1
        <3> QED
            BY <3>2 DEF rest
    <2> QED
        BY <1>2, <1>7, <2>1, <2>2, <2>5, LoadAdded
<1> QED
    BY <1>5, <1>6, <1>7 DEF Get, budgetVars

\* The map is left alone, and the load of j does not become one under way.
LEMMA ChainMoves ==
    ASSUME IInv, NEW j \in Jobs, UNCHANGED cacheVars, NEW s \in JobState,
           job' = [job EXCEPT ![j] = s],
           s.pc \in {"reserving", "loading"} => /\ job[j].pc \in {"reserving", "loading"}
                                                /\ s.key = job[j].key,
           job[j].pc \in {"reserving", "loading", "failed"} =>
               s.pc \in {"reserving", "loading", "failed"} /\ s.key = job[j].key
    PROVE  IInv'
<1>1. job' \in [Jobs -> JobState] /\ job'[j] = s /\ \A i \in Jobs : i # j => job'[i] = job[i]
    BY DEF IInv
<1>2. UNCHANGED <<entries, order, bytes>>
    BY DEF cacheVars
<1>3. CacheInv'
    BY <1>2 DEF IInv, CacheInv, OrderInv, PendingEmpty, BytesExact
<1>4. \A i \in Jobs : job'[i].pc \in {"reserving", "loading"} =>
          job[i].pc \in {"reserving", "loading"} /\ job'[i].key = job[i].key
    BY <1>1
<1>5. \A i \in Jobs : job[i].pc \in {"reserving", "loading", "failed"} =>
          job'[i].pc \in {"reserving", "loading", "failed"} /\ job'[i].key = job[i].key
    BY <1>1
<1>6. \A k \in DOMAIN entries : entries[k].job \in Jobs
    BY DEF IInv, CacheInv, IsMap, Entry
<1>7. \A i \in Jobs : job'[i].pc \in {"reserving", "loading"} =>
          LET k == job'[i].key
          IN  k \in DOMAIN entries' /\ entries'[k].job = i /\ entries'[k].pending
    BY <1>2, <1>4 DEF IInv, OneLoadPerKey
<1>8. \A k \in DOMAIN entries' : entries'[k].pending =>
          LET owner == job'[entries'[k].job]
          IN  owner.pc \in {"reserving", "loading", "failed"} /\ owner.key = k
    BY <1>2, <1>5, <1>6 DEF IInv, OneLoadPerKey
<1> QED
    BY <1>1, <1>3, <1>7, <1>8 DEF IInv, OneLoadPerKey

LEMMA StartKeeps ==
    ASSUME IInv, NEW j \in Jobs, Start(j)
    PROVE  IInv'
<1> DEFINE s == [job[j] EXCEPT !.pc = IF job[j].aborted THEN "failed" ELSE "loading"]
<1>1. job[j] \in JobState /\ job[j].pc = "reserving" /\ UNCHANGED cacheVars
    BY DEF IInv, Start
<1>2. s \in JobState /\ s.pc \in {"loading", "failed"} /\ s.key = job[j].key
    BY <1>1 DEF JobState
<1>3. job' = [job EXCEPT ![j] = s]
    BY DEF IInv, Start, MoveTo
<1> HIDE DEF s
<1> QED
    BY <1>1, <1>2, <1>3, ChainMoves

LEMMA DeadlineKeeps ==
    ASSUME IInv, NEW j \in Jobs, Deadline(j)
    PROVE  IInv'
<1> DEFINE f == [job[j] EXCEPT !.pc = "failed", !.aborted = TRUE]
           a == [job[j] EXCEPT !.aborted = TRUE]
<1>1. job[j] \in JobState /\ job[j].pc \in {"reserving", "loading"} /\ UNCHANGED cacheVars
    BY DEF IInv, Deadline
<1>2. f \in JobState /\ f.pc = "failed" /\ f.key = job[j].key
      /\ a \in JobState /\ a.pc = job[j].pc /\ a.key = job[j].key
    BY <1>1 DEF JobState
<1>3. job' = [job EXCEPT ![j] = f] \/ job' = [job EXCEPT ![j] = a]
    BY DEF IInv, Deadline
<1> HIDE DEF f, a
<1>4. CASE job' = [job EXCEPT ![j] = f]
    BY <1>1, <1>2, <1>4, ChainMoves
<1>5. CASE job' = [job EXCEPT ![j] = a]
    BY <1>1, <1>2, <1>5, ChainMoves
<1> QED
    BY <1>3, <1>4, <1>5

\* A load under way fails before its value is kept.
LEMMA FailingKeeps ==
    ASSUME IInv, NEW j \in Jobs, WaitTimeout(j) \/ LoadFails(j)
    PROVE  IInv'
<1> DEFINE s == [job[j] EXCEPT !.pc = "failed"]
<1>1. job[j] \in JobState /\ job[j].pc \in {"reserving", "loading"} /\ UNCHANGED cacheVars
    BY DEF IInv, WaitTimeout, LoadFails
<1>2. s \in JobState /\ s.pc = "failed" /\ s.key = job[j].key
    BY <1>1 DEF JobState
<1>3. job' = [job EXCEPT ![j] = s]
    BY DEF IInv, WaitTimeout, LoadFails, MoveTo
<1> HIDE DEF s
<1> QED
    BY <1>1, <1>2, <1>3, ChainMoves

\* The chain of j is over or has failed; no pending entry is its own any more unless it
\* failed.  The map may have lost entries, but no pending one of another load.
LEMMA ChainEnds ==
    ASSUME IInv, NEW j \in Jobs, CacheInv', NEW s \in JobState, job' = [job EXCEPT ![j] = s],
           s.pc \notin {"reserving", "loading"},
           \A k \in DOMAIN entries : entries[k].pending /\ entries[k].job # j =>
               k \in DOMAIN entries' /\ entries'[k] = entries[k],
           \A k \in DOMAIN entries' : entries'[k].pending =>
               k \in DOMAIN entries /\ entries'[k] = entries[k] /\ entries[k].job # j
    PROVE  IInv'
<1>1. job' \in [Jobs -> JobState] /\ job'[j] = s /\ \A i \in Jobs : i # j => job'[i] = job[i]
    BY DEF IInv
<1>2. ASSUME NEW i \in Jobs, job'[i].pc \in {"reserving", "loading"}
      PROVE  LET k == job'[i].key
             IN  k \in DOMAIN entries' /\ entries'[k].job = i /\ entries'[k].pending
    <2>1. i # j /\ job'[i] = job[i]
        BY <1>1, <1>2
    <2>2. /\ job[i].key \in DOMAIN entries /\ entries[job[i].key].job = i
          /\ entries[job[i].key].pending
        BY <1>2, <2>1 DEF IInv, OneLoadPerKey
    <2> QED
        BY <2>1, <2>2
<1>3. ASSUME NEW k \in DOMAIN entries', entries'[k].pending
      PROVE  LET owner == job'[entries'[k].job]
             IN  owner.pc \in {"reserving", "loading", "failed"} /\ owner.key = k
    <2>1. k \in DOMAIN entries /\ entries'[k] = entries[k] /\ entries[k].job # j
        BY <1>3
    <2>2. entries[k].job \in Jobs
        BY <2>1 DEF IInv, CacheInv, IsMap, Entry
    <2> QED
        BY <1>1, <1>3, <2>1, <2>2 DEF IInv, OneLoadPerKey
<1> QED
    BY <1>1, <1>2, <1>3 DEF IInv, OneLoadPerKey

LEMMA LoadReturnsKeeps ==
    ASSUME IInv, NEW j \in Jobs, NEW size \in Sizes, LoadReturns(j, size)
    PROVE  IInv'
<1> DEFINE d == [job[j] EXCEPT !.pc = "settled"]
           f == [job[j] EXCEPT !.pc = "failed", !.aborted = TRUE]
<1>1. PICK k \in DOMAIN entries :
          /\ k = job[j].key /\ entries[k].job = j /\ entries[k].pending
          /\ \A l \in DOMAIN entries : entries[l].pending /\ entries[l].job = j => l = k
    BY DEF IInv, OneLoadPerKey, LoadReturns
<1>2. d \in JobState /\ d.pc = "settled" /\ f \in JobState /\ f.pc = "failed"
    BY DEF IInv, JobState
<1>3. CASE size > MaxEntryBytes
    <2>1. Remove({k} \cap DOMAIN entries) /\ job' = [job EXCEPT ![j] = d]
        BY <1>1, <1>3 DEF LoadReturns, MoveTo, IInv
    <2>2. {k} \cap DOMAIN entries = {k}
        BY <1>1
    <2>3. CacheInv' /\ DOMAIN entries' = (DOMAIN entries) \ {k}
          /\ \A l \in (DOMAIN entries) \ {k} : entries'[l] = entries[l]
        <3>1. Remove({k})
            BY <2>1, <2>2
        <3> QED
            BY <1>1, <3>1, RemoveKeeps DEF IInv
    <2>4. \A l \in DOMAIN entries : entries[l].pending /\ entries[l].job # j =>
              l \in DOMAIN entries' /\ entries'[l] = entries[l]
        BY <1>1, <2>3
    <2>5. \A l \in DOMAIN entries' : entries'[l].pending =>
              l \in DOMAIN entries /\ entries'[l] = entries[l] /\ entries[l].job # j
        BY <1>1, <2>3
    <2> HIDE DEF d, f
    <2> QED
        BY <1>2, <2>1, <2>3, <2>4, <2>5, ChainEnds
<1>4. CASE ~(size > MaxEntryBytes)
    <2>1. PICK gone \in SUBSET Settled : MakesRoom(gone, size) /\ Settle(k, size, gone)
        BY <1>1, <1>4 DEF LoadReturns
    <2>2. size \in Nat /\ size <= MaxEntryBytes /\ (Room(gone, size) \/ gone = Settled)
        BY <1>4, <2>1, LimitsAssumption DEF MakesRoom
    <2>3. job' = [job EXCEPT ![j] = d] \/ job' = [job EXCEPT ![j] = f]
        BY <1>4 DEF LoadReturns, MoveTo, IInv
    <2>4. /\ CacheInv' /\ DOMAIN entries' = (DOMAIN entries) \ gone
          /\ ~entries'[k].pending
          /\ \A l \in (DOMAIN entries) \ gone : l # k => entries'[l] = entries[l]
        <3>1. CacheInv /\ entries[k].pending /\ Settle(k, size, gone)
            BY <1>1, <2>1 DEF IInv
        <3> QED
            BY <3>1, <2>2, SettleKeeps, Zenon
    <2>5. \A l \in gone : ~entries[l].pending
        BY DEF Settled
    <2> HIDE DEF d, f
    <2>6. \A l \in DOMAIN entries : entries[l].pending /\ entries[l].job # j =>
              l \in DOMAIN entries' /\ entries'[l] = entries[l]
        BY <1>1, <2>4, <2>5
    <2>7. \A l \in DOMAIN entries' : entries'[l].pending =>
              l \in DOMAIN entries /\ entries'[l] = entries[l] /\ entries[l].job # j
        BY <1>1, <2>4
    <2> QED
        BY <1>2, <2>3, <2>4, <2>6, <2>7, ChainEnds
<1> QED
    BY <1>3, <1>4

LEMMA CatchKeeps ==
    ASSUME IInv, NEW j \in Jobs, Catch(j)
    PROVE  IInv'
<1> DEFINE d == [job[j] EXCEPT !.pc = "settled"]
<1>1. FailedEntry(j) \in SUBSET (DOMAIN entries)
      /\ \A k \in FailedEntry(j) : entries[k].job = j
    BY DEF FailedEntry
<1>2. \A k \in DOMAIN entries : entries[k].pending /\ entries[k].job = j => k \in FailedEntry(j)
    BY DEF IInv, OneLoadPerKey, FailedEntry
<1>3. CacheInv' /\ DOMAIN entries' = (DOMAIN entries) \ FailedEntry(j)
      /\ \A k \in (DOMAIN entries) \ FailedEntry(j) : entries'[k] = entries[k]
    BY <1>1, RemoveKeeps DEF IInv, Catch
<1>4. d \in JobState /\ d.pc = "settled" /\ job' = [job EXCEPT ![j] = d]
    BY DEF IInv, JobState, Catch, MoveTo
<1> HIDE DEF d
<1> QED
    BY <1>1, <1>2, <1>3, <1>4, ChainEnds

LEMMA FinallyKeeps ==
    ASSUME IInv, NEW j \in Jobs, Finally(j)
    PROVE  IInv'
<1>1. NoJob \in JobState /\ NoJob.pc = "idle"
    BY DEF NoJob, JobState
<1>2. job' = [job EXCEPT ![j] = NoJob] /\ job[j].pc = "settled" /\ UNCHANGED cacheVars
    BY DEF Finally
<1> QED
    BY <1>1, <1>2, ChainMoves

\* What neither moves a chain nor adds or settles an entry.
LEMMA HousekeepingKeeps ==
    ASSUME IInv, Expire \/ Sweep \/ UNCHANGED vars \/ (\E j \in Jobs : Collected(j))
    PROVE  IInv'
<1>1. CASE Expire
    <2>1. PICK k \in Settled : entries' = [entries EXCEPT ![k].live = FALSE]
        BY <1>1 DEF Expire
    <2>2. k \in DOMAIN entries /\ UNCHANGED <<order, bytes, job>>
        BY <1>1 DEF Settled, Expire
    <2>3. /\ CacheInv' /\ DOMAIN entries' = DOMAIN entries
          /\ \A l \in DOMAIN entries : /\ entries'[l].pending = entries[l].pending
                                       /\ entries'[l].job = entries[l].job
        BY <2>1, <2>2, ExpireKeeps DEF IInv
    <2> QED
        BY <2>2, <2>3 DEF IInv, OneLoadPerKey
<1>2. CASE Sweep
    BY <1>2, RefusedKeeps DEF Sweep
<1>3. CASE UNCHANGED <<entries, order, bytes, job>>
    BY <1>3 DEF IInv, CacheInv, OrderInv, PendingEmpty, BytesExact, OneLoadPerKey
<1> QED
    BY <1>1, <1>2, <1>3 DEF Collected, vars, cacheVars

LEMMA NextKeeps == IInv /\ [Next]_vars => IInv'
<1> SUFFICES ASSUME IInv, [Next]_vars PROVE IInv'
    OBVIOUS
<1>1. CASE \E j \in Jobs, k \in Keys : Get(j, k)
    BY <1>1, GetKeeps
<1>2. CASE \E j \in Jobs : Step(j)
    BY <1>2, StartKeeps, DeadlineKeeps, FailingKeeps, LoadReturnsKeeps, CatchKeeps,
       FinallyKeeps, HousekeepingKeeps DEF Step
<1>3. CASE Expire \/ Sweep \/ UNCHANGED vars
    BY <1>3, HousekeepingKeeps
<1> QED
    BY <1>1, <1>2, <1>3 DEF Next

-----------------------------------------------------------------------------
(* The theorems about the map and its loads.                               *)

\* The inductive invariant: the map, its order and its bytes agree, and each load under
\* way has the pending entry of its key.
THEOREM InductiveInvariant == Spec => []IInv
BY InitEstablishes, NextKeeps, PTL DEF Spec

\* The running total is the sum of what is held, within the limits (capacity.js 129-192).
THEOREM BytesNeverDrift == Spec => []BytesExact
<1>1. IInv => BytesExact
    BY DEF IInv, CacheInv
<1> QED
    BY <1>1, InductiveInvariant, PTL

\* No key is loaded twice at a time, and no pending entry is without a load that will
\* settle it (capacity.js 159-205).
THEOREM LoadsShared == Spec => []OneLoadPerKey
<1>1. IInv => OneLoadPerKey
    BY DEF IInv
<1> QED
    BY <1>1, InductiveInvariant, PTL

-----------------------------------------------------------------------------
(* The budget under the cache: its theorems hold of the cache's slots.     *)

BP == INSTANCE QueuedBudgetProofs WITH Callers <- Jobs, Maximum <- MaxPending

LEMMA BudgetInit == Init => Budget!Init
BY DEF Init

LEMMA BudgetStep == [Next]_vars => [Budget!Next]_(Budget!vars)
<1> SUFFICES ASSUME [Next]_vars PROVE [Budget!Next]_(Budget!vars)
    OBVIOUS
<1>1. ASSUME NEW j \in Jobs, NEW k \in Keys, Get(j, k)
      PROVE  Budget!Next \/ UNCHANGED budgetVars
    BY <1>1 DEF Get, Budget!Next
<1>2. ASSUME NEW j \in Jobs, Step(j)
      PROVE  Budget!Next \/ UNCHANGED budgetVars
    <2>1. CASE Deadline(j)
        BY <2>1 DEF Deadline, Budget!Next
    <2>2. CASE WaitTimeout(j)
        BY <2>2 DEF WaitTimeout, Budget!Next
    <2>3. CASE Finally(j)
        BY <2>3 DEF Finally, Budget!Next
    <2>4. CASE Collected(j)
        BY <2>4 DEF Collected, Budget!Next
    <2>5. CASE Start(j) \/ LoadFails(j) \/ Catch(j) \/ \E size \in Sizes : LoadReturns(j, size)
        BY <2>5 DEF Start, LoadFails, Catch, LoadReturns
    <2> QED
        BY <1>2, <2>1, <2>2, <2>3, <2>4, <2>5 DEF Step
<1>3. CASE Expire \/ Sweep
    BY <1>3 DEF Expire, Sweep, Budget!vars, budgetVars
<1>4. CASE UNCHANGED vars
    BY <1>4 DEF vars, Budget!vars
<1> QED
    BY <1>1, <1>2, <1>3, <1>4 DEF Next, Budget!vars, budgetVars

\* The cache implements the budget's specification: every step is one of its calls, or
\* leaves it alone (capacity.js 120, 159-205).
THEOREM BudgetUsedAsAgreed == Spec => BudgetContract
BY BudgetInit, BudgetStep, PTL DEF Spec, BudgetContract, Budget!Spec

LEMMA SameBudget ==
    /\ Budget!Init <=> BP!Init
    /\ [Budget!Next]_(Budget!vars) <=> [BP!Next]_(BP!vars)
    /\ Budget!TypeOK <=> BP!TypeOK
<1>1. Budget!Init <=> BP!Init
    BY DEF Budget!Init, BP!Init
<1>2. ASSUME NEW j \in Jobs
      PROVE  /\ Budget!Acquire(j) <=> BP!Acquire(j)
             /\ Budget!Cancel(j) <=> BP!Cancel(j)
             /\ Budget!Release(j) <=> BP!Release(j)
             /\ Budget!Drop(j) <=> BP!Drop(j)
    <2>1. Budget!Acquire(j) <=> BP!Acquire(j)
        BY Zenon DEF Budget!Acquire, BP!Acquire, Budget!HasRoom, BP!HasRoom, Budget!vars, BP!vars
    <2>2. Budget!Cancel(j) <=> BP!Cancel(j)
        BY Zenon DEF Budget!Cancel, BP!Cancel, Budget!RemoveAt, BP!RemoveAt
    <2>3. Budget!Release(j) <=> BP!Release(j)
        BY Zenon DEF Budget!Release, BP!Release, Budget!vars, BP!vars
    <2>4. Budget!Drop(j) <=> BP!Drop(j)
        BY Zenon DEF Budget!Drop, BP!Drop
    <2> QED
        BY <2>1, <2>2, <2>3, <2>4
<1>3. Budget!Next <=> BP!Next
    BY <1>2 DEF Budget!Next, BP!Next
<1>4. UNCHANGED Budget!vars <=> UNCHANGED BP!vars
    BY DEF Budget!vars, BP!vars
<1>5. Budget!TypeOK <=> BP!TypeOK
    BY DEF Budget!TypeOK, BP!TypeOK
<1> QED
    BY <1>1, <1>3, <1>4, <1>5

LEMMA BudgetHolds == Spec => [](BP!IInv)
<1>1. BP!CapacityAssumption
    BY LimitsAssumption DEF BP!CapacityAssumption
<1>2. BP!Spec => [](BP!IInv)
    BY <1>1, BP!InductiveInvariant
<1> QED
    BY <1>2, BudgetInit, BudgetStep, SameBudget, PTL DEF Spec, BP!Spec

\* The map, its order, the loads and the budget keep their types and limits.
THEOREM TypeCorrect == Spec => []TypeOK
<1>1. IInv /\ BP!IInv => TypeOK
    <2> SUFFICES ASSUME IInv, BP!IInv PROVE TypeOK
        OBVIOUS
    <2>1. DOMAIN entries \subseteq Keys /\ entries \in [DOMAIN entries -> Entry]
        BY DEF IInv, CacheInv, IsMap
    <2>2. bytes \in Nat
        BY TotalFacts DEF IInv, CacheInv, BytesExact
    <2>3. Budget!TypeOK
        BY SameBudget DEF BP!IInv
    <2>4. /\ order \subseteq (DOMAIN entries) \X (DOMAIN entries)
          /\ \A k, l \in DOMAIN entries : <<k, l>> \in order <=> k # l /\ <<l, k>> \notin order
          /\ \A k, l, m \in DOMAIN entries : {<<k, l>>, <<l, m>>} \subseteq order => <<k, m>> \in order
        BY DEF IInv, CacheInv, OrderInv
    <2>5. job \in [Jobs -> JobState]
        BY DEF IInv
    <2> QED
        BY <2>1, <2>2, <2>3, <2>4, <2>5 DEF TypeOK
<1> QED
    BY <1>1, InductiveInvariant, BudgetHolds, PTL

-----------------------------------------------------------------------------
(* Chains and slots.                                                       *)

(***************************************************************************)
(* Where the chain of a load stands and where its slot stands agree: it    *)
(* loads only with a slot, waits in line only while it reserves, and has   *)
(* nothing of the budget's once it is over (capacity.js 163-205).          *)
(***************************************************************************)
SlotsOfChains ==
    \A j \in Jobs :
        /\ job[j].pc = "reserving" => slot[j] \in {"waiting", "granted"}
        /\ job[j].pc = "loading" => slot[j] = "granted"
        /\ job[j].pc \in {"failed", "settled"} => slot[j] \in {"idle", "granted"}
        /\ job[j].pc = "idle" => slot[j] \in {"idle", "released"}

\* What the calls of the budget do to the slots of others.
LEMMA OtherSlots ==
    ASSUME BP!IInv, NEW j \in Jobs,
           Budget!Acquire(j) \/ Budget!Cancel(j) \/ Budget!Release(j) \/ Budget!Drop(j)
    PROVE  \A i \in Jobs : i # j => slot'[i] = slot[i] \/ (slot[i] = "waiting" /\ slot'[i] = "granted")
<1>1. slot \in [Jobs -> {"idle", "waiting", "granted", "released"}] /\ waiting \in Seq(Jobs)
      /\ \A i \in 1..Len(waiting) : slot[waiting[i]] = "waiting"
    BY DEF BP!IInv, BP!TypeOK, BP!LineInv
<1>2. CASE Budget!Acquire(j)
    BY <1>1, <1>2 DEF Budget!Acquire, Budget!vars
<1>3. CASE Budget!Cancel(j) \/ Budget!Drop(j)
    BY <1>1, <1>3 DEF Budget!Cancel, Budget!Drop
<1>4. CASE Budget!Release(j)
    <2>1. CASE waiting = <<>> \/ slot[j] = "released"
        BY <1>1, <1>4, <2>1 DEF Budget!Release, Budget!vars
    <2>2. CASE waiting # <<>> /\ slot[j] # "released"
        <3> DEFINE h == Head(waiting)
        <3>1. h = waiting[1] /\ 1 \in 1..Len(waiting) /\ h \in Jobs
            BY <1>1, <2>2
        <3>2. slot' = [slot EXCEPT ![j] = "released", ![h] = "granted"] /\ slot[h] = "waiting"
            BY <1>1, <1>4, <2>2, <3>1 DEF Budget!Release
        <3> HIDE DEF h
        <3> QED
            BY <1>1, <3>1, <3>2
    <2> QED
        BY <2>1, <2>2
<1> QED
    BY <1>2, <1>3, <1>4

\* What each call does to the caller's own slot.
LEMMA OwnSlot ==
    ASSUME BP!IInv, NEW j \in Jobs
    PROVE  /\ Budget!Acquire(j) /\ ~BudgetFull => slot'[j] \in {"waiting", "granted"}
           /\ Budget!Cancel(j) => slot'[j] = "idle"
           /\ Budget!Drop(j) => slot'[j] = "idle"
           /\ Budget!Release(j) /\ slot[j] = "granted" => slot'[j] = "released"
<1>1. slot \in [Jobs -> {"idle", "waiting", "granted", "released"}] /\ waiting \in Seq(Jobs)
      /\ \A i \in 1..Len(waiting) : slot[waiting[i]] = "waiting"
    BY DEF BP!IInv, BP!TypeOK, BP!LineInv
<1>2. Budget!Acquire(j) /\ ~BudgetFull => slot'[j] \in {"waiting", "granted"}
    <2>1. Len(waiting) \in Nat /\ MaxWaiting \in Nat
        BY <1>1, LimitsAssumption
    <2>2. active >= MaxPending /\ ~BudgetFull => Budget!HasRoom
        BY <2>1 DEF Budget!HasRoom, BudgetFull
    <2> QED
        BY <1>1, <2>2 DEF Budget!Acquire
<1>3. (Budget!Cancel(j) => slot'[j] = "idle") /\ (Budget!Drop(j) => slot'[j] = "idle")
    BY <1>1 DEF Budget!Cancel, Budget!Drop
<1>4. ASSUME Budget!Release(j), slot[j] = "granted"
      PROVE  slot'[j] = "released"
    <2>1. CASE waiting = <<>>
        BY <1>1, <1>4, <2>1 DEF Budget!Release
    <2>2. CASE waiting # <<>>
        <3> DEFINE h == Head(waiting)
        <3>1. h = waiting[1] /\ 1 \in 1..Len(waiting) /\ h \in Jobs
            BY <1>1, <2>2
        <3>2. slot' = [slot EXCEPT ![j] = "released", ![h] = "granted"] /\ slot[h] = "waiting"
            BY <1>1, <1>4, <2>2, <3>1 DEF Budget!Release
        <3> HIDE DEF h
        <3> QED
            BY <1>1, <1>4, <3>1, <3>2
    <2> QED
        BY <2>1, <2>2
<1> QED
    BY <1>2, <1>3, <1>4

\* One chain takes a step with its own slot; the others stay where they are, and their
\* slots stay, or are handed to them while they reserve.
LEMMA ChainStep ==
    ASSUME IInv, SlotsOfChains, NEW j \in Jobs, NEW s \in JobState, job' = [job EXCEPT ![j] = s],
           \A i \in Jobs : i # j => slot'[i] = slot[i] \/ (slot[i] = "waiting" /\ slot'[i] = "granted"),
           s.pc = "reserving" => slot'[j] \in {"waiting", "granted"},
           s.pc = "loading" => slot'[j] = "granted",
           s.pc \in {"failed", "settled"} => slot'[j] \in {"idle", "granted"},
           s.pc = "idle" => slot'[j] \in {"idle", "released"}
    PROVE  SlotsOfChains'
<1>1. job'[j] = s /\ \A i \in Jobs : i # j => job'[i] = job[i]
    BY DEF IInv
<1>2. \A i \in Jobs : job[i].pc \in {"idle", "reserving", "loading", "failed", "settled"}
    BY DEF IInv, JobState
<1>3. ASSUME NEW i \in Jobs, i # j
      PROVE  /\ job'[i].pc = "reserving" => slot'[i] \in {"waiting", "granted"}
             /\ job'[i].pc = "loading" => slot'[i] = "granted"
             /\ job'[i].pc \in {"failed", "settled"} => slot'[i] \in {"idle", "granted"}
             /\ job'[i].pc = "idle" => slot'[i] \in {"idle", "released"}
    BY <1>1, <1>2, <1>3 DEF SlotsOfChains
<1> QED
    BY <1>1, <1>3 DEF SlotsOfChains

LEMMA GetSlot ==
    ASSUME IInv, BP!IInv, SlotsOfChains, NEW j \in Jobs, NEW k \in Keys, Get(j, k)
    PROVE  SlotsOfChains'
<1>1. CASE UNCHANGED <<job, budgetVars>>
    BY <1>1 DEF SlotsOfChains, budgetVars
<1>2. CASE /\ Budget!Acquire(j) /\ ~BudgetFull
           /\ job' = [job EXCEPT ![j] = [pc |-> "reserving", key |-> k, aborted |-> FALSE]]
    <2> DEFINE s == [pc |-> "reserving", key |-> k, aborted |-> FALSE]
    <2>1. s \in JobState /\ s.pc = "reserving"
        BY DEF JobState
    <2>2. slot'[j] \in {"waiting", "granted"}
        BY <1>2, OwnSlot
    <2>3. \A i \in Jobs : i # j => slot'[i] = slot[i] \/ (slot[i] = "waiting" /\ slot'[i] = "granted")
        BY <1>2, OtherSlots
    <2>4. job' = [job EXCEPT ![j] = s]
        BY <1>2
    <2> HIDE DEF s
    <2> QED
        BY <2>1, <2>2, <2>3, <2>4, ChainStep
<1> QED
    BY <1>1, <1>2 DEF Get

\* A chain that moves on and leaves the budget alone.
LEMMA QuietStep ==
    ASSUME IInv, SlotsOfChains, NEW j \in Jobs, NEW s \in JobState, job' = [job EXCEPT ![j] = s],
           UNCHANGED slot, s.pc = job[j].pc \/ slot[j] = "granted" \/ (slot[j] = "idle" /\ s.pc = "settled"),
           s.pc # "idle"
    PROVE  SlotsOfChains'
<1>1. slot'[j] = slot[j] /\ \A i \in Jobs : i # j => slot'[i] = slot[i]
    OBVIOUS
<1>2. s.pc \in {"reserving", "loading", "failed", "settled"}
    BY DEF JobState
<1>3. /\ s.pc = "reserving" => slot'[j] \in {"waiting", "granted"}
      /\ s.pc = "loading" => slot'[j] = "granted"
      /\ s.pc \in {"failed", "settled"} => slot'[j] \in {"idle", "granted"}
    BY <1>1, <1>2 DEF SlotsOfChains
<1> QED
    BY <1>1, <1>3, ChainStep

LEMMA StepSlot ==
    ASSUME IInv, BP!IInv, SlotsOfChains, NEW j \in Jobs, Step(j)
    PROVE  SlotsOfChains'
<1> DEFINE to(pc) == [job[j] EXCEPT !.pc = pc]
           late == [job[j] EXCEPT !.pc = "failed", !.aborted = TRUE]
           marked == [job[j] EXCEPT !.aborted = TRUE]
<1>1. /\ \A pc \in {"loading", "failed", "settled"} : to(pc) \in JobState /\ to(pc).pc = pc
      /\ late \in JobState /\ late.pc = "failed" /\ marked \in JobState /\ marked.pc = job[j].pc
      /\ NoJob \in JobState /\ NoJob.pc = "idle"
    BY DEF IInv, JobState, NoJob
<1>2. CASE Start(j)
    <2>1. slot[j] = "granted" /\ UNCHANGED slot
          /\ \E pc \in {"loading", "failed"} : job' = [job EXCEPT ![j] = to(pc)]
        BY <1>2 DEF Start, MoveTo, budgetVars, IInv
    <2> HIDE DEF to
    <2> QED
        BY <1>1, <2>1, QuietStep
<1>3. CASE Deadline(j)
    <2>1. CASE slot[j] = "waiting"
        <3>1. Budget!Cancel(j) /\ job' = [job EXCEPT ![j] = late]
            BY <1>3, <2>1 DEF Deadline, IInv
        <3> HIDE DEF late
        <3> QED
            BY <1>1, <3>1, OwnSlot, OtherSlots, ChainStep
    <2>2. CASE slot[j] # "waiting"
        <3>1. UNCHANGED slot /\ job' = [job EXCEPT ![j] = marked] /\ job[j].pc # "idle"
            BY <1>3, <2>2 DEF Deadline, budgetVars, IInv
        <3> HIDE DEF marked
        <3> QED
            BY <1>1, <3>1, QuietStep
    <2> QED
        BY <2>1, <2>2
<1>4. CASE WaitTimeout(j)
    <2>1. Budget!Cancel(j) /\ job' = [job EXCEPT ![j] = to("failed")]
        BY <1>4 DEF WaitTimeout, MoveTo, IInv
    <2> HIDE DEF to
    <2> QED
        BY <1>1, <2>1, OwnSlot, OtherSlots, ChainStep
<1>5. CASE LoadFails(j)
    <2>1. UNCHANGED slot /\ job' = [job EXCEPT ![j] = to("failed")] /\ slot[j] = "granted"
        BY <1>5 DEF LoadFails, MoveTo, budgetVars, IInv, SlotsOfChains
    <2> HIDE DEF to
    <2> QED
        BY <1>1, <2>1, QuietStep
<1>6. CASE \E size \in Sizes : LoadReturns(j, size)
    <2>1. UNCHANGED slot /\ slot[j] = "granted"
          /\ (job' = [job EXCEPT ![j] = to("settled")] \/ job' = [job EXCEPT ![j] = late])
        BY <1>6 DEF LoadReturns, MoveTo, budgetVars, IInv, SlotsOfChains
    <2> HIDE DEF to, late
    <2> QED
        BY <1>1, <2>1, QuietStep
<1>7. CASE Catch(j)
    <2>1. UNCHANGED slot /\ job' = [job EXCEPT ![j] = to("settled")] /\ slot[j] \in {"idle", "granted"}
        BY <1>7 DEF Catch, MoveTo, budgetVars, IInv, SlotsOfChains
    <2> HIDE DEF to
    <2> QED
        BY <1>1, <2>1, QuietStep
<1>8. CASE Finally(j)
    <2>1. job' = [job EXCEPT ![j] = NoJob] /\ job[j].pc = "settled"
        BY <1>8 DEF Finally
    <2>2. CASE slot[j] = "granted"
        <3>1. Budget!Release(j)
            BY <1>8, <2>2 DEF Finally
        <3> QED
            BY <1>1, <2>1, <2>2, <3>1, OwnSlot, OtherSlots, ChainStep
    <2>3. CASE slot[j] # "granted"
        <3>1. UNCHANGED slot /\ slot[j] = "idle"
            BY <1>8, <2>1, <2>3 DEF Finally, budgetVars, SlotsOfChains
        <3>2. slot'[j] = "idle" /\ \A i \in Jobs : i # j => slot'[i] = slot[i]
            BY <3>1
        <3> QED
            BY <1>1, <2>1, <3>2, ChainStep
    <2> QED
        BY <2>2, <2>3
<1>9. CASE Collected(j)
    <2>1. Budget!Drop(j) /\ UNCHANGED job /\ job[j].pc = "idle"
        BY <1>9 DEF Collected
    <2>2. job[j] \in JobState /\ job' = [job EXCEPT ![j] = job[j]]
        BY <2>1 DEF IInv
    <2>3. slot'[j] = "idle"
        BY <2>1, OwnSlot
    <2> QED
        BY <2>1, <2>2, <2>3, OtherSlots, ChainStep
<1> QED
    BY <1>2, <1>3, <1>4, <1>5, <1>6, <1>7, <1>8, <1>9 DEF Step

\* A chain and its slot never disagree: no slot is left with a chain that is over.
THEOREM SlotsFollowChains == Spec => []SlotsOfChains
<1>1. Init => SlotsOfChains
    BY DEF Init, NoJob, Budget!Init, SlotsOfChains
<1>2. IInv /\ BP!IInv /\ SlotsOfChains /\ [Next]_vars => SlotsOfChains'
    <2> SUFFICES ASSUME IInv, BP!IInv, SlotsOfChains, [Next]_vars PROVE SlotsOfChains'
        OBVIOUS
    <2>1. CASE UNCHANGED <<job, slot>>
        BY <2>1 DEF SlotsOfChains
    <2> QED
        BY <2>1, GetSlot, StepSlot DEF Next, Expire, Sweep, vars, budgetVars
<1> QED
    BY <1>1, <1>2, InductiveInvariant, BudgetHolds, PTL DEF Spec

\* At most MaxPending loaders run at a time, whatever fails, times out or is evicted.
THEOREM LoadersBounded ==
    Spec => [](Cardinality({j \in Jobs : job[j].pc = "loading"}) <= MaxPending)
<1>1. BP!IInv /\ SlotsOfChains => Cardinality({j \in Jobs : job[j].pc = "loading"}) <= MaxPending
    <2> SUFFICES ASSUME BP!IInv, SlotsOfChains
                 PROVE  Cardinality({j \in Jobs : job[j].pc = "loading"}) <= MaxPending
        OBVIOUS
    <2> DEFINE loading == {j \in Jobs : job[j].pc = "loading"}
               held == {j \in Jobs : slot[j] = "granted"}
    <2>1. loading \subseteq held
        BY DEF SlotsOfChains
    <2>2. IsFiniteSet(held) /\ active = Cardinality(held) /\ active \in 0..MaxPending
        <3>1. BP!IsFiniteSet(held) => IsFiniteSet(held)
            BY Zenon DEF BP!IsFiniteSet, IsFiniteSet
        <3>2. BP!Cardinality(held) = Cardinality(held)
            BY Zenon DEF BP!Cardinality, Cardinality
        <3> QED
            BY <3>1, <3>2 DEF BP!IInv, BP!Holders, BP!SlotsAccounted, BP!TypeOK
    <2> HIDE DEF loading, held
    <2>3. Cardinality(loading) <= Cardinality(held) /\ Cardinality(loading) \in Nat
        BY <2>1, <2>2, FS_Subset, FS_CardinalityType
    <2>4. Cardinality(loading) <= MaxPending
        BY <2>2, <2>3, LimitsAssumption
    <2> QED
        BY <2>4 DEF loading
<1> QED
    BY <1>1, SlotsFollowChains, BudgetHolds, PTL
=============================================================================
