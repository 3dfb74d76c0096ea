----------------------------- MODULE SumTheorems -----------------------------
(***************************************************************************)
(* Induction and sums over finite sets, for the proofs of the components.  *)
(* SumFunctionOnSet folds a function over a finite set, taking any element *)
(* first; its facts are proved by induction.  The induction principles are *)
(* stated for sets in place of predicates.                                 *)
(***************************************************************************)
EXTENDS Functions, FiniteSetTheorems, WellFoundedInduction, TLAPS

\* Induction over the naturals, for a set in place of a predicate.
LEMMA NatSetInduction ==
    ASSUME NEW T, 0 \in T, \A n \in Nat : n \in T => n + 1 \in T
    PROVE  Nat \subseteq T
<1> DEFINE R == {ss \in Nat \X Nat : ss[1] < ss[2]}
           U == Nat \ T
<1>1. SUFFICES ASSUME U # {} PROVE FALSE
    OBVIOUS
<1>2. IsWellFoundedOn(R, Nat)
    BY NatLessThanWellFounded, Zenon DEF OpToRel
<1>3. \E x \in U : \A y \in U : ~(<<y, x>> \in R)
  <2>1. U \subseteq Nat OBVIOUS
  <2> HIDE DEF U, R
  <2> QED BY <1>1, <1>2, <2>1, WFMin
<1>4. PICK x \in U : \A y \in U : ~(<<y, x>> \in R)
    BY <1>3
<1>5. x \in Nat \ {0} /\ x - 1 \in Nat /\ x - 1 < x
    OBVIOUS
<1>6. x - 1 \in U
    BY <1>5, <1>4
<1>7. <<x - 1, x>> \in R
    BY <1>5
<1> QED BY <1>4, <1>6, <1>7

\* Induction over a finite set, for a set of its subsets in place of a predicate.
LEMMA SubsetInduction ==
    ASSUME NEW S, IsFiniteSet(S), NEW P, {} \in P,
           \A T \in SUBSET S : \A x \in S \ T : T \in P => T \cup {x} \in P
    PROVE  SUBSET S \subseteq P
<1> DEFINE Bad == (SUBSET S) \ P
           R == StrictSubsetOrdering(S)
<1>1. SUFFICES ASSUME Bad # {} PROVE FALSE
    OBVIOUS
<1>2. IsWellFoundedOn(R, FiniteSubsetsOf(S)) /\ FiniteSubsetsOf(S) = SUBSET S
    BY FS_StrictSubsetOrderingWellFounded, FS_FiniteSubsetsOfFinite
<1>3. PICK T \in Bad : \A U \in Bad : ~(<<U, T>> \in R)
    <2>1. Bad \subseteq SUBSET S
        OBVIOUS
    <2> HIDE DEF Bad, R
    <2> QED
        BY <1>1, <1>2, <2>1, WFMin
<1>4. PICK x \in T : TRUE
    OBVIOUS
<1>5. <<T \ {x}, T>> \in R
    BY DEF StrictSubsetOrdering
<1>6. T \ {x} \in P
    BY <1>3, <1>5
<1>7. (T \ {x}) \cup {x} = T
    OBVIOUS
<1> QED
    BY <1>6, <1>7

\* A family of subsets of a finite set has a smallest member.
LEMMA SmallestMember ==
    ASSUME NEW S, IsFiniteSet(S), NEW P \in SUBSET (SUBSET S), P # {}
    PROVE  \E A \in P : \A B \in P : B \subseteq A => B = A
<1> DEFINE R == StrictSubsetOrdering(S)
           F == FiniteSubsetsOf(S)
<1>1. IsWellFoundedOn(R, F)
    BY FS_FiniteSubsetsOfFinite, FS_StrictSubsetOrderingWellFounded
<1>2. P \subseteq F
    BY FS_Subset DEF FiniteSubsetsOf
<1>3. \E A \in P : \A B \in P : ~(<<B, A>> \in R)
    <2> HIDE DEF R, F
    <2> QED
        BY <1>1, <1>2, WFMin
<1> QED
    BY <1>3 DEF StrictSubsetOrdering

Picked(s) == CHOOSE x \in s : TRUE

\* it[s] is the sum of f over s, for every subset s of S: what the library's fold computes.
Sums(it, f, S) ==
    \A s \in SUBSET S : it[s] = IF s = {} THEN 0 ELSE f[Picked(s)] + it[s \ {Picked(s)}]

Iter(f, S) == CHOOSE iter : iter = [s \in SUBSET S |->
                  IF s = {} THEN 0
                  ELSE f[CHOOSE x \in s : TRUE] + iter[s \ {CHOOSE x \in s : TRUE}]]

LEMMA SumIsIter ==
    ASSUME NEW f, NEW S
    PROVE  SumFunctionOnSet(f, S) = Iter(f, S)[S]
BY Zenon DEF SumFunctionOnSet, FoldFunctionOnSet, MapThenFoldSet, Iter

LEMMA PickedOf == ASSUME NEW s, s # {} PROVE Picked(s) \in s
BY DEF Picked

LEMMA SumsExist ==
    ASSUME NEW S, IsFiniteSet(S), NEW f, \A x \in S : f[x] \in Nat
    PROVE  \E it \in [SUBSET S -> Nat] : Sums(it, f, S)
<1> DEFINE Value(it, s) == IF s = {} THEN 0 ELSE f[Picked(s)] + it[s \ {Picked(s)}]
           UpTo(it, n) == \A s \in SUBSET S : Cardinality(s) <= n => it[s] = Value(it, s)
           Level == {n \in Nat : \E it \in [SUBSET S -> Nat] : UpTo(it, n)}
<1>1. \A s \in SUBSET S : IsFiniteSet(s) /\ Cardinality(s) \in Nat /\ Cardinality(s) <= Cardinality(S)
    BY FS_Subset, FS_CardinalityType
<1>2. 0 \in Level
    <2> DEFINE it == [s \in SUBSET S |-> 0]
    <2>1. UpTo(it, 0)
        BY <1>1, FS_EmptySet
    <2> QED
        BY <2>1
<1>3. ASSUME NEW n \in Nat, n \in Level PROVE n + 1 \in Level
    <2>1. PICK old \in [SUBSET S -> Nat] : UpTo(old, n)
        BY <1>3
    <2> DEFINE it == [s \in SUBSET S |-> IF Cardinality(s) <= n THEN old[s] ELSE Value(old, s)]
    <2>2. \A s \in SUBSET S : s # {} =>
              /\ Picked(s) \in S /\ f[Picked(s)] \in Nat /\ s \ {Picked(s)} \in SUBSET S
              /\ Cardinality(s \ {Picked(s)}) = Cardinality(s) - 1
        BY <1>1, PickedOf, FS_RemoveElement
    <2>3. it \in [SUBSET S -> Nat]
        BY <2>2
    <2>4. UpTo(it, n + 1)
        <3> SUFFICES ASSUME NEW s \in SUBSET S, Cardinality(s) <= n + 1 PROVE it[s] = Value(it, s)
            OBVIOUS
        <3>1. CASE s = {}
            BY <3>1, <2>1, FS_EmptySet
        <3>2. CASE s # {}
            <4>1. Cardinality(s \ {Picked(s)}) <= n
                BY <1>1, <2>2, <3>2
            <4>2. it[s \ {Picked(s)}] = old[s \ {Picked(s)}]
                BY <2>2, <3>2, <4>1
            <4>3. it[s] = Value(old, s)
                BY <2>1
            <4> QED
                BY <3>2, <4>2, <4>3
        <3> QED
            BY <3>1, <3>2
    <2> HIDE DEF it, UpTo
    <2> QED
        BY <2>3, <2>4
<1>4. Cardinality(S) \in Level
    BY <1>1, <1>2, <1>3, NatSetInduction
<1>5. PICK it \in [SUBSET S -> Nat] : UpTo(it, Cardinality(S))
    BY <1>4
<1> QED
    BY <1>1, <1>5 DEF Sums

\* Which sums a set has does not depend on how they are computed.
LEMMA SumsAgree ==
    ASSUME NEW S, IsFiniteSet(S), NEW f, NEW g, \A x \in S : f[x] = g[x],
           NEW A, NEW it, Sums(it, f, A), S \subseteq A,
           NEW B, NEW jt, Sums(jt, g, B), S \subseteq B
    PROVE  it[S] = jt[S]
<1> DEFINE Level == {n \in Nat : \A s \in SUBSET S : Cardinality(s) = n => it[s] = jt[s]}
<1>1. \A s \in SUBSET S : IsFiniteSet(s) /\ Cardinality(s) \in Nat
    BY FS_Subset, FS_CardinalityType
<1>2. 0 \in Level
    BY <1>1, FS_EmptySet DEF Sums
<1>3. ASSUME NEW n \in Nat, n \in Level PROVE n + 1 \in Level
    <2> SUFFICES ASSUME NEW s \in SUBSET S, Cardinality(s) = n + 1 PROVE it[s] = jt[s]
        OBVIOUS
    <2>1. s # {}
        BY FS_EmptySet
    <2>2. Picked(s) \in s /\ Cardinality(s \ {Picked(s)}) = n
        <3>1. Picked(s) \in s
            BY <2>1, PickedOf
        <3>2. Cardinality(s \ {Picked(s)}) = Cardinality(s) - 1
            BY <1>1, <3>1, FS_RemoveElement
        <3> QED
            BY <3>1, <3>2
    <2>3. it[s \ {Picked(s)}] = jt[s \ {Picked(s)}]
        BY <1>3, <2>2
    <2>4. it[s] = f[Picked(s)] + it[s \ {Picked(s)}] /\ jt[s] = g[Picked(s)] + jt[s \ {Picked(s)}]
        BY <2>1 DEF Sums
    <2> QED
        BY <2>2, <2>3, <2>4
<1>4. Cardinality(S) \in Level
    <2> HIDE DEF Level
    <2> QED
        BY <1>1, <1>2, <1>3, NatSetInduction
<1> QED
    BY <1>4

LEMMA IterSums ==
    ASSUME NEW S, IsFiniteSet(S), NEW f, \A x \in S : f[x] \in Nat
    PROVE  Sums(Iter(f, S), f, S) /\ SumFunctionOnSet(f, S) \in Nat
<1> DEFINE step(it, s) == IF s = {} THEN 0 ELSE f[Picked(s)] + it[s \ {Picked(s)}]
<1>1. PICK it \in [SUBSET S -> Nat] : Sums(it, f, S)
    BY SumsExist
<1>2. it = [s \in SUBSET S |-> step(it, s)]
    BY <1>1 DEF Sums
<1>3. Iter(f, S) = CHOOSE iter : iter = [s \in SUBSET S |-> step(iter, s)]
    BY DEF Iter, Picked
<1>4. Iter(f, S) = [s \in SUBSET S |-> step(Iter(f, S), s)]
    <2> HIDE DEF step
    <2> QED
        BY <1>2, <1>3
<1>5. Sums(Iter(f, S), f, S)
    BY <1>4 DEF Sums
<1>6. Iter(f, S)[S] = it[S]
    BY <1>1, <1>5, SumsAgree
<1> QED
    BY <1>5, <1>6, SumIsIter

LEMMA SumEmpty == \A f : SumFunctionOnSet(f, {}) = 0
BY IterSums, SumIsIter, FS_EmptySet DEF Sums

\* The sum over part of what Iter was computed for.
LEMMA SumPart ==
    ASSUME NEW S, IsFiniteSet(S), NEW f, \A x \in S : f[x] \in Nat, NEW T \in SUBSET S
    PROVE  SumFunctionOnSet(f, T) = Iter(f, S)[T]
<1>1. IsFiniteSet(T) /\ \A x \in T : f[x] \in Nat
    BY FS_Subset
<1>2. Sums(Iter(f, S), f, S) /\ Sums(Iter(f, T), f, T)
    BY <1>1, IterSums
<1> QED
    BY <1>1, <1>2, SumsAgree, SumIsIter

LEMMA SumSame ==
    ASSUME NEW S, IsFiniteSet(S), NEW f, \A x \in S : f[x] \in Nat, NEW g, \A x \in S : f[x] = g[x]
    PROVE  SumFunctionOnSet(f, S) = SumFunctionOnSet(g, S)
<1>1. Sums(Iter(f, S), f, S) /\ Sums(Iter(g, S), g, S)
    BY IterSums
<1> QED
    BY <1>1, SumsAgree, SumIsIter

LEMMA SumRemove ==
    ASSUME NEW S, IsFiniteSet(S), NEW f, \A x \in S : f[x] \in Nat, NEW x \in S
    PROVE  SumFunctionOnSet(f, S) = f[x] + SumFunctionOnSet(f, S \ {x})
<1> DEFINE it == Iter(f, S)
           Level == {n \in Nat : \A s \in SUBSET S : Cardinality(s) = n =>
                                     \A y \in s : it[s] = f[y] + it[s \ {y}]}
<1>1. \A s \in SUBSET S : IsFiniteSet(s) /\ Cardinality(s) \in Nat
    BY FS_Subset, FS_CardinalityType
<1>2. 0 \in Level
    BY <1>1, FS_EmptySet
<1>3. ASSUME NEW n \in Nat, n \in Level PROVE n + 1 \in Level
    <2> SUFFICES ASSUME NEW s \in SUBSET S, Cardinality(s) = n + 1, NEW y \in s
                 PROVE  it[s] = f[y] + it[s \ {y}]
        OBVIOUS
    <2> DEFINE a == Picked(s)
    <2>1. a \in s /\ it[s] = f[a] + it[s \ {a}]
        BY PickedOf, IterSums DEF Sums
    <2> HIDE DEF a
    <2>2. CASE y = a
        BY <2>1, <2>2
    <2>3. CASE y # a
        <3>1. /\ s \ {a} \in SUBSET S /\ Cardinality(s \ {a}) = n /\ y \in s \ {a}
              /\ s \ {y} \in SUBSET S /\ Cardinality(s \ {y}) = n /\ a \in s \ {y}
            <4>1. Cardinality(s \ {a}) = n /\ Cardinality(s \ {y}) = n
                <5>1. IsFiniteSet(s) /\ Cardinality(s) \in Nat
                    BY <1>1
                <5>2. \A z \in s : Cardinality(s \ {z}) = Cardinality(s) - 1
                    BY <5>1, FS_RemoveElement
                <5> QED
                    BY <2>1, <5>1, <5>2
            <4> QED
                BY <2>1, <2>3, <4>1
        <3>2. it[s \ {a}] = f[y] + it[(s \ {a}) \ {y}] /\ it[s \ {y}] = f[a] + it[(s \ {y}) \ {a}]
            BY <1>3, <3>1
        <3>3. (s \ {a}) \ {y} = (s \ {y}) \ {a}
            OBVIOUS
        <3>4. (s \ {a}) \ {y} \in SUBSET S
            OBVIOUS
        <3>5. it[(s \ {a}) \ {y}] \in Nat
            <4>1. IsFiniteSet((s \ {a}) \ {y}) /\ \A z \in (s \ {a}) \ {y} : f[z] \in Nat
                BY <1>1, <3>4
            <4> QED
                BY <3>4, <4>1, SumPart, IterSums
        <3>6. f[a] \in Nat /\ f[y] \in Nat
            BY <2>1
        <3> HIDE DEF it, Level
        <3> QED
            BY <2>1, <3>2, <3>3, <3>5, <3>6
    <2> QED
        BY <2>2, <2>3
<1>4. Cardinality(S) \in Level
    <2> HIDE DEF Level
    <2> QED
        BY <1>1, <1>2, <1>3, NatSetInduction
<1>5. it[S] = f[x] + it[S \ {x}]
    BY <1>4
<1> QED
    BY <1>5, SumPart

LEMMA SumSplit ==
    ASSUME NEW S, IsFiniteSet(S), NEW f, \A x \in S : f[x] \in Nat, NEW T \in SUBSET S
    PROVE  SumFunctionOnSet(f, S) = SumFunctionOnSet(f, T) + SumFunctionOnSet(f, S \ T)
<1> DEFINE Good == {U \in SUBSET S :
               SumFunctionOnSet(f, S) = SumFunctionOnSet(f, U) + SumFunctionOnSet(f, S \ U)}
<1>1. \A U \in SUBSET S : IsFiniteSet(U) /\ SumFunctionOnSet(f, U) \in Nat
    BY FS_Subset, IterSums
<1>2. {} \in Good
    BY <1>1, SumEmpty
<1>3. ASSUME NEW U \in SUBSET S, NEW x \in S \ U, U \in Good PROVE U \cup {x} \in Good
    <2>1. SumFunctionOnSet(f, U \cup {x}) = f[x] + SumFunctionOnSet(f, U)
        <3>1. (U \cup {x}) \ {x} = U /\ U \cup {x} \in SUBSET S
            OBVIOUS
        <3> QED
            BY <1>1, <3>1, SumRemove
    <2>2. SumFunctionOnSet(f, S \ U) = f[x] + SumFunctionOnSet(f, S \ (U \cup {x}))
        <3>1. (S \ U) \ {x} = S \ (U \cup {x}) /\ S \ U \in SUBSET S
            OBVIOUS
        <3> QED
            BY <1>1, <3>1, SumRemove
    <2>3. U \cup {x} \in SUBSET S /\ S \ (U \cup {x}) \in SUBSET S /\ f[x] \in Nat
        OBVIOUS
    <2> QED
        BY <1>1, <1>3, <2>1, <2>2, <2>3
<1>4. SUBSET S \subseteq Good
    <2> HIDE DEF Good
    <2> QED
        BY <1>2, <1>3, SubsetInduction
<1> QED
    BY <1>4

LEMMA SumZero ==
    ASSUME NEW S, IsFiniteSet(S), NEW f, \A x \in S : f[x] = 0
    PROVE  SumFunctionOnSet(f, S) = 0
<1> DEFINE Good == {U \in SUBSET S : SumFunctionOnSet(f, U) = 0}
<1>1. {} \in Good
    BY SumEmpty
<1>2. ASSUME NEW U \in SUBSET S, NEW x \in S \ U, U \in Good PROVE U \cup {x} \in Good
    <2>1. (U \cup {x}) \ {x} = U /\ U \cup {x} \in SUBSET S /\ IsFiniteSet(U \cup {x})
        BY FS_Subset
    <2>2. SumFunctionOnSet(f, U \cup {x}) = f[x] + SumFunctionOnSet(f, U)
        BY <2>1, SumRemove
    <2> QED
        BY <1>2, <2>1, <2>2
<1>3. SUBSET S \subseteq Good
    <2> HIDE DEF Good
    <2> QED
        BY <1>1, <1>2, SubsetInduction
<1> QED
    BY <1>3

\* The sum of the sums of two functions.
LEMMA SumAdds ==
    ASSUME NEW S, IsFiniteSet(S), NEW f, NEW g, NEW h,
           \A x \in S : f[x] \in Nat /\ g[x] \in Nat /\ h[x] = f[x] + g[x]
    PROVE  /\ SumFunctionOnSet(f, S) + SumFunctionOnSet(g, S) = SumFunctionOnSet(h, S)
           /\ SumFunctionOnSet(f, S) \in Nat /\ SumFunctionOnSet(g, S) \in Nat
<1> DEFINE Good == {U \in SUBSET S : SumFunctionOnSet(f, U) + SumFunctionOnSet(g, U) = SumFunctionOnSet(h, U)}
<1>1. \A U \in SUBSET S : /\ IsFiniteSet(U) /\ SumFunctionOnSet(f, U) \in Nat
                         /\ SumFunctionOnSet(g, U) \in Nat /\ SumFunctionOnSet(h, U) \in Nat
    <2> SUFFICES ASSUME NEW U \in SUBSET S
                 PROVE  /\ IsFiniteSet(U) /\ SumFunctionOnSet(f, U) \in Nat
                        /\ SumFunctionOnSet(g, U) \in Nat /\ SumFunctionOnSet(h, U) \in Nat
        OBVIOUS
    <2>1. IsFiniteSet(U)
        BY FS_Subset
    <2>2. \A x \in U : f[x] \in Nat
        OBVIOUS
    <2>3. \A x \in U : g[x] \in Nat
        OBVIOUS
    <2>4. \A x \in U : h[x] \in Nat
        <3>1. \A x \in U : h[x] = f[x] + g[x] /\ f[x] \in Nat /\ g[x] \in Nat
            OBVIOUS
        <3> QED
            BY <3>1
    <2>5. SumFunctionOnSet(f, U) \in Nat
        BY <2>1, <2>2, IterSums
    <2>6. SumFunctionOnSet(g, U) \in Nat
        BY <2>1, <2>3, IterSums
    <2>7. SumFunctionOnSet(h, U) \in Nat
        BY <2>1, <2>4, IterSums
    <2> QED
        BY <2>1, <2>5, <2>6, <2>7
<1>2. {} \in Good
    BY SumEmpty
<1>3. ASSUME NEW U \in SUBSET S, NEW x \in S \ U, U \in Good PROVE U \cup {x} \in Good
    <2>1. (U \cup {x}) \ {x} = U /\ U \cup {x} \in SUBSET S
        OBVIOUS
    <2>2. \A y \in S : f[y] \in Nat /\ g[y] \in Nat /\ h[y] \in Nat
        OBVIOUS
    <2>3. /\ SumFunctionOnSet(f, U \cup {x}) = f[x] + SumFunctionOnSet(f, U)
          /\ SumFunctionOnSet(g, U \cup {x}) = g[x] + SumFunctionOnSet(g, U)
          /\ SumFunctionOnSet(h, U \cup {x}) = h[x] + SumFunctionOnSet(h, U)
        BY <1>1, <2>1, <2>2, SumRemove
    <2>4. f[x] \in Nat /\ g[x] \in Nat /\ h[x] = f[x] + g[x]
        OBVIOUS
    <2> QED
        BY <1>1, <1>3, <2>1, <2>3, <2>4
<1>4. SUBSET S \subseteq Good
    <2> HIDE DEF Good
    <2> QED
        BY <1>2, <1>3, SubsetInduction
<1> QED
    BY <1>1, <1>4

-----------------------------------------------------------------------------
(* Telescoping.                                                            *)

\* f rises by v[p] at the point p, and nowhere else.
RisesAt(P, at, v, f) ==
    /\ IsFiniteSet(P) /\ at \in [P -> Nat] /\ v \in [P -> Nat] /\ f \in [Nat -> Nat]
    /\ \A p, q \in P : at[p] = at[q] => p = q
    /\ \A p \in P : f[at[p] + 1] = f[at[p]] + v[p]
    /\ \A n \in Nat : (\A p \in P : at[p] # n) => f[n + 1] = f[n]

\* Over an interval the rises add up to the difference.
LEMMA Telescope ==
    ASSUME NEW P, NEW at, NEW v, NEW f, RisesAt(P, at, v, f), NEW a \in Nat, NEW b \in Nat, a <= b
    PROVE  f[b] = f[a] + SumFunctionOnSet(v, {p \in P : a <= at[p] /\ at[p] < b})
<1> USE DEF RisesAt
<1> DEFINE Upto(n) == {p \in P : a <= at[p] /\ at[p] < a + n}
           Good == {n \in Nat : f[a + n] = f[a] + SumFunctionOnSet(v, Upto(n))}
<1>1. 0 \in Good
    <2>1. \A p \in P : at[p] \in Nat
        OBVIOUS
    <2>2. a + 0 = a /\ f[a] \in Nat
        OBVIOUS
    <2>3. Upto(0) = {}
        BY <2>1
    <2>4. SumFunctionOnSet(v, Upto(0)) = 0
        BY <2>3, SumEmpty
    <2> HIDE DEF Upto
    <2> QED
        BY <2>2, <2>4
<1>2. ASSUME NEW n \in Nat, n \in Good PROVE n + 1 \in Good
    <2>1. a + n \in Nat /\ a + (n + 1) = (a + n) + 1 /\ a + (n + 1) \in Nat
        OBVIOUS
    <2>2. IsFiniteSet(Upto(n)) /\ IsFiniteSet(Upto(n + 1)) /\ \A p \in P : v[p] \in Nat
        BY FS_Subset
    <2>3. SumFunctionOnSet(v, Upto(n)) \in Nat
        BY <2>2, IterSums
    <2>6. \A p \in P : /\ at[p] < a + (n + 1) <=> (at[p] < a + n \/ at[p] = a + n)
                       /\ at[p] = a + n => ~(at[p] < a + n) /\ a <= at[p]
        <3>1. \A p \in P : at[p] \in Nat
            OBVIOUS
        <3> QED
            BY <3>1
    <2>4. CASE \A p \in P : at[p] # a + n
        <3>1. Upto(n + 1) = Upto(n)
            <4>1. \A q \in P : at[q] < a + (n + 1) <=> at[q] < a + n
                BY <2>4, <2>6
            <4>2. \A q : q \in Upto(n + 1) <=> q \in Upto(n)
                BY <4>1, Zenon
            <4> HIDE DEF Upto
            <4> QED
                BY <4>2
        <3>2. f[(a + n) + 1] = f[a + n]
            BY <2>1, <2>4
        <3> HIDE DEF Upto
        <3> QED
            BY <1>2, <2>1, <3>1, <3>2
    <2>5. ASSUME NEW p \in P, at[p] = a + n PROVE n + 1 \in Good
        <3>1. p \in Upto(n + 1) /\ Upto(n + 1) \ {p} = Upto(n)
            <4>1. \A q \in P : at[q] = a + n <=> q = p
                BY <2>5
            <4>2. \A q : q \in Upto(n + 1) <=> q \in Upto(n) \/ q = p
                BY <2>6, <4>1
            <4>3. p \notin Upto(n)
                BY <2>5, <2>6
            <4> HIDE DEF Upto
            <4> QED
                BY <4>2, <4>3
        <3>2. f[(a + n) + 1] = f[a + n] + v[p]
            BY <2>5
        <3>3. SumFunctionOnSet(v, Upto(n + 1)) = v[p] + SumFunctionOnSet(v, Upto(n))
            <4>1. \A q \in Upto(n + 1) : v[q] \in Nat
                BY <2>2
            <4> HIDE DEF Upto
            <4> QED
                BY <2>2, <3>1, <4>1, SumRemove
        <3>4. v[p] \in Nat /\ f[a] \in Nat
            OBVIOUS
        <3> HIDE DEF Upto
        <3> QED
            BY <1>2, <2>1, <2>3, <3>2, <3>3, <3>4
    <2> QED
        BY <2>4, <2>5
<1>3. b - a \in Good
    <2> HIDE DEF Good
    <2>1. b - a \in Nat
        OBVIOUS
    <2> QED
        BY <1>1, <1>2, <2>1, NatSetInduction
<1>4. Upto(b - a) = {p \in P : a <= at[p] /\ at[p] < b} /\ a + (b - a) = b
    OBVIOUS
<1> QED
    BY <1>3, <1>4

-----------------------------------------------------------------------------
(* Images and groups.                                                      *)

LEMMA FiniteImage ==
    ASSUME NEW S, IsFiniteSet(S), NEW f
    PROVE  IsFiniteSet({f[x] : x \in S})
<1> DEFINE T == {f[x] : x \in S}
           h == [x \in S |-> f[x]]
<1>1. h \in Surjection(S, T)
    BY DEF Surjection
<1> HIDE DEF h, T
<1>2. IsFiniteSet(T)
    BY <1>1, FS_Surjection
<1> QED
    BY <1>2 DEF T

\* The rows S, with values v, belong to the keys K.
Grouped(S, v, K, key) ==
    /\ IsFiniteSet(S) /\ \A s \in S : v[s] \in Nat
    /\ IsFiniteSet(K) /\ \A s \in S : key[s] \in K

\* A sum may be taken key by key.
LEMMA SumByKey ==
    ASSUME NEW S, NEW v, NEW K, NEW key, Grouped(S, v, K, key),
           NEW g, \A k \in K : g[k] = SumFunctionOnSet(v, {s \in S : key[s] = k})
    PROVE  SumFunctionOnSet(g, K) = SumFunctionOnSet(v, S)
<1> USE DEF Grouped
<1> DEFINE Of(U) == {s \in S : key[s] \in U}
           Good == {U \in SUBSET K : SumFunctionOnSet(g, U) = SumFunctionOnSet(v, Of(U))}
<1>1. \A T \in SUBSET S : IsFiniteSet(T) /\ SumFunctionOnSet(v, T) \in Nat
    BY FS_Subset, IterSums
<1>2. \A k \in K : g[k] \in Nat
    BY <1>1
<1>3. {} \in Good
    <2>1. Of({}) = {}
        OBVIOUS
    <2> QED
        BY <2>1, SumEmpty
<1>4. ASSUME NEW U \in SUBSET K, NEW k \in K \ U, U \in Good PROVE U \cup {k} \in Good
    <2>1. IsFiniteSet(U \cup {k}) /\ (U \cup {k}) \ {k} = U /\ \A x \in U \cup {k} : g[x] \in Nat
        BY <1>2, FS_Subset
    <2>2. SumFunctionOnSet(g, U \cup {k}) = g[k] + SumFunctionOnSet(g, U)
        BY <2>1, SumRemove
    <2>3. /\ IsFiniteSet(Of(U \cup {k})) /\ \A s \in Of(U \cup {k}) : v[s] \in Nat
          /\ Of(U) \in SUBSET Of(U \cup {k})
          /\ Of(U \cup {k}) \ Of(U) = {s \in S : key[s] = k}
        BY <1>1
    <2>4. SumFunctionOnSet(v, Of(U \cup {k})) = SumFunctionOnSet(v, Of(U)) + g[k]
        <3> DEFINE A == Of(U \cup {k})
                   B == Of(U)
        <3>1. IsFiniteSet(A) /\ (\A x \in A : v[x] \in Nat) /\ B \in SUBSET A
            BY <2>3
        <3>2. g[k] = SumFunctionOnSet(v, A \ B)
            BY <2>3
        <3> HIDE DEF A, B
        <3>3. SumFunctionOnSet(v, A) = SumFunctionOnSet(v, B) + SumFunctionOnSet(v, A \ B)
            BY <3>1, SumSplit
        <3> QED
            BY <3>2, <3>3 DEF A, B
    <2>5. SumFunctionOnSet(v, Of(U)) \in Nat /\ g[k] \in Nat
        BY <1>1, <1>2
    <2> HIDE DEF Of
    <2> QED
        BY <1>4, <2>2, <2>4, <2>5
<1>5. K \in Good
    <2> HIDE DEF Good
    <2> QED
        BY <1>3, <1>4, SubsetInduction
<1>6. Of(K) = S
    OBVIOUS
<1> QED
    BY <1>5, <1>6
=============================================================================
