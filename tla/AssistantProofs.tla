--------------------------- MODULE AssistantProofs ----------------------------
(***************************************************************************)
(* Theorems about the two parts that call the model: a chat turn           *)
(* (ChatTurn) and the lease of the daily insights (InsightsLease), for any *)
(* limits and any numbers of questions, pods, attempts and faults.         *)
(***************************************************************************)
EXTENDS ChatTurn, InsightsLease, SumTheorems, SequenceTheorems

(***************************************************************************)
(* ChatTurn: the conversation each model call is given, the answers the    *)
(* page shows, and the slots the turns hold.  The invariant says of each   *)
(* request what its phase lets the conversation look like, and of the page *)
(* that only the last question's stream is read, and where its answer      *)
(* goes.                                                                   *)
(***************************************************************************)

Message == [role : Roles, kind : {"said", "blank", "error"}, of : Asks]

LEMMA Parameters ==
    /\ MaxMessages \in Nat \ {0} /\ MaxHops \in Nat \ {0} /\ MaxSqlCalls \in Nat \ {0}
    /\ MaxRetries \in Nat \ {0} /\ Budget \in Nat \ {0}
    /\ MaxBlocks \in Nat \ {0} /\ MaxAsks \in Nat \ {0}
BY ChatAssumption

-----------------------------------------------------------------------------
(* History, one message at a time: the library's fold has a value for each *)
(* set of positions, and on 1..n it merges message n into what came before.*)

Merge(h, m) ==
    IF m.kind # "said" THEN h
    ELSE IF h # <<>> /\ Last(h).role = m.role THEN Append(Front(h), m)
    ELSE Append(h, m)

Value(it, all, s) == IF s = {} THEN <<>> ELSE Merge(it[s \ {Max(s)}], all[Max(s)])

Folded(all, S) == CHOOSE iter : iter = [s \in SUBSET S |->
                    IF s = {} THEN <<>> ELSE Merge(iter[s \ {Max(s)}], all[Max(s)])]

LEMMA HistoryIsIter ==
    ASSUME NEW all
    PROVE  History(all) = Folded(all, DOMAIN all)[DOMAIN all]
BY Zenon DEF History, FoldLeft, MapThenFoldSet, Folded, Merge

LEMMA MergeType ==
    ASSUME NEW h \in Seq(Message), NEW m \in Message
    PROVE  Merge(h, m) \in Seq(Message)
BY DEF Merge, Front, Last

LEMMA MaxIn ==
    ASSUME NEW N \in Nat, NEW s \in SUBSET (1..N), s # {}
    PROVE  Max(s) \in s /\ \A x \in s : x <= Max(s)
<1> DEFINE T == {n \in Nat : \A t \in SUBSET (1..n) : t # {} => \E x \in t : \A y \in t : x >= y}
<1>1. 0 \in T
    <2>1. \A t \in SUBSET (1..0) : t = {}
        OBVIOUS
    <2> QED
        BY <2>1
<1>2. ASSUME NEW n \in Nat, n \in T PROVE n + 1 \in T
    <2> SUFFICES ASSUME NEW t \in SUBSET (1..(n + 1)), t # {} PROVE \E x \in t : \A y \in t : x >= y
        OBVIOUS
    <2>1. CASE n + 1 \in t
        BY <2>1
    <2>2. CASE n + 1 \notin t
        <3>1. t \in SUBSET (1..n)
            BY <2>2
        <3> QED
            BY <3>1, <1>2
    <2> QED
        BY <2>1, <2>2
<1>3. N \in T
    <2> HIDE DEF T
    <2> QED
        BY <1>1, <1>2, NatSetInduction
<1>4. \E x \in s : \A y \in s : x >= y
    BY <1>3
<1>5. Max(s) \in s /\ \A y \in s : Max(s) >= y
    BY <1>4, Zenon DEF Max
<1>6. \A y \in s : y \in Nat
    OBVIOUS
<1> QED
    BY <1>5, <1>6

LEMMA MaxOfInterval ==
    ASSUME NEW n \in Nat, n > 0
    PROVE  1..n # {} /\ Max(1..n) = n /\ (1..n) \ {n} = 1..(n - 1)
<1>1. n \in 1..n /\ (1..n) \ {n} = 1..(n - 1)
    OBVIOUS
<1>2. Max(1..n) \in 1..n /\ n <= Max(1..n)
    BY <1>1, MaxIn
<1>3. \A m \in 1..n : n <= m => m = n
    OBVIOUS
<1> QED
    BY <1>1, <1>2, <1>3

LEMMA IterExists ==
    ASSUME NEW S, IsFiniteSet(S), \A s \in SUBSET S : s # {} => Max(s) \in s,
           NEW all, \A i \in S : all[i] \in Message
    PROVE  \E it \in [SUBSET S -> Seq(Message)] : \A s \in SUBSET S : it[s] = Value(it, all, s)
<1> DEFINE UpTo(it, n) == \A s \in SUBSET S : Cardinality(s) <= n => it[s] = Value(it, all, s)
           Level == {n \in Nat : \E it \in [SUBSET S -> Seq(Message)] : UpTo(it, n)}
<1>1. \A s \in SUBSET S : IsFiniteSet(s) /\ Cardinality(s) \in Nat /\ Cardinality(s) <= Cardinality(S)
    BY FS_Subset, FS_CardinalityType
<1>2. \A s \in SUBSET S : s # {} =>
          /\ Max(s) \in S /\ all[Max(s)] \in Message /\ s \ {Max(s)} \in SUBSET S
          /\ Cardinality(s \ {Max(s)}) = Cardinality(s) - 1
    BY <1>1, FS_RemoveElement
<1>3. 0 \in Level
    <2> DEFINE it == [s \in SUBSET S |-> <<>>]
    <2>1. UpTo(it, 0)
        BY <1>1, FS_EmptySet DEF Value
    <2>2. it \in [SUBSET S -> Seq(Message)]
        OBVIOUS
    <2> HIDE DEF it, UpTo
    <2> QED
        BY <2>1, <2>2
<1>4. ASSUME NEW n \in Nat, n \in Level PROVE n + 1 \in Level
    <2>1. PICK old \in [SUBSET S -> Seq(Message)] : UpTo(old, n)
        BY <1>4
    <2> DEFINE it == [s \in SUBSET S |-> IF Cardinality(s) <= n THEN old[s] ELSE Value(old, all, s)]
    <2>2. ASSUME NEW s \in SUBSET S PROVE Value(old, all, s) \in Seq(Message)
        <3>1. s # {} => old[s \ {Max(s)}] \in Seq(Message) /\ all[Max(s)] \in Message
            BY <1>2
        <3>2. <<>> \in Seq(Message)
            OBVIOUS
        <3> QED
            BY <3>1, <3>2, MergeType, Zenon DEF Value
    <2>3. it \in [SUBSET S -> Seq(Message)]
        BY <2>2
    <2>4. UpTo(it, n + 1)
        <3> SUFFICES ASSUME NEW s \in SUBSET S, Cardinality(s) <= n + 1 PROVE it[s] = Value(it, all, s)
            OBVIOUS
        <3>1. CASE s = {}
            BY <3>1, <2>1, FS_EmptySet DEF Value
        <3>2. CASE s # {}
            <4>1. Cardinality(s \ {Max(s)}) <= n
                <5>1. Cardinality(s) \in Nat /\ Cardinality(s \ {Max(s)}) = Cardinality(s) - 1
                    BY <1>1, <1>2, <3>2
                <5> QED
                    BY <5>1
            <4>2. it[s \ {Max(s)}] = old[s \ {Max(s)}]
                BY <1>2, <3>2, <4>1
            <4>3. it[s] = Value(old, all, s)
                BY <2>1
            <4>4. Value(old, all, s) = Value(it, all, s)
                BY <4>2, Zenon DEF Value
            <4> QED
                BY <4>3, <4>4
        <3> QED
            BY <3>1, <3>2
    <2> HIDE DEF it, UpTo
    <2> QED
        BY <2>3, <2>4
<1>5. Cardinality(S) \in Level
    <2> HIDE DEF Level
    <2> QED
        BY <1>1, <1>3, <1>4, NatSetInduction
<1>6. PICK it \in [SUBSET S -> Seq(Message)] : UpTo(it, Cardinality(S))
    BY <1>5
<1> QED
    BY <1>1, <1>6

LEMMA IterTyped ==
    ASSUME NEW S, IsFiniteSet(S), \A s \in SUBSET S : s # {} => Max(s) \in s,
           NEW all, \A i \in S : all[i] \in Message,
           NEW it, \A s \in SUBSET S : it[s] = Value(it, all, s)
    PROVE  \A s \in SUBSET S : it[s] \in Seq(Message)
<1> DEFINE T == {n \in Nat : \A s \in SUBSET S : Cardinality(s) <= n => it[s] \in Seq(Message)}
<1>1. \A s \in SUBSET S : IsFiniteSet(s) /\ Cardinality(s) \in Nat /\ Cardinality(s) <= Cardinality(S)
    BY FS_Subset, FS_CardinalityType
<1>2. it[{}] \in Seq(Message)
    <2>1. it[{}] = <<>>
        BY Zenon DEF Value
    <2> QED
        BY <2>1
<1>3. 0 \in T
    <2>1. \A s \in SUBSET S : Cardinality(s) <= 0 => s = {}
        BY <1>1, FS_EmptySet
    <2> QED
        BY <1>2, <2>1
<1>4. ASSUME NEW n \in Nat, n \in T PROVE n + 1 \in T
    <2>1. ASSUME NEW s \in SUBSET S, s # {}, Cardinality(s) <= n + 1
          PROVE  it[s] \in Seq(Message)
        <3>1. Max(s) \in s /\ s \ {Max(s)} \in SUBSET S /\ all[Max(s)] \in Message
            BY <2>1
        <3>2. Cardinality(s \ {Max(s)}) = Cardinality(s) - 1
            BY <1>1, <3>1, FS_RemoveElement
        <3>3. Cardinality(s \ {Max(s)}) <= n
            BY <1>1, <2>1, <3>2
        <3>4. it[s \ {Max(s)}] \in Seq(Message)
            BY <1>4, <3>1, <3>3
        <3>5. it[s] = Merge(it[s \ {Max(s)}], all[Max(s)])
            BY <2>1, Zenon DEF Value
        <3> QED
            BY <3>1, <3>4, <3>5, MergeType
    <2>2. ASSUME NEW s \in SUBSET S, Cardinality(s) <= n + 1 PROVE it[s] \in Seq(Message)
        BY <1>2, <2>1, <2>2
    <2> QED
        BY <2>2
<1>5. Cardinality(S) \in T
    <2> HIDE DEF T
    <2> QED
        BY <1>1, <1>3, <1>4, FS_CardinalityType, NatSetInduction
<1> QED
    BY <1>1, <1>5

\* History(all) is the last of a chain that takes in one message at a time.
LEMMA HistorySteps ==
    ASSUME NEW all \in Seq(Message)
    PROVE  \E h \in [0..Len(all) -> Seq(Message)] :
               /\ h[0] = <<>>
               /\ \A n \in 1..Len(all) : h[n] = Merge(h[n - 1], all[n])
               /\ History(all) = h[Len(all)]
<1> DEFINE S == 1..Len(all)
           it == Folded(all, S)
           h == [n \in 0..Len(all) |-> it[1..n]]
<1>1. DOMAIN all = S /\ Len(all) \in Nat /\ \A n \in 0..Len(all) : n \in Nat /\ 1..n \in SUBSET S
    OBVIOUS
<1>2. /\ it \in [SUBSET S -> Seq(Message)]
      /\ \A s \in SUBSET S : it[s] = Value(it, all, s)
    <2>1. IsFiniteSet(S) /\ (\A s \in SUBSET S : s # {} => Max(s) \in s) /\ \A i \in S : all[i] \in Message
        <3>1. IsFiniteSet(S)
            BY <1>1, FS_Interval
        <3>2. \A s \in SUBSET S : s # {} => Max(s) \in s
            BY <1>1, MaxIn
        <3>3. \A i \in S : all[i] \in Message
            BY <1>1
        <3> QED
            BY <3>1, <3>2, <3>3
    <2>2. PICK f \in [SUBSET S -> Seq(Message)] : \A s \in SUBSET S : f[s] = Value(f, all, s)
        BY <2>1, IterExists
    <2>3. f = [s \in SUBSET S |-> Value(f, all, s)]
        BY <2>2
    <2>4. it = [s \in SUBSET S |-> Value(it, all, s)]
        BY <2>3, Zenon DEF Folded, Value
    <2>5. \A s \in SUBSET S : it[s] = Value(it, all, s)
        BY <2>4, Zenon
    <2>6. \A s \in SUBSET S : it[s] \in Seq(Message)
        <3> HIDE DEF it, S
        <3> QED
            BY <2>1, <2>5, IterTyped
    <2>7. it = [s \in SUBSET S |-> it[s]]
        BY <2>4, Zenon
    <2> QED
        BY <2>5, <2>6, <2>7
<1>3. History(all) = h[Len(all)]
    BY <1>1, HistoryIsIter
<1>4. h[0] = <<>>
    <2>1. 1..0 = {} /\ h[0] = it[1..0]
        BY <1>1
    <2> QED
        BY <1>1, <1>2, <2>1 DEF Value
<1>5. ASSUME NEW n \in 1..Len(all) PROVE h[n] = Merge(h[n - 1], all[n])
    <2>1. n \in Nat /\ n > 0 /\ n \in 0..Len(all) /\ n - 1 \in 0..Len(all)
        BY <1>1
    <2>2. h[n] = it[1..n] /\ h[n - 1] = it[1..(n - 1)]
        BY <2>1
    <2>3. it[1..n] = Value(it, all, 1..n)
        BY <1>1, <1>2, <2>1
    <2>4. 1..n # {} /\ Max(1..n) = n /\ (1..n) \ {n} = 1..(n - 1)
        BY <2>1, MaxOfInterval
    <2>5. it[1..n] = Merge(it[1..(n - 1)], all[n])
        BY <2>3, <2>4, Zenon DEF Value
    <2> QED
        BY <2>2, <2>5
<1>6. h \in [0..Len(all) -> Seq(Message)]
    <2> HIDE DEF it
    <2> QED
        BY <1>1, <1>2
<1> HIDE DEF h
<1> QED
    BY <1>3, <1>4, <1>5, <1>6

-----------------------------------------------------------------------------
(* The history sent with a question: its answers still follow their        *)
(* questions, its roles alternate, and it ends in the question.            *)

Belong(s) ==
    \A i \in 1..Len(s) :
        (s[i].role = "assistant" /\ s[i].kind = "said") =>
            i > 1 /\ s[i - 1].role = "user" /\ s[i - 1].of = s[i].of

UsersSaid(s) == \A i \in 1..Len(s) : s[i].role = "user" => s[i].kind = "said"

Alternates(s) == \A i \in 2..Len(s) : s[i].role # s[i - 1].role

LEMMA AppendKeeps ==
    ASSUME NEW h \in Seq(Message), NEW m \in Message, Belong(h), UsersSaid(h), Alternates(h),
           m.role = "user" => m.kind = "said",
           m.role = "assistant" => h # <<>> /\ Last(h).role = "user" /\ Last(h).of = m.of,
           h # <<>> => Last(h).role # m.role
    PROVE  /\ Append(h, m) \in Seq(Message) /\ Append(h, m) # <<>> /\ Last(Append(h, m)) = m
           /\ Belong(Append(h, m)) /\ UsersSaid(Append(h, m)) /\ Alternates(Append(h, m))
<1> DEFINE g == Append(h, m)
           n == Len(h)
<1>1. /\ g \in Seq(Message) /\ g # <<>> /\ n \in Nat /\ Len(g) = n + 1 /\ g[n + 1] = m
      /\ \A i \in 1..n : g[i] = h[i]
    OBVIOUS
<1>2. n > 0 <=> h # <<>>
    OBVIOUS
<1>3. Last(g) = m /\ Last(h) = h[n]
    BY <1>1 DEF Last
<1> HIDE DEF g, n
<1>4. Belong(g)
    <2> SUFFICES ASSUME NEW i \in 1..(n + 1), g[i].role = "assistant", g[i].kind = "said"
                 PROVE  i > 1 /\ g[i - 1].role = "user" /\ g[i - 1].of = g[i].of
        BY <1>1 DEF Belong
    <2>1. CASE i = n + 1
        <3>1. n > 0 /\ h[n].role = "user" /\ h[n].of = m.of
            BY <1>1, <1>2, <1>3, <2>1
        <3>2. n \in 1..n /\ i - 1 = n
            BY <1>1, <3>1, <2>1
        <3> QED
            BY <1>1, <3>1, <3>2, <2>1
    <2>2. CASE i # n + 1
        <3>1. i \in 1..Len(h) /\ g[i] = h[i]
            BY <1>1, <2>2 DEF n
        <3>2. i > 1 /\ h[i - 1].role = "user" /\ h[i - 1].of = h[i].of
            BY <3>1 DEF Belong
        <3>3. i - 1 \in 1..n
            BY <1>1, <3>1, <3>2 DEF n
        <3> QED
            BY <1>1, <3>1, <3>2, <3>3
    <2> QED
        BY <2>1, <2>2
<1>5. UsersSaid(g)
    <2> SUFFICES ASSUME NEW i \in 1..(n + 1), g[i].role = "user" PROVE g[i].kind = "said"
        BY <1>1 DEF UsersSaid
    <2>1. CASE i = n + 1
        BY <1>1, <2>1
    <2>2. CASE i # n + 1
        <3>1. i \in 1..Len(h) /\ g[i] = h[i]
            BY <1>1, <2>2 DEF n
        <3> QED
            BY <3>1 DEF UsersSaid
    <2> QED
        BY <2>1, <2>2
<1>6. Alternates(g)
    <2> SUFFICES ASSUME NEW i \in 2..(n + 1) PROVE g[i].role # g[i - 1].role
        BY <1>1 DEF Alternates
    <2>1. CASE i = n + 1
        <3>1. n > 0 /\ n \in 1..n /\ i - 1 = n
            BY <1>1, <2>1
        <3> QED
            BY <1>1, <1>2, <1>3, <3>1, <2>1
    <2>2. CASE i # n + 1
        <3>1. i \in 2..Len(h) /\ g[i] = h[i] /\ g[i - 1] = h[i - 1]
            BY <1>1, <2>2 DEF n
        <3> QED
            BY <3>1 DEF Alternates
    <2> QED
        BY <2>1, <2>2
<1> QED
    BY <1>1, <1>3, <1>4, <1>5, <1>6 DEF g

LEMMA FrontKeeps ==
    ASSUME NEW h \in Seq(Message), h # <<>>, Belong(h), UsersSaid(h), Alternates(h)
    PROVE  /\ Front(h) \in Seq(Message) /\ Belong(Front(h)) /\ UsersSaid(Front(h)) /\ Alternates(Front(h))
           /\ Front(h) # <<>> => Last(Front(h)).role # Last(h).role
<1> DEFINE g == Front(h)
           n == Len(h)
<1>1. /\ g \in Seq(Message) /\ n \in Nat /\ n > 0 /\ Len(g) = n - 1
      /\ \A i \in 1..(n - 1) : g[i] = h[i]
    <2>1. n \in Nat /\ n > 0 /\ \A i \in 1..(n - 1) : h[i] \in Message
        OBVIOUS
    <2>2. /\ g \in Seq(Message) /\ Len(g) = IF 1 <= n - 1 THEN n - 1 - 1 + 1 ELSE 0
          /\ \A i \in 1..(n - 1 - 1 + 1) : g[i] = h[1 + i - 1]
        <3> HIDE DEF n
        <3> QED
            BY <2>1, SubSeqProperties DEF Front, n
    <2> HIDE DEF g, n
    <2>3. n - 1 - 1 + 1 = n - 1 /\ \A i \in 1..(n - 1) : 1 + i - 1 = i
        BY <2>1
    <2> QED
        BY <2>1, <2>2, <2>3
<1> HIDE DEF g
<1>2. Belong(g)
    <2> SUFFICES ASSUME NEW i \in 1..(n - 1), g[i].role = "assistant", g[i].kind = "said"
                 PROVE  i > 1 /\ g[i - 1].role = "user" /\ g[i - 1].of = g[i].of
        BY <1>1 DEF Belong
    <2>1. i \in 1..n /\ g[i] = h[i]
        BY <1>1
    <2>2. i > 1 /\ h[i - 1].role = "user" /\ h[i - 1].of = h[i].of
        BY <2>1 DEF Belong
    <2>3. i - 1 \in 1..(n - 1)
        BY <1>1, <2>2
    <2> QED
        BY <1>1, <2>1, <2>2, <2>3
<1>3. UsersSaid(g)
    BY <1>1 DEF UsersSaid
<1>4. Alternates(g)
    <2> SUFFICES ASSUME NEW i \in 2..(n - 1) PROVE g[i].role # g[i - 1].role
        BY <1>1 DEF Alternates
    <2>1. i \in 2..n /\ g[i] = h[i] /\ g[i - 1] = h[i - 1]
        BY <1>1
    <2> QED
        BY <2>1 DEF Alternates
<1>5. ASSUME g # <<>> PROVE Last(g).role # Last(h).role
    <2>1. n - 1 > 0 /\ n - 1 \in 1..(n - 1) /\ n \in 2..n
        BY <1>1, <1>5
    <2>2. h[n].role # h[n - 1].role
        BY <2>1 DEF Alternates
    <2> QED
        BY <1>1, <2>1, <2>2 DEF Last
<1> QED
    BY <1>1, <1>2, <1>3, <1>4, <1>5 DEF g

LEMMA MergeKeeps ==
    ASSUME NEW h \in Seq(Message), NEW m \in Message, Belong(h), UsersSaid(h), Alternates(h),
           m.role = "user" => m.kind = "said",
           (m.role = "assistant" /\ m.kind = "said") =>
               h # <<>> /\ Last(h).role = "user" /\ Last(h).of = m.of
    PROVE  /\ Belong(Merge(h, m)) /\ UsersSaid(Merge(h, m)) /\ Alternates(Merge(h, m))
           /\ m.kind = "said" => Merge(h, m) # <<>> /\ Last(Merge(h, m)) = m
<1>1. CASE m.kind # "said"
    BY <1>1 DEF Merge
<1>2. CASE m.kind = "said" /\ h # <<>> /\ Last(h).role = m.role
    <2>1. Merge(h, m) = Append(Front(h), m)
        BY <1>2 DEF Merge
    <2>2. m.role = "user"
        BY <1>2 DEF Message, Roles
    <2> QED
        BY <1>2, <2>1, <2>2, FrontKeeps, AppendKeeps
<1>3. CASE m.kind = "said" /\ ~(h # <<>> /\ Last(h).role = m.role)
    <2>1. Merge(h, m) = Append(h, m)
        BY <1>3 DEF Merge
    <2> QED
        BY <1>3, <2>1, AppendKeeps
<1> QED
    BY <1>1, <1>2, <1>3

LEMMA HistoryKeeps ==
    ASSUME NEW s \in Seq(Message), Belong(s), UsersSaid(s), s # <<>>, Last(s).role = "user"
    PROVE  /\ History(s) \in Seq(Message) /\ History(s) # <<>> /\ Last(History(s)) = Last(s)
           /\ Belong(History(s)) /\ UsersSaid(History(s)) /\ Alternates(History(s))
<1>1. PICK h \in [0..Len(s) -> Seq(Message)] :
          /\ h[0] = <<>>
          /\ \A n \in 1..Len(s) : h[n] = Merge(h[n - 1], s[n])
          /\ History(s) = h[Len(s)]
    BY HistorySteps
<1> DEFINE Kept(n) ==
               /\ Belong(h[n]) /\ UsersSaid(h[n]) /\ Alternates(h[n])
               /\ n > 0 /\ s[n].kind = "said" => h[n] # <<>> /\ Last(h[n]) = s[n]
           T == {n \in Nat : n <= Len(s) => Kept(n)}
<1>2. 0 \in T
    BY <1>1 DEF Belong, UsersSaid, Alternates
<1>3. ASSUME NEW n \in Nat, n \in T PROVE n + 1 \in T
    <2> SUFFICES ASSUME n + 1 <= Len(s) PROVE Kept(n + 1)
        OBVIOUS
    <2>1. /\ n + 1 \in 1..Len(s) /\ n \in 0..Len(s) /\ n + 1 > 0
          /\ Kept(n) /\ h[n] \in Seq(Message) /\ s[n + 1] \in Message
        BY <1>3
    <2>2. h[n + 1] = Merge(h[n], s[n + 1])
        BY <1>1, <2>1
    <2>3. s[n + 1].role = "user" => s[n + 1].kind = "said"
        BY <2>1 DEF UsersSaid
    <2>4. ASSUME s[n + 1].role = "assistant", s[n + 1].kind = "said"
          PROVE  h[n] # <<>> /\ Last(h[n]).role = "user" /\ Last(h[n]).of = s[n + 1].of
        <3>1. n > 0 /\ s[n].role = "user" /\ s[n].of = s[n + 1].of
            BY <2>1, <2>4 DEF Belong
        <3>2. s[n].kind = "said"
            BY <2>1, <3>1 DEF UsersSaid
        <3> QED
            BY <2>1, <3>1, <3>2
    <2> QED
        BY <2>1, <2>2, <2>3, <2>4, MergeKeeps
<1>4. Len(s) \in T /\ Len(s) \in Nat /\ Len(s) > 0
    <2>1. Len(s) \in Nat /\ Len(s) > 0
        OBVIOUS
    <2> HIDE DEF T
    <2> QED
        BY <1>2, <1>3, <2>1, NatSetInduction
<1>5. s[Len(s)].kind = "said"
    BY <1>4 DEF UsersSaid, Last
<1> QED
    BY <1>1, <1>4, <1>5 DEF Last
-----------------------------------------------------------------------------
(* The inductive invariant.                                                *)

Turn == [role : Roles, tools : 0..MaxBlocks]

Phases == Running \cup {"none", "arriving", "over"}

Request == [phase : Phases, conv : Seq(Turn),
            hop : 0..MaxHops, sql : 0..MaxSqlCalls, tries : 0..MaxRetries, blocks : 0..MaxBlocks,
            left : BOOLEAN, abort : {"no", "closed", "deadline"},
            text : {"none", "sent", "shown"}, outcome : {"open", "done", "error", "cut"}]

\* Roles alternate, and a user's turn has a result for each call of the turn before it.
Answered(conv) ==
    \A i \in 2..Len(conv) :
        /\ conv[i].role # conv[i - 1].role
        /\ conv[i].role = "user" => conv[i].tools = conv[i - 1].tools

\* A conversation about to be sent, and one with the calls of its last turn still to answer.
Sendable(conv) == conv # <<>> /\ Last(conv).role = "user" /\ Answered(conv)
Unanswered(x) ==
    /\ x.conv # <<>> /\ Last(x.conv).role = "assistant" /\ Answered(x.conv)
    /\ x.hop < MaxHops /\ x.blocks <= Last(x.conv).tools

TurnInv(x) ==
    /\ x \in Request
    /\ x.phase \in {"arriving", "calling"} => Sendable(x.conv)
    /\ x.phase \in {"tools", "query"} => Unanswered(x)
    /\ x.phase = "query" => x.blocks < Last(x.conv).tools

\* The page ends in the question r and the bubble of its answer.
EndsIn(s, r) ==
    /\ Len(s) > 1
    /\ s[Len(s)].role = "assistant" /\ s[Len(s)].of = r
    /\ s[Len(s) - 1].role = "user" /\ s[Len(s) - 1].of = r

\* Only the last question's stream is still read, and it writes under its question.
PageInv ==
    /\ msgs \in Seq(Message) /\ Belong(msgs) /\ UsersSaid(msgs)
    /\ busy \in BOOLEAN /\ asked \in 0..MaxAsks
    /\ \A r \in Asks : r < asked => req[r].left
    /\ \A r \in Asks : r > asked => req[r] = Idle
    /\ asked = 0 => ~busy
    /\ \A r \in Asks : r = asked => (busy <=> ~req[r].left)
    /\ \A r \in Asks : (r = asked /\ ~req[r].left) => EndsIn(msgs, r)

Turns == {r \in Asks : req[r].phase \in Running}

IInv ==
    /\ PageInv
    /\ req \in [Asks -> Request]
    /\ \A r \in Asks : TurnInv(req[r])
    /\ active = Cardinality(Turns) /\ active <= Budget
-----------------------------------------------------------------------------
(* Conversations: a turn added, and the first ones left out.               *)

LEMMA TurnAdded ==
    ASSUME NEW c \in Seq(Turn), NEW t \in Turn, c # <<>>, Answered(c), Last(c).role # t.role,
           t.role = "user" => t.tools = Last(c).tools
    PROVE  /\ Append(c, t) \in Seq(Turn) /\ Append(c, t) # <<>> /\ Last(Append(c, t)) = t
           /\ Answered(Append(c, t))
<1> DEFINE g == Append(c, t)
           n == Len(c)
<1>1. /\ g \in Seq(Turn) /\ g # <<>> /\ n \in Nat /\ n > 0 /\ Len(g) = n + 1 /\ g[n + 1] = t
      /\ \A i \in 1..n : g[i] = c[i]
    OBVIOUS
<1>2. Last(g) = t /\ Last(c) = c[n]
    BY <1>1 DEF Last
<1> HIDE DEF g
<1>3. ASSUME NEW i \in 2..(n + 1)
      PROVE  /\ g[i].role # g[i - 1].role
             /\ g[i].role = "user" => g[i].tools = g[i - 1].tools
    <2>1. CASE i = n + 1
        <3>1. n \in 1..n /\ i - 1 = n
            BY <1>1, <2>1
        <3> QED
            BY <1>1, <1>2, <3>1, <2>1
    <2>2. CASE i # n + 1
        <3>1. i \in 2..n /\ g[i] = c[i] /\ g[i - 1] = c[i - 1]
            BY <1>1, <2>2
        <3> QED
            BY <3>1 DEF Answered
    <2> QED
        BY <2>1, <2>2
<1>4. Answered(g)
    BY <1>1, <1>3 DEF Answered
<1> QED
    BY <1>1, <1>2, <1>4 DEF g

LEMMA LastMessagesKeeps ==
    ASSUME NEW c \in Seq(Turn), Sendable(c)
    PROVE  LastMessages(c) \in Seq(Turn) /\ Sendable(LastMessages(c))
<1> DEFINE m == Len(c) - MaxMessages + 1
           n == Len(c)
           g == SubSeq(c, m, n)
<1>1. CASE ~(Len(c) > MaxMessages)
    BY <1>1 DEF LastMessages
<1>2. CASE Len(c) > MaxMessages
    <2>1. /\ MaxMessages \in Nat /\ MaxMessages > 0 /\ n \in Nat /\ n > 0 /\ m \in Int /\ m > 1 /\ m <= n
          /\ n - m + 1 = MaxMessages
        BY <1>2, Parameters
    <2>2. \A i \in m..n : c[i] \in Turn
        BY <2>1
    <2> HIDE DEF m, n
    <2>3. /\ g \in Seq(Turn) /\ Len(g) = MaxMessages
          /\ \A i \in 1..MaxMessages : g[i] = c[m + i - 1]
        BY <2>1, <2>2, SubSeqProperties
    <2> HIDE DEF g
    <2>4. g # <<>> /\ Last(g) = c[n]
        <3>1. MaxMessages \in 1..MaxMessages /\ m + MaxMessages - 1 = n
            BY <2>1
        <3> QED
            BY <2>1, <2>3, <3>1 DEF Last
    <2>5. ASSUME NEW i \in 2..MaxMessages
          PROVE  /\ g[i].role # g[i - 1].role
                 /\ g[i].role = "user" => g[i].tools = g[i - 1].tools
        <3>1. /\ i \in 1..MaxMessages /\ i - 1 \in 1..MaxMessages
              /\ m + i - 1 \in 2..n /\ m + (i - 1) - 1 = (m + i - 1) - 1
            BY <2>1
        <3>2. g[i] = c[m + i - 1] /\ g[i - 1] = c[(m + i - 1) - 1]
            BY <2>3, <3>1
        <3> QED
            BY <3>1, <3>2 DEF Sendable, Answered, n
    <2>6. Sendable(g)
        BY <2>3, <2>4, <2>5 DEF Sendable, Answered, Last, n
    <2> QED
        BY <1>2, <2>3, <2>6 DEF LastMessages, g, m, n
<1> QED
    BY <1>1, <1>2

-----------------------------------------------------------------------------
(* The turns, as the slots count them.                                     *)

LEMMA AsksFinite == IsFiniteSet(Asks) /\ \A S \in SUBSET Asks : IsFiniteSet(S)
<1>1. MaxAsks \in Int
    BY Parameters
<1>2. IsFiniteSet(Asks)
    BY <1>1, FS_Interval DEF Asks
<1> QED
    BY <1>2, FS_Subset

\* A step that changes one request by a step of its turn, and nothing of the page.
Steps(r, y) ==
    /\ req' = [req EXCEPT ![r] = y]
    /\ UNCHANGED <<msgs, busy, asked>>

LEMMA TurnStep ==
    ASSUME IInv, NEW r \in Asks, NEW y, Steps(r, y), TurnInv(y), y.left = req[r].left,
           req[r].phase # "none", active' = Cardinality(Turns'), active' <= Budget
    PROVE  IInv'
<1>1. /\ req' \in [Asks -> Request] /\ req'[r] = y
      /\ \A q \in Asks : q # r => req'[q] = req[q]
    BY DEF IInv, Steps, TurnInv
<1>2. \A q \in Asks : TurnInv(req'[q])
    BY <1>1 DEF IInv
<1>3. r <= asked
    <2>1. asked \in Int /\ r \in Int
        BY Parameters DEF IInv, PageInv, Asks
    <2>2. ~(r > asked)
        BY DEF IInv, PageInv, Idle
    <2> QED
        BY <2>1, <2>2
<1>4. \A q \in Asks : req'[q].left = req[q].left
    BY <1>1
<1>5. \A q \in Asks : q > asked => req'[q] = req[q]
    BY <1>1, <1>3, Parameters DEF IInv, PageInv, Asks
<1>6. PageInv'
    BY <1>4, <1>5 DEF IInv, PageInv, Steps
<1> QED
    BY <1>1, <1>2, <1>6 DEF IInv

\* A step of a turn that neither takes a slot nor gives one up.
LEMMA TurnGoesOn ==
    ASSUME IInv, NEW r \in Asks, NEW y, Steps(r, y), TurnInv(y), y.left = req[r].left,
           req[r].phase \in Running, y.phase \in Running, active' = active
    PROVE  IInv'
<1>1. Turns' = Turns
    BY DEF Turns, Steps, IInv
<1>2. req[r].phase # "none"
    BY DEF Running
<1> QED
    BY <1>1, <1>2, TurnStep DEF IInv

\* The end of a turn, or of a request that had no turn yet.
LEMMA IdleType == Idle \in Request
<1>1. /\ <<>> \in Seq(Turn) /\ 0 \in 0..MaxHops /\ 0 \in 0..MaxSqlCalls
      /\ 0 \in 0..MaxRetries /\ 0 \in 0..MaxBlocks
    BY Parameters
<1> QED
    BY <1>1 DEF Idle, Request, Phases

LEMMA OverType ==
    \A l \in BOOLEAN, x \in {"none", "sent", "shown"}, o \in {"done", "error", "cut"} :
        [Idle EXCEPT !.phase = "over", !.outcome = o, !.left = l, !.text = x] \in Request
BY IdleType DEF Request, Phases

LEMMA OverInv ==
    ASSUME NEW r \in Asks, req[r] \in Request, NEW outcome \in {"done", "error", "cut"},
           NEW y, y = [Idle EXCEPT !.phase = "over", !.outcome = outcome,
                                   !.left = req[r].left, !.text = req[r].text]
    PROVE  TurnInv(y) /\ y.left = req[r].left /\ y.phase = "over"
<1>1. req[r].left \in BOOLEAN /\ req[r].text \in {"none", "sent", "shown"}
    BY DEF Request
<1>2. y \in Request
    BY <1>1, OverType, Zenon
<1>3. y.left = req[r].left /\ y.phase = "over"
    BY DEF Idle
<1> QED
    BY <1>2, <1>3 DEF TurnInv

LEMMA TurnEnded ==
    ASSUME IInv, NEW r \in Asks, NEW outcome \in {"done", "error", "cut"},
           req[r].phase \in Running, End(r, outcome), UNCHANGED <<msgs, busy, asked>>
    PROVE  IInv'
<1> DEFINE y == [Idle EXCEPT !.phase = "over", !.outcome = outcome,
                             !.left = req[r].left, !.text = req[r].text]
<1>1. TurnInv(y) /\ y.left = req[r].left /\ y.phase = "over" /\ req[r] \in Request
    BY OverInv DEF IInv
<1>2. Steps(r, y) /\ active' = active - 1
    BY DEF End, Over, Steps
<1> HIDE DEF y
<1>3. Turns' = Turns \ {r} /\ r \in Turns
    BY <1>1, <1>2 DEF Turns, Steps, IInv, Running
<1>4. IsFiniteSet(Turns) /\ Cardinality(Turns) \in Nat
    BY AsksFinite, FS_CardinalityType DEF Turns
<1>5. Cardinality(Turns') = Cardinality(Turns) - 1
    BY <1>3, <1>4, FS_RemoveElement
<1>6. active' = Cardinality(Turns') /\ active' <= Budget
    BY <1>2, <1>4, <1>5, Parameters DEF IInv
<1>7. req[r].phase # "none"
    BY DEF Running
<1> QED
    BY <1>1, <1>2, <1>6, <1>7, TurnStep

LEMMA RequestRefused ==
    ASSUME IInv, NEW r \in Asks, req[r].phase = "arriving", Refuse(r), UNCHANGED <<msgs, busy, asked>>
    PROVE  IInv'
<1> DEFINE y == [Idle EXCEPT !.phase = "over", !.outcome = "error",
                             !.left = req[r].left, !.text = req[r].text]
<1>1. TurnInv(y) /\ y.left = req[r].left /\ y.phase = "over"
    BY OverInv DEF IInv
<1>2. Steps(r, y) /\ active' = active
    BY DEF Refuse, Over, Steps
<1> HIDE DEF y
<1>3. Turns' = Turns
    BY <1>1, <1>2 DEF Turns, Steps, IInv, Running
<1> QED
    BY <1>1, <1>2, <1>3, TurnStep DEF IInv
-----------------------------------------------------------------------------
(* The handler's steps.                                                    *)

LEMMA AdmitInv == ASSUME IInv, NEW r \in Asks, Admit(r) PROVE IInv'
<1>1. req[r].phase = "arriving" /\ UNCHANGED <<msgs, busy, asked>>
    BY DEF Admit
<1>2. CASE Refuse(r)
    BY <1>1, <1>2, RequestRefused
<1>3. CASE /\ active < Budget
           /\ active' = active + 1
           /\ req' = [req EXCEPT ![r].phase = "calling", ![r].conv = LastMessages(@)]
    <2> DEFINE c == LastMessages(req[r].conv)
               y == [req[r] EXCEPT !.phase = "calling", !.conv = c]
    <2>1. req[r] \in Request /\ TurnInv(req[r])
        BY DEF IInv
    <2>2. c \in Seq(Turn) /\ Sendable(c)
        <3>1. req[r].conv \in Seq(Turn) /\ Sendable(req[r].conv)
            BY <1>1, <2>1 DEF TurnInv, Request
        <3> QED
            BY <3>1, LastMessagesKeeps
    <2>3. Steps(r, y)
        BY <1>1, <1>3 DEF Steps, IInv
    <2> HIDE DEF c
    <2>4. /\ y \in Request /\ y.phase = "calling" /\ y.conv = c /\ y.left = req[r].left
        BY <2>1, <2>2 DEF Request, Phases, Running
    <2>5. TurnInv(y)
        BY <2>2, <2>4 DEF TurnInv
    <2> HIDE DEF y
    <2>6. Turns' = Turns \cup {r} /\ r \notin Turns
        BY <1>1, <2>3, <2>4 DEF Turns, Steps, IInv, Running
    <2>7. Cardinality(Turns') = Cardinality(Turns) + 1 /\ Cardinality(Turns) \in Nat
        BY <2>6, AsksFinite, FS_AddElement, FS_CardinalityType DEF Turns
    <2>8. active' = Cardinality(Turns') /\ active' <= Budget
        BY <1>3, <2>7, Parameters DEF IInv
    <2> QED
        BY <1>1, <2>3, <2>4, <2>5, <2>8, TurnStep
<1> QED
    BY <1>2, <1>3 DEF Admit

LEMMA AbortedInv ==
    ASSUME IInv, NEW r \in Asks, ClientGone(r) \/ Deadline(r)
    PROVE  IInv'
<1>1. PICK a \in {"closed", "deadline"} : req' = [req EXCEPT ![r].abort = a]
    BY DEF ClientGone, Deadline
<1> DEFINE y == [req[r] EXCEPT !.abort = a]
<1>2. /\ req[r] \in Request /\ TurnInv(req[r]) /\ req[r].phase \in Running
      /\ UNCHANGED <<msgs, busy, asked, active>>
    BY DEF IInv, ClientGone, Deadline
<1>3. Steps(r, y)
    BY <1>1, <1>2 DEF Steps, IInv
<1>4. /\ y \in Request /\ y.phase = req[r].phase /\ y.conv = req[r].conv /\ y.left = req[r].left
      /\ y.hop = req[r].hop /\ y.blocks = req[r].blocks
    BY <1>2 DEF Request
<1> HIDE DEF y
<1>5. TurnInv(y)
    BY <1>2, <1>4 DEF TurnInv, Unanswered
<1> QED
    BY <1>2, <1>3, <1>4, <1>5, TurnGoesOn

LEMMA AbortInv == ASSUME IInv, NEW r \in Asks, Abort(r) PROVE IInv'
<1>1. PICK o \in {"done", "error", "cut"} : End(r, o)
    BY DEF Abort
<1> QED
    BY <1>1, TurnEnded DEF Abort

LEMMA FailInv == ASSUME IInv, NEW r \in Asks, Fail(r) PROVE IInv'
BY TurnEnded DEF Fail, Running

LEMMA DoneInv == ASSUME IInv, NEW r \in Asks, Done(r) PROVE IInv'
BY TurnEnded DEF Done, Running

LEMMA ThrottledInv == ASSUME IInv, NEW r \in Asks, Throttled(r) PROVE IInv'
<1> DEFINE y == [req[r] EXCEPT !.tries = @ + 1]
<1>1. /\ req[r] \in Request /\ TurnInv(req[r]) /\ req[r].phase = "calling"
      /\ req[r].tries < MaxRetries /\ UNCHANGED <<msgs, busy, asked, active>>
    BY DEF IInv, Throttled
<1>2. Steps(r, y)
    BY <1>1 DEF Steps, IInv, Throttled
<1>3. req[r].tries + 1 \in 0..MaxRetries
    BY <1>1, Parameters DEF Request
<1>4. y \in Request /\ y.phase = "calling" /\ y.conv = req[r].conv /\ y.left = req[r].left
    BY <1>1, <1>3 DEF Request
<1> HIDE DEF y
<1>5. TurnInv(y)
    BY <1>1, <1>4 DEF TurnInv
<1> QED
    BY <1>1, <1>2, <1>4, <1>5, TurnGoesOn DEF Running

LEMMA StreamInv == ASSUME IInv, NEW r \in Asks, Stream(r) PROVE IInv'
<1> DEFINE y == [req[r] EXCEPT !.text = "sent"]
<1>1. /\ req[r] \in Request /\ TurnInv(req[r]) /\ req[r].phase = "calling"
      /\ UNCHANGED <<msgs, busy, asked, active>>
    BY DEF IInv, Stream
<1>2. Steps(r, y)
    BY <1>1 DEF Steps, IInv, Stream
<1>3. y \in Request /\ y.phase = "calling" /\ y.conv = req[r].conv /\ y.left = req[r].left
    BY <1>1 DEF Request
<1> HIDE DEF y
<1>4. TurnInv(y)
    BY <1>1, <1>3 DEF TurnInv
<1> QED
    BY <1>1, <1>2, <1>3, <1>4, TurnGoesOn DEF Running

\* A reply keeps the roles alternating, and calls tools only where a hop is left for them.
LEMMA ReplyInv == ASSUME IInv, NEW r \in Asks, NEW k \in 0..MaxBlocks, Reply(r, k) PROVE IInv'
<1>1. /\ req[r] \in Request /\ TurnInv(req[r]) /\ req[r].phase = "calling"
      /\ req[r].hop = MaxHops => k = 0
      /\ UNCHANGED <<msgs, busy, asked, active>>
    BY DEF IInv, Reply
<1>2. PICK p \in {"finishing", "tools"} : p = IF k = 0 THEN "finishing" ELSE "tools"
    OBVIOUS
<1>3. PICK t \in Turn : t = [role |-> "assistant", tools |-> k]
    BY DEF Turn, Roles
<1>4. PICK c : c = Append(req[r].conv, t)
    OBVIOUS
<1> DEFINE y == [req[r] EXCEPT !.conv = c, !.phase = p, !.blocks = 0, !.tries = 0]
<1>5. Steps(r, y)
    BY <1>1, <1>2, <1>3, <1>4 DEF Steps, IInv, Reply
<1>6. /\ c \in Seq(Turn) /\ c # <<>> /\ Last(c) = t /\ Answered(c)
    <2>1. req[r].conv \in Seq(Turn) /\ Sendable(req[r].conv)
        BY <1>1 DEF TurnInv, Request
    <2>2. t.role = "assistant"
        BY <1>3
    <2> QED
        BY <1>4, <2>1, <2>2, TurnAdded DEF Sendable
<1>7. 0 \in 0..MaxBlocks /\ 0 \in 0..MaxRetries
    BY Parameters
<1>8. /\ y \in Request /\ y.phase = p /\ y.conv = c /\ y.left = req[r].left
      /\ y.hop = req[r].hop /\ y.blocks = 0
    BY <1>1, <1>6, <1>7 DEF Request, Phases, Running
<1> HIDE DEF y
<1>9. TurnInv(y)
    <2>1. p = "tools" => req[r].hop < MaxHops
        BY <1>1, <1>2, Parameters DEF Request
    <2>2. Last(c).role = "assistant" /\ 0 <= Last(c).tools
        BY <1>3, <1>6
    <2> QED
        BY <1>2, <1>6, <1>8, <2>1, <2>2 DEF TurnInv, Unanswered
<1> QED
    BY <1>1, <1>2, <1>5, <1>8, <1>9, TurnGoesOn DEF Running

\* The number of calls in the last turn.
LEMMA LastTools ==
    ASSUME NEW x \in Request, Unanswered(x)
    PROVE  /\ x.conv \in Seq(Turn) /\ Last(x.conv).tools \in 0..MaxBlocks
           /\ x.blocks \in 0..MaxBlocks /\ x.hop \in 0..MaxHops /\ x.sql \in 0..MaxSqlCalls
<1>1. x.conv \in Seq(Turn) /\ x.conv # <<>>
    BY DEF Unanswered, Request
<1>2. Last(x.conv) \in Turn
    BY <1>1 DEF Last
<1> QED
    BY <1>1, <1>2 DEF Turn, Request

\* A result is added to the turn's results: of a call that was not run, or of a query.
LEMMA ResultInv ==
    ASSUME IInv, NEW r \in Asks, SkipTool(r) \/ QueryResult(r)
    PROVE  IInv'
<1> DEFINE b == req[r].blocks + 1
           y == [req[r] EXCEPT !.blocks = b, !.phase = "tools"]
<1>1. /\ req[r] \in Request /\ TurnInv(req[r]) /\ req[r].phase \in {"tools", "query"}
      /\ UNCHANGED <<msgs, busy, asked, active>>
    BY DEF IInv, SkipTool, QueryResult
<1>2. Unanswered(req[r]) /\ req[r].blocks < Last(req[r].conv).tools
    BY <1>1 DEF TurnInv, SkipTool, QueryResult
<1>3. b \in 0..MaxBlocks /\ b <= Last(req[r].conv).tools
    BY <1>1, <1>2, LastTools, Parameters
<1>4. Steps(r, y)
    <2>1. CASE SkipTool(r)
        BY <1>1, <2>1 DEF Steps, IInv, SkipTool, Request
    <2>2. CASE QueryResult(r)
        BY <1>1, <2>2 DEF Steps, IInv, QueryResult
    <2> QED
        BY <2>1, <2>2
<1> HIDE DEF b
<1>5. /\ y \in Request /\ y.phase = "tools" /\ y.conv = req[r].conv /\ y.left = req[r].left
      /\ y.hop = req[r].hop /\ y.blocks = b
    BY <1>1, <1>3 DEF Request, Phases, Running
<1> HIDE DEF y
<1>6. TurnInv(y)
    BY <1>2, <1>3, <1>5 DEF TurnInv, Unanswered
<1> QED
    BY <1>1, <1>4, <1>5, <1>6, TurnGoesOn DEF Running

LEMMA RunToolInv == ASSUME IInv, NEW r \in Asks, RunTool(r) PROVE IInv'
<1> DEFINE s == req[r].sql + 1
           y == [req[r] EXCEPT !.sql = s, !.phase = "query"]
<1>1. /\ req[r] \in Request /\ TurnInv(req[r]) /\ req[r].phase = "tools"
      /\ req[r].sql < MaxSqlCalls /\ req[r].blocks < Last(req[r].conv).tools
      /\ UNCHANGED <<msgs, busy, asked, active>>
    BY DEF IInv, RunTool
<1>2. Unanswered(req[r])
    BY <1>1 DEF TurnInv
<1>3. s \in 0..MaxSqlCalls
    BY <1>1, <1>2, LastTools, Parameters
<1>4. Steps(r, y)
    BY <1>1 DEF Steps, IInv, RunTool
<1> HIDE DEF s
<1>5. /\ y \in Request /\ y.phase = "query" /\ y.conv = req[r].conv /\ y.left = req[r].left
      /\ y.hop = req[r].hop /\ y.blocks = req[r].blocks
    BY <1>1, <1>3 DEF Request, Phases, Running
<1> HIDE DEF y
<1>6. TurnInv(y)
    BY <1>1, <1>2, <1>5 DEF TurnInv, Unanswered
<1> QED
    BY <1>1, <1>4, <1>5, <1>6, TurnGoesOn DEF Running

\* With a result for each call the conversation can be sent again, one hop on.
LEMMA HopDoneInv == ASSUME IInv, NEW r \in Asks, HopDone(r) PROVE IInv'
<1>1. /\ req[r] \in Request /\ TurnInv(req[r]) /\ req[r].phase = "tools"
      /\ req[r].blocks = Last(req[r].conv).tools
      /\ UNCHANGED <<msgs, busy, asked, active>>
    BY DEF IInv, HopDone
<1>2. /\ Unanswered(req[r]) /\ req[r].conv \in Seq(Turn)
      /\ req[r].blocks \in 0..MaxBlocks /\ req[r].hop \in 0..MaxHops
    BY <1>1, LastTools DEF TurnInv
<1>3. PICK t \in Turn : t = [role |-> "user", tools |-> req[r].blocks]
    BY <1>2 DEF Turn, Roles
<1>4. PICK c : c = Append(req[r].conv, t)
    OBVIOUS
<1>5. PICK h \in 0..MaxHops : h = req[r].hop + 1
    BY <1>2, Parameters DEF Unanswered
<1> DEFINE y == [req[r] EXCEPT !.conv = c, !.hop = h, !.phase = "calling"]
<1>6. Steps(r, y)
    BY <1>1, <1>3, <1>4, <1>5 DEF Steps, IInv, HopDone
<1>7. c \in Seq(Turn) /\ Sendable(c)
    <2>1. t.role = "user" /\ t.tools = Last(req[r].conv).tools
        BY <1>1, <1>3
    <2> QED
        BY <1>2, <1>4, <2>1, TurnAdded DEF Sendable, Unanswered
<1>8. /\ y \in Request /\ y.phase = "calling" /\ y.conv = c /\ y.left = req[r].left
    BY <1>1, <1>7 DEF Request, Phases, Running
<1> HIDE DEF y
<1>9. TurnInv(y)
    BY <1>7, <1>8 DEF TurnInv
<1> QED
    BY <1>1, <1>6, <1>8, <1>9, TurnGoesOn DEF Running
-----------------------------------------------------------------------------
(* The page's steps.                                                       *)

\* The bubble of a question's answer is replaced.
LEMMA ShowKeeps ==
    ASSUME NEW r \in Asks, NEW kind \in {"said", "error"}, msgs \in Seq(Message),
           Belong(msgs), UsersSaid(msgs), EndsIn(msgs, r)
    PROVE  /\ Show(kind, r) \in Seq(Message) /\ Belong(Show(kind, r)) /\ UsersSaid(Show(kind, r))
           /\ EndsIn(Show(kind, r), r)
<1> DEFINE s == Show(kind, r)
           n == Len(msgs)
<1>1. PICK m \in Message : m = [role |-> "assistant", kind |-> kind, of |-> r]
    BY DEF Message, Roles
<1>2. m.role = "assistant" /\ m.of = r
    BY <1>1
<1>3. n \in Nat /\ n > 1 /\ n \in 1..n /\ n - 1 \in 1..n
    BY DEF EndsIn
<1>4. s = [msgs EXCEPT ![n] = m]
    BY <1>1 DEF Show
<1>5. /\ s \in Seq(Message) /\ Len(s) = n /\ s[n] = m
      /\ \A i \in 1..n : i # n => s[i] = msgs[i]
    BY <1>3, <1>4
<1> HIDE DEF s
<1>6. msgs[n - 1].role = "user" /\ msgs[n - 1].of = r
    BY DEF EndsIn
<1>7. EndsIn(s, r)
    BY <1>2, <1>3, <1>5, <1>6 DEF EndsIn
<1>8. UsersSaid(s)
    BY <1>2, <1>5 DEF UsersSaid
<1>9. ASSUME NEW i \in 1..n, s[i].role = "assistant", s[i].kind = "said"
      PROVE  i > 1 /\ s[i - 1].role = "user" /\ s[i - 1].of = s[i].of
    <2>1. CASE i = n
        BY <1>2, <1>3, <1>5, <1>6, <2>1
    <2>2. CASE i # n
        <3>1. i > 1 /\ msgs[i - 1].role = "user" /\ msgs[i - 1].of = msgs[i].of
            BY <1>5, <1>9, <2>2 DEF Belong
        <3>2. i - 1 \in 1..n /\ i - 1 # n
            BY <1>3, <3>1
        <3> QED
            BY <1>5, <2>2, <3>1, <3>2
    <2> QED
        BY <2>1, <2>2
<1>10. Belong(s)
    BY <1>5, <1>9 DEF Belong
<1> QED
    BY <1>5, <1>7, <1>8, <1>10 DEF s

\* A stream still read is the last question's, whose bubble ends the page.
LEMMA Reading ==
    ASSUME IInv, NEW r \in Asks, ~req[r].left, req[r] # Idle
    PROVE  r = asked /\ EndsIn(msgs, r)
<1>1. asked \in Int /\ r \in Int
    BY Parameters DEF IInv, PageInv, Asks
<1>2. ~(r > asked) /\ ~(r < asked)
    BY DEF IInv, PageInv
<1>3. r = asked
    BY <1>1, <1>2
<1> QED
    BY <1>3 DEF IInv, PageInv

\* A request changes only in what the page knows of it.
SameTurn(e, y) == y.phase = e.phase /\ y.conv = e.conv /\ y.hop = e.hop /\ y.blocks = e.blocks

LEMMA SeenInv ==
    ASSUME IInv, NEW r \in Asks, NEW y \in Request, SameTurn(req[r], y), req' = [req EXCEPT ![r] = y]
    PROVE  /\ req' \in [Asks -> Request] /\ (\A q \in Asks : TurnInv(req'[q]))
           /\ Turns' = Turns /\ req'[r] = y
           /\ \A q \in Asks : q # r => req'[q] = req[q]
<1>1. req[r] \in Request /\ TurnInv(req[r])
    BY DEF IInv
<1>2. y.phase = req[r].phase /\ y.conv = req[r].conv /\ y.hop = req[r].hop /\ y.blocks = req[r].blocks
    BY DEF SameTurn
<1>3. TurnInv(y)
    BY <1>1, <1>2 DEF TurnInv, Unanswered
<1>4. req' \in [Asks -> Request] /\ req'[r] = y /\ \A q \in Asks : q # r => req'[q] = req[q]
    BY DEF IInv
<1>5. Turns' = Turns
    BY <1>2, <1>4 DEF Turns
<1> QED
    BY <1>2, <1>3, <1>4, <1>5 DEF IInv

\* The page stops reading the last question's stream.
LEMMA LeftInv ==
    ASSUME IInv, NEW r \in Asks, r = asked, req' = [req EXCEPT ![r].left = TRUE], busy' = FALSE,
           msgs' \in Seq(Message), Belong(msgs'), UsersSaid(msgs'), UNCHANGED <<asked, active>>
    PROVE  IInv'
<1> DEFINE y == [req[r] EXCEPT !.left = TRUE, !.text = req[r].text]
<1>1. req[r] \in Request
    BY DEF IInv
<1>2. req[r].text \in {"none", "sent", "shown"} /\ y = [req[r] EXCEPT !.left = TRUE]
    BY <1>1 DEF Request
<1>3. req' = [req EXCEPT ![r] = y]
    BY <1>2
<1>4. /\ req' \in [Asks -> Request] /\ (\A q \in Asks : TurnInv(req'[q]))
      /\ Turns' = Turns /\ req'[r].left = TRUE
      /\ \A q \in Asks : q # r => req'[q] = req[q]
    <2>1. y \in Request /\ SameTurn(req[r], y) /\ y.left = TRUE
        BY <1>1, <1>2 DEF Request, SameTurn
    <2> HIDE DEF y
    <2> QED
        BY <1>3, <2>1, SeenInv
<1>5. asked \in 0..MaxAsks /\ r \in Int /\ asked # 0
    BY Parameters DEF IInv, PageInv, Asks
<1>6. \A q \in Asks : (q < asked \/ q > asked) => q # r
    BY <1>5, Parameters DEF Asks
<1>7. PageInv'
    BY <1>4, <1>5, <1>6 DEF IInv, PageInv
<1> QED
    BY <1>4, <1>7 DEF IInv

LEMMA StopInv == ASSUME IInv, Stop PROVE IInv'
<1>1. asked \in Asks
    BY Parameters DEF IInv, PageInv, Asks, Stop
<1>2. req' = [req EXCEPT ![asked].left = TRUE]
    BY <1>1 DEF Stop, Abandoned, Asks
<1>3. PICK r \in Asks : r = asked
    BY <1>1
<1> QED
    BY <1>2, <1>3, LeftInv DEF Stop, IInv, PageInv

LEMMA ShowTextInv == ASSUME IInv, NEW r \in Asks, ShowText(r) PROVE IInv'
<1> DEFINE y == [req[r] EXCEPT !.left = FALSE, !.text = "shown"]
<1>1. /\ ~req[r].left /\ req[r].text = "sent" /\ req[r] \in Request
      /\ UNCHANGED <<busy, asked, active>>
    BY DEF IInv, ShowText
<1>2. req[r] # Idle
    BY <1>1 DEF Idle
<1>3. r = asked /\ EndsIn(msgs, r)
    BY <1>1, <1>2, Reading
<1>4. req' = [req EXCEPT ![r] = y]
    BY <1>1 DEF ShowText, Request
<1>5. /\ req' \in [Asks -> Request] /\ (\A q \in Asks : TurnInv(req'[q]))
      /\ Turns' = Turns /\ req'[r].left = FALSE
      /\ \A q \in Asks : q # r => req'[q] = req[q]
    <2>1. y \in Request /\ SameTurn(req[r], y) /\ y.left = FALSE
        BY <1>1 DEF IInv, Request, SameTurn
    <2> HIDE DEF y
    <2> QED
        BY <1>4, <2>1, SeenInv
<1>6. msgs' \in Seq(Message) /\ Belong(msgs') /\ UsersSaid(msgs') /\ EndsIn(msgs', r)
    BY <1>3, ShowKeeps DEF IInv, PageInv, ShowText
<1>7. asked \in Int /\ r \in Int
    BY Parameters DEF IInv, PageInv, Asks
<1>8. \A q \in Asks : (q < asked \/ q > asked) => q # r
    BY <1>3, <1>7, Parameters DEF Asks
<1>9. PageInv'
    BY <1>1, <1>3, <1>5, <1>6, <1>8 DEF IInv, PageInv
<1> QED
    BY <1>1, <1>5, <1>9 DEF IInv

\* A stream that ends leaves its bubble, or shows an error in its place.
LEMMA StreamOverInv ==
    ASSUME IInv, NEW r \in Asks, EndOfStream(r) \/ LostConnection(r)
    PROVE  IInv'
<1>1. /\ ~req[r].left /\ req[r] # Idle /\ busy' = FALSE
      /\ req' = [req EXCEPT ![r].left = TRUE] /\ UNCHANGED <<asked, active>>
      /\ msgs' = msgs \/ msgs' = Show("error", r)
    BY DEF EndOfStream, LostConnection, Idle
<1>2. r = asked /\ EndsIn(msgs, r)
    BY <1>1, Reading
<1>3. msgs' \in Seq(Message) /\ Belong(msgs') /\ UsersSaid(msgs')
    BY <1>1, <1>2, ShowKeeps DEF IInv, PageInv
<1> QED
    BY <1>1, <1>2, <1>3, LeftInv

\* The history of a question, and the bubble its answer will fill.
LEMMA AskedPage ==
    ASSUME NEW s \in Seq(Message), Belong(s), UsersSaid(s), NEW q \in Asks,
           NEW h, h = History(Append(s, [role |-> "user", kind |-> "said", of |-> q])),
           NEW t, t = Append(h, [role |-> "assistant", kind |-> "blank", of |-> q])
    PROVE  /\ h \in Seq(Message) /\ h # <<>> /\ Last(h).role = "user" /\ Alternates(h)
           /\ t \in Seq(Message) /\ Belong(t) /\ UsersSaid(t) /\ EndsIn(t, q)
<1>1. PICK u \in Message : u = [role |-> "user", kind |-> "said", of |-> q]
    BY DEF Message, Roles
<1>2. PICK b \in Message : b = [role |-> "assistant", kind |-> "blank", of |-> q]
    BY DEF Message, Roles
<1>3. /\ u.role = "user" /\ u.kind = "said" /\ u.of = q
      /\ b.role = "assistant" /\ b.kind = "blank" /\ b.of = q
    BY <1>1, <1>2
<1> DEFINE a == Append(s, u)
           n == Len(s)
<1>4. /\ a \in Seq(Message) /\ n \in Nat /\ Len(a) = n + 1 /\ a # <<>> /\ a[n + 1] = u
      /\ \A i \in 1..n : a[i] = s[i]
    OBVIOUS
<1> HIDE DEF a
<1>5. Last(a) = u
    BY <1>4 DEF Last
<1>6. UsersSaid(a)
    BY <1>3, <1>4 DEF UsersSaid
<1>7. Belong(a)
    <2> SUFFICES ASSUME NEW i \in 1..(n + 1), a[i].role = "assistant", a[i].kind = "said"
                 PROVE  i > 1 /\ a[i - 1].role = "user" /\ a[i - 1].of = a[i].of
        BY <1>4 DEF Belong
    <2>1. i \in 1..n
        BY <1>3, <1>4
    <2>2. i > 1 /\ s[i - 1].role = "user" /\ s[i - 1].of = s[i].of
        BY <1>4, <2>1 DEF Belong
    <2>3. i - 1 \in 1..n
        BY <1>4, <2>1, <2>2
    <2> QED
        BY <1>4, <2>1, <2>2, <2>3
<1>8. /\ h \in Seq(Message) /\ h # <<>> /\ Last(h) = u
      /\ Belong(h) /\ UsersSaid(h) /\ Alternates(h)
    <2>1. h = History(a)
        BY <1>1 DEF a
    <2> QED
        BY <1>3, <1>4, <1>5, <1>6, <1>7, <2>1, HistoryKeeps
<1> DEFINE k == Len(h)
<1>9. /\ t \in Seq(Message) /\ k \in Nat /\ k > 0 /\ Len(t) = k + 1 /\ t[k + 1] = b
      /\ \A i \in 1..k : t[i] = h[i]
    BY <1>2, <1>8
<1>10. h[k] = u
    BY <1>8 DEF Last
<1>11. EndsIn(t, q)
    BY <1>3, <1>9, <1>10 DEF EndsIn
<1>12. UsersSaid(t)
    BY <1>3, <1>8, <1>9 DEF UsersSaid
<1>13. Belong(t)
    <2> SUFFICES ASSUME NEW i \in 1..(k + 1), t[i].role = "assistant", t[i].kind = "said"
                 PROVE  i > 1 /\ t[i - 1].role = "user" /\ t[i - 1].of = t[i].of
        BY <1>9 DEF Belong
    <2>1. i \in 1..k
        BY <1>3, <1>9
    <2>2. i > 1 /\ h[i - 1].role = "user" /\ h[i - 1].of = h[i].of
        BY <1>8, <1>9, <2>1 DEF Belong
    <2>3. i - 1 \in 1..k
        BY <1>9, <2>1, <2>2
    <2> QED
        BY <1>9, <2>1, <2>2, <2>3
<1> QED
    BY <1>3, <1>8, <1>9, <1>11, <1>12, <1>13

\* A history whose roles alternate, ending in a user's turn, can be sent: it has no calls.
LEMMA HistorySent ==
    ASSUME NEW h \in Seq(Message), h # <<>>, Last(h).role = "user", Alternates(h),
           NEW c, c = [i \in 1..Len(h) |-> [role |-> h[i].role, tools |-> 0]]
    PROVE  c \in Seq(Turn) /\ Sendable(c)
<1>1. Len(h) \in Nat /\ Len(h) > 0 /\ \A i \in 1..Len(h) : h[i].role \in Roles
    <2>1. Len(h) \in Nat /\ Len(h) > 0 /\ \A i \in 1..Len(h) : h[i] \in Message
        OBVIOUS
    <2> QED
        BY <2>1 DEF Message
<1>2. \A i \in 1..Len(h) : [role |-> h[i].role, tools |-> 0] \in Turn
    BY <1>1, Parameters DEF Turn
<1>3. c \in Seq(Turn) /\ Len(c) = Len(h)
    BY <1>1, <1>2
<1>4. \A i \in 1..Len(h) : c[i].role = h[i].role /\ c[i].tools = 0
    OBVIOUS
<1>5. c # <<>> /\ Last(c).role = "user"
    BY <1>1, <1>3, <1>4 DEF Last
<1>6. ASSUME NEW i \in 2..Len(c)
      PROVE  /\ c[i].role # c[i - 1].role
             /\ c[i].role = "user" => c[i].tools = c[i - 1].tools
    <2>1. i \in 2..Len(h) /\ i \in 1..Len(h) /\ i - 1 \in 1..Len(h)
        BY <1>1, <1>3
    <2> QED
        BY <1>4, <2>1 DEF Alternates
<1> QED
    BY <1>3, <1>5, <1>6 DEF Sendable, Answered

LEMMA AskInv == ASSUME IInv, Ask PROVE IInv'
<1>1. PICK q \in Asks : q = asked + 1
    BY Parameters DEF Ask, IInv, PageInv, Asks
<1>2. PICK h : h = History(Append(msgs, [role |-> "user", kind |-> "said", of |-> q]))
    OBVIOUS
<1>3. /\ msgs' = Append(h, [role |-> "assistant", kind |-> "blank", of |-> q])
      /\ busy' = TRUE /\ asked' = q /\ UNCHANGED active /\ ~busy
    BY <1>1, <1>2 DEF Ask
<1>4. /\ h \in Seq(Message) /\ h # <<>> /\ Last(h).role = "user" /\ Alternates(h)
      /\ msgs' \in Seq(Message) /\ Belong(msgs') /\ UsersSaid(msgs') /\ EndsIn(msgs', q)
    BY <1>2, <1>3, AskedPage DEF IInv, PageInv
<1>5. PICK c : c = [i \in 1..Len(h) |-> [role |-> h[i].role, tools |-> 0]]
    OBVIOUS
<1>6. c \in Seq(Turn) /\ Sendable(c)
    BY <1>4, <1>5, HistorySent
<1>7. asked \in 0..MaxAsks /\ asked \in Int /\ q \in Int /\ q > asked /\ req[q] = Idle
    BY <1>1, Parameters DEF IInv, PageInv, Asks
<1>8. \A r \in Asks : r < q => req[r].left
    <2>1. ASSUME NEW r \in Asks, r = asked PROVE req[r].left
        BY <1>3, <2>1 DEF IInv, PageInv
    <2>2. \A r \in Asks : r < q => r < asked \/ r = asked
        BY <1>1, <1>7, Parameters DEF Asks
    <2> QED
        BY <2>1, <2>2 DEF IInv, PageInv
<1>9. Abandoned = req
    <2>1. CASE asked = 0
        BY <2>1 DEF Abandoned
    <2>2. CASE asked # 0
        <3>1. asked \in Asks /\ req[asked].left /\ req[asked] \in Request
            BY <1>7, <1>8, <2>2, Parameters DEF Asks, IInv
        <3>2. req[asked].left = TRUE
            BY <3>1 DEF Request
        <3>3. [req EXCEPT ![asked].left = TRUE] = req
            BY <3>1, <3>2 DEF IInv, Request
        <3> QED
            BY <2>2, <3>3 DEF Abandoned
    <2> QED
        BY <2>1, <2>2
<1> DEFINE y == [Idle EXCEPT !.phase = "arriving", !.conv = c]
<1>10. req' = [req EXCEPT ![q] = y]
    BY <1>1, <1>2, <1>5, <1>7, <1>9 DEF Ask, IInv
<1>11. y \in Request /\ y.phase = "arriving" /\ y.conv = c /\ y.left = FALSE
    BY <1>6, IdleType DEF Request, Phases, Idle
<1> HIDE DEF y
<1>12. TurnInv(y)
    BY <1>6, <1>11 DEF TurnInv
<1>13. /\ req' \in [Asks -> Request] /\ req'[q] = y
       /\ \A r \in Asks : r # q => req'[r] = req[r]
    BY <1>10, <1>11 DEF IInv
<1>14. \A r \in Asks : TurnInv(req'[r])
    BY <1>12, <1>13 DEF IInv
<1>15. Turns' = Turns
    <2>1. y.phase \notin Running /\ req[q].phase \notin Running
        BY <1>7, <1>11 DEF Running, Idle
    <2>2. \A r \in Asks : req'[r].phase \in Running <=> req[r].phase \in Running
        BY <1>13, <2>1
    <2> QED
        BY <2>2 DEF Turns
<1>16. /\ \A r \in Asks : r < asked' => req'[r].left
       /\ \A r \in Asks : r > asked' => req'[r] = Idle
    <2>1. \A r \in Asks : r \in Int /\ (r < q => r # q) /\ (r > q => r # q /\ r > asked)
        BY <1>7, Parameters DEF Asks
    <2> QED
        BY <1>3, <1>8, <1>13, <2>1 DEF IInv, PageInv
<1>17. PageInv'
    <2>1. asked' \in 0..MaxAsks /\ asked' # 0
        BY <1>1, <1>3, <1>7, Parameters DEF Asks
    <2> QED
        BY <1>3, <1>4, <1>11, <1>13, <1>16, <2>1 DEF PageInv
<1> QED
    BY <1>3, <1>13, <1>14, <1>15, <1>17 DEF IInv

-----------------------------------------------------------------------------
(* The theorems.                                                           *)

\* The invariant holds throughout: only the last question's stream is read, a
\* request is in a phase its conversation fits, and each turn holds one slot.
THEOREM InductiveInvariant == Spec => []IInv
<1>1. Init => IInv
    <2> SUFFICES ASSUME Init PROVE IInv
        OBVIOUS
    <2>1. /\ msgs \in Seq(Message) /\ Len(msgs) = 0 /\ busy = FALSE /\ asked = 0 /\ active = 0
          /\ \A r \in Asks : req[r] = Idle /\ r # 0
        BY Parameters DEF Init, Asks
    <2>2. Belong(msgs) /\ UsersSaid(msgs)
        BY <2>1 DEF Belong, UsersSaid
    <2>3. \A r \in Asks : ~(r < 0)
        BY Parameters DEF Asks
    <2>4. PageInv
        <3>1. asked \in 0..MaxAsks /\ busy \in BOOLEAN
            <4>1. 0 \in 0..MaxAsks /\ FALSE \in BOOLEAN
                BY Parameters
            <4> QED
                BY <2>1, <4>1, Zenon
        <3>2. \A r \in Asks : ~(r < asked) /\ r # asked /\ req[r] = Idle
            BY <2>1, <2>3
        <3> QED
            BY <2>1, <2>2, <3>1, <3>2 DEF PageInv
    <2>5. req \in [Asks -> Request]
        BY IdleType DEF Init
    <2>6. \A r \in Asks : TurnInv(req[r])
        BY <2>1, IdleType DEF TurnInv, Idle
    <2>7. Turns = {}
        BY <2>1 DEF Turns, Idle, Running
    <2> QED
        BY <2>1, <2>4, <2>5, <2>6, <2>7, FS_EmptySet, Parameters DEF IInv
<1>2. IInv /\ [Next]_vars => IInv'
    <2> SUFFICES ASSUME IInv, [Next]_vars PROVE IInv'
        OBVIOUS
    <2>1. CASE Ask
        BY <2>1, AskInv
    <2>2. CASE Stop
        BY <2>2, StopInv
    <2>3. ASSUME NEW r \in Asks, ShowText(r) PROVE IInv'
        BY <2>3, ShowTextInv
    <2>4. ASSUME NEW r \in Asks, EndOfStream(r) \/ LostConnection(r) PROVE IInv'
        BY <2>4, StreamOverInv
    <2>5. ASSUME NEW r \in Asks, Handler(r) PROVE IInv'
        <3>1. CASE Admit(r) \/ ClientGone(r) \/ Deadline(r) \/ Abort(r)
            BY <3>1, AdmitInv, AbortedInv, AbortInv
        <3>2. CASE Fail(r) \/ Throttled(r) \/ Stream(r)
            BY <3>2, FailInv, ThrottledInv, StreamInv
        <3>3. CASE \E k \in 0..MaxBlocks : Reply(r, k)
            BY <3>3, ReplyInv
        <3>4. CASE SkipTool(r) \/ RunTool(r) \/ QueryResult(r)
            BY <3>4, ResultInv, RunToolInv
        <3>5. CASE HopDone(r) \/ Done(r)
            BY <3>5, HopDoneInv, DoneInv
        <3> QED
            BY <2>5, <3>1, <3>2, <3>3, <3>4, <3>5 DEF Handler
    <2>6. CASE UNCHANGED vars
        BY <2>6 DEF vars, IInv, PageInv, Turns
    <2> QED
        BY <2>1, <2>2, <2>3, <2>4, <2>5, <2>6 DEF Next
<1> QED
    BY <1>1, <1>2, PTL DEF Spec

\* The state has its type: no turn runs more queries, hops or retries than it may,
\* and no more turns run at a time than there are slots.
THEOREM TypeCorrect == Spec => []TypeOK
<1>1. IInv => TypeOK
    <2> SUFFICES ASSUME IInv PROVE TypeOK
        OBVIOUS
    <2>1. active \in 0..Budget
        <3>1. Cardinality(Turns) \in Nat
            BY AsksFinite, FS_CardinalityType DEF Turns
        <3> QED
            BY <3>1, Parameters DEF IInv
    <2>2. \A r \in Asks : req[r] \in Request
        BY DEF IInv
    <2> QED
        BY <2>1, <2>2 DEF IInv, PageInv, TypeOK, Message, Request, Phases, Turn
<1> QED
    BY <1>1, InductiveInvariant, PTL

\* Each conversation sent to the model alternates roles, ends in the user's turn, and has
\* a result for each tool call, at any number of hops, calls and messages kept.
THEOREM CallsAnswered == Spec => []ToolCallsAnswered
<1>1. IInv => ToolCallsAnswered
    BY DEF IInv, TurnInv, Sendable, Answered, ToolCallsAnswered
<1> QED
    BY <1>1, InductiveInvariant, PTL

\* What the page shows as an answer was streamed for the question above it, however
\* many questions were asked and given up.
THEOREM AnswersKept == Spec => []AnswersBelong
<1>1. IInv => AnswersBelong
    BY DEF IInv, PageInv, Belong, AnswersBelong
<1> QED
    BY <1>1, InductiveInvariant, PTL

\* The slots in use are those of the turns still running: none is given back twice or kept.
THEOREM SlotsCounted == Spec => [](active = Cardinality({r \in Asks : req[r].phase \in Running}))
<1>1. IInv => active = Cardinality({r \in Asks : req[r].phase \in Running})
    BY DEF IInv, Turns
<1> QED
    BY <1>1, InductiveInvariant, PTL

(***************************************************************************)
(* InsightsLease: who works under the lease, and how often the model is    *)
(* paid for.                                                               *)
(***************************************************************************)

\* A lease ends when its last attempt allows, which bounds the clock.
ClockInv ==
    /\ lease # NoLease => lease.expiresAt <= IdleClock + lease.attempts * LeaseTime
    /\ clock <= IdleClock + Attempts(lease) * LeaseTime

\* What a pod keeps from its reads: its tick is past, and the lease it means to
\* replace had expired by then and was not the last one.
ReadInv ==
    \A p \in Pods :
        /\ pod[p].at <= clock
        /\ pod[p].pc = "swap" /\ pod[p].seen # NoLease =>
                pod[p].seen.expiresAt <= pod[p].at /\ pod[p].seen.attempts < MaxAttempts

\* A pod works under the lease of its attempt: the running one, or one that expired.
WorkInv ==
    \A p \in Pods : Working(p) =>
        /\ lease # NoLease /\ pod[p].attempt # 0 /\ pod[p].attempt <= lease.attempts
        /\ pod[p].attempt = lease.attempts => pod[p].at + LeaseTime = lease.expiresAt
        /\ pod[p].attempt < lease.attempts => pod[p].at + LeaseTime <= clock

\* No attempt was won twice, or after it made the result.
WinInv ==
    /\ OneWorkerPerAttempt
    /\ result # NoResult => result.attempt <= Attempts(lease)

\* The pods that may still call the model for their attempt, and those whose SDK may
\* still send the request again.
Collecting == {p \in Pods : pod[p].pc = "collect"}
Repeating == {p \in Pods : pod[p].pc = "model" /\ ~pod[p].retried}

\* An attempt pays for SdkAttempts requests: those sent and those still to come.
CallInv ==
    /\ IsFiniteSet(Collecting) /\ IsFiniteSet(Repeating)
    /\ calls + 2 * Cardinality(Collecting) + Cardinality(Repeating) <= 2 * Attempts(lease)

LeaseInv == LeaseTypeOK /\ ClockInv /\ ReadInv /\ WorkInv /\ WinInv /\ CallInv

-----------------------------------------------------------------------------
(* Facts about pods and leases.                                            *)

\* A lease item is no empty one, and counts its attempts.
LEMMA LeaseFacts ==
    ASSUME LeaseTypeOK
    PROVE  /\ Attempts(lease) \in 0..MaxAttempts
           /\ lease # NoLease => /\ lease.attempts \in 1..MaxAttempts
                                 /\ lease.expiresAt \in Nat
                                 /\ Attempts(lease) = lease.attempts
BY LeaseAssumption DEF LeaseTypeOK, Lease, Attempts, MaxClock

\* More attempts, a later end of the clock.
LEMMA ClockGrows ==
    ASSUME NEW a \in Nat, NEW b \in Nat, a <= b
    PROVE  a * LeaseTime \in Nat /\ a * LeaseTime <= b * LeaseTime
           /\ (a + 1) * LeaseTime = a * LeaseTime + LeaseTime
<1>1. PICK d \in Nat : b = a + d
    <2> WITNESS b - a \in Nat
    <2> QED
        OBVIOUS
<1>2. LeaseTime \in Nat
    BY LeaseAssumption
<1>3. b * LeaseTime = a * LeaseTime + d * LeaseTime
    BY <1>1, <1>2
<1>4. a * LeaseTime \in Nat /\ d * LeaseTime \in Nat
    BY <1>2
<1> QED
    BY <1>2, <1>3, <1>4

\* The result as it was, or as p's first write makes it.
Writes(p) ==
    \/ UNCHANGED result
    \/ /\ result = NoResult /\ pod[p].pc \in {"empty", "generated"}
       /\ result' = [kind |-> pod[p].pc, attempt |-> pod[p].attempt]

\* A step that leaves the lease, the clock and the calls, and that moves one pod
\* back to rest or on with its attempt, keeps the invariant.
LEMMA PodMoves ==
    ASSUME LeaseInv, NEW p \in Pods, NEW s \in PodState,
           Become(p, s), UNCHANGED <<clock, lease, calls>>,
           Writes(p), faults' \in 0..MaxFaults,
           s.at <= clock,
           s.pc = "swap" /\ s.seen # NoLease =>
                s.seen.expiresAt <= s.at /\ s.seen.attempts < MaxAttempts,
           s.pc \in {"collect", "model", "empty", "generated"} =>
                Working(p) /\ s.at = pod[p].at /\ s.attempt = pod[p].attempt,
           pod[p].pc \in {"empty", "generated"} /\ s.pc \in {"collect", "model", "empty", "generated"} =>
                s.pc = pod[p].pc /\ s.retried,
           s.pc = "collect" => pod[p].pc = "collect", s.pc # "model"
    PROVE  LeaseInv'
<1>1. /\ pod' \in [Pods -> PodState] /\ pod'[p] = s
      /\ \A q \in Pods : q # p => pod'[q] = pod[q]
    BY DEF LeaseInv, LeaseTypeOK, Become
<1>2. LeaseTypeOK'
    <2>1. pod[p].pc \in {"empty", "generated"} => pod[p].attempt \in 1..MaxAttempts
        BY LeaseAssumption DEF LeaseInv, LeaseTypeOK, PodState, WorkInv, Working
    <2>2. result' \in Result \cup {NoResult}
        BY <2>1 DEF Writes, Result, LeaseInv, LeaseTypeOK
    <2> QED
        BY <1>1, <2>2 DEF LeaseInv, LeaseTypeOK
<1>3. ClockInv'
    BY DEF LeaseInv, ClockInv, Attempts
<1>4. ReadInv'
    BY <1>1 DEF LeaseInv, ReadInv
<1>5. \A q \in Pods : Working(q)' => /\ Working(q) /\ pod'[q].at = pod[q].at
                                     /\ pod'[q].attempt = pod[q].attempt
    BY <1>1 DEF Working
<1>6. WorkInv'
    BY <1>5 DEF LeaseInv, WorkInv
<1>7. WinInv'
    <2>1. ASSUME NEW q \in Pods, NEW r \in Pods, Working(q)', Working(r)',
                 pod'[q].attempt = pod'[r].attempt
          PROVE  q = r
        BY <1>5, <2>1 DEF LeaseInv, WinInv, OneWorkerPerAttempt
    <2>2. ASSUME NEW q \in Pods, Working(q)', result' # NoResult, result'.attempt = pod'[q].attempt
          PROVE  pod'[q].pc = result'.kind /\ pod'[q].retried
        <3>1. CASE UNCHANGED result
            <4>1. pod[q].pc = result.kind /\ pod[q].retried /\ result.kind \in {"empty", "generated"}
                BY <1>5, <2>2, <3>1 DEF LeaseInv, WinInv, OneWorkerPerAttempt, LeaseTypeOK, Result
            <4>2. CASE q # p
                BY <1>1, <3>1, <4>1, <4>2
            <4>3. CASE q = p
                BY <1>1, <2>2, <3>1, <4>1, <4>3 DEF Working
            <4> QED
                BY <4>2, <4>3
        <3>2. CASE pod[p].pc \in {"empty", "generated"}
                   /\ result' = [kind |-> pod[p].pc, attempt |-> pod[p].attempt]
            <4>1. q = p
                BY <1>5, <2>2, <3>2 DEF LeaseInv, WinInv, OneWorkerPerAttempt, Working
            <4> QED
                BY <1>1, <2>2, <3>2, <4>1 DEF Working
        <3> QED
            BY <3>1, <3>2 DEF Writes
    <2>3. result' # NoResult => result'.attempt <= Attempts(lease)'
        <3>1. CASE UNCHANGED result
            BY <3>1 DEF LeaseInv, WinInv, Attempts
        <3>2. CASE pod[p].pc \in {"empty", "generated"}
                   /\ result' = [kind |-> pod[p].pc, attempt |-> pod[p].attempt]
            BY <3>2 DEF LeaseInv, WorkInv, Working, Attempts
        <3> QED
            BY <3>1, <3>2 DEF Writes
    <2> QED
        BY <2>1, <2>2, <2>3 DEF WinInv, OneWorkerPerAttempt
<1>8. CallInv'
    <2>1. Collecting' \subseteq Collecting /\ Repeating' \subseteq Repeating
        BY <1>1 DEF Collecting, Repeating
    <2>2. /\ IsFiniteSet(Collecting') /\ Cardinality(Collecting') <= Cardinality(Collecting)
          /\ Cardinality(Collecting') \in Nat /\ Cardinality(Collecting) \in Nat
        BY <2>1, FS_Subset, FS_CardinalityType DEF LeaseInv, CallInv
    <2>3. /\ IsFiniteSet(Repeating') /\ Cardinality(Repeating') <= Cardinality(Repeating)
          /\ Cardinality(Repeating') \in Nat /\ Cardinality(Repeating) \in Nat
        BY <2>1, FS_Subset, FS_CardinalityType DEF LeaseInv, CallInv
    <2>4. Attempts(lease) \in Int /\ calls \in Int
        BY LeaseFacts DEF LeaseInv, LeaseTypeOK
    <2> QED
        BY <2>2, <2>3, <2>4 DEF LeaseInv, CallInv, Attempts
<1> QED
    BY <1>2, <1>3, <1>4, <1>6, <1>7, <1>8 DEF LeaseInv

\* The pod at rest is a state of the type that works on nothing.
LEMMA IdleFacts == IdlePod \in PodState /\ IdlePod.at = 0 /\ IdlePod.pc = "idle"
BY LeaseAssumption DEF IdlePod, PodState, MaxClock

-----------------------------------------------------------------------------
(* Each step keeps the invariant.                                          *)

LEMMA InitEstablishes == LeaseInit => LeaseInv
<1> SUFFICES ASSUME LeaseInit PROVE LeaseInv
    OBVIOUS
<1>1. LeaseTypeOK
    BY IdleFacts, LeaseAssumption DEF LeaseInit, LeaseTypeOK, MaxClock
<1>2. ClockInv
    BY LeaseAssumption DEF LeaseInit, ClockInv, Attempts
<1>3. ReadInv /\ WorkInv /\ WinInv
    BY IdleFacts DEF LeaseInit, ReadInv, WorkInv, WinInv, OneWorkerPerAttempt, Working
<1>4. Collecting = {} /\ Repeating = {}
    BY IdleFacts DEF LeaseInit, Collecting, Repeating
<1>5. CallInv
    BY <1>4, FS_EmptySet DEF LeaseInit, CallInv, Attempts
<1> QED
    BY <1>1, <1>2, <1>3, <1>5 DEF LeaseInv

LEMMA StartKeeps == ASSUME LeaseInv, NEW p \in Pods, Start(p) PROVE LeaseInv'
<1> DEFINE s == [IdlePod EXCEPT !.pc = "check", !.at = clock]
<1>1. s \in PodState /\ s.at = clock /\ s.pc = "check"
    BY IdleFacts DEF LeaseInv, LeaseTypeOK, PodState, IdlePod
<1>2. Become(p, s) /\ UNCHANGED <<clock, lease, result, calls, faults>>
    BY DEF Start
<1> HIDE DEF s
<1> QED
    BY <1>1, <1>2, PodMoves DEF Writes, LeaseInv, LeaseTypeOK

\* A pod comes to rest, whatever it was doing.
LEMMA RestKeeps ==
    ASSUME LeaseInv, NEW p \in Pods, Become(p, IdlePod), UNCHANGED <<clock, lease, calls>>,
           Writes(p), faults' \in 0..MaxFaults
    PROVE  LeaseInv'
BY IdleFacts, PodMoves DEF LeaseInv, LeaseTypeOK

\* A pod goes on with what it knows.
LEMMA GoKeeps ==
    ASSUME LeaseInv, NEW p \in Pods, NEW pc \in {"read", "empty", "generated"},
           Go(p, pc), pc # "read" => pod[p].pc \in {"collect", "model"},
           UNCHANGED <<clock, lease, result, calls, faults>>
    PROVE  LeaseInv'
<1> DEFINE s == [pod[p] EXCEPT !.pc = pc, !.retried = FALSE]
<1>1. /\ s \in PodState /\ s.pc = pc
      /\ s.at = pod[p].at /\ s.attempt = pod[p].attempt
    BY DEF LeaseInv, LeaseTypeOK, PodState
<1>2. Become(p, s)
    BY DEF Go, Become, LeaseInv, LeaseTypeOK
<1>3. s.at <= clock
    BY <1>1 DEF LeaseInv, ReadInv
<1> HIDE DEF s
<1> QED
    BY <1>1, <1>2, <1>3, PodMoves DEF Writes, Working, LeaseInv, LeaseTypeOK

LEMMA CheckKeeps == ASSUME LeaseInv, NEW p \in Pods, Check(p) PROVE LeaseInv'
<1>1. CASE Become(p, IdlePod)
    BY <1>1, RestKeeps DEF Check, Writes, LeaseInv, LeaseTypeOK
<1>2. CASE Go(p, "read")
    BY <1>2, GoKeeps DEF Check
<1> QED
    BY <1>1, <1>2 DEF Check

LEMMA ReadLeaseKeeps == ASSUME LeaseInv, NEW p \in Pods, ReadLease(p) PROVE LeaseInv'
<1>1. CASE Become(p, IdlePod)
    BY <1>1, RestKeeps DEF ReadLease, Writes, LeaseInv, LeaseTypeOK
<1>2. CASE ~Held(lease, pod[p].at) /\ ~Exhausted(lease)
           /\ Become(p, [pod[p] EXCEPT !.pc = "swap", !.seen = lease])
    <2> DEFINE s == [pod[p] EXCEPT !.pc = "swap", !.seen = lease]
    <2>1. s \in PodState /\ s.pc = "swap" /\ s.at = pod[p].at /\ s.seen = lease
        BY DEF LeaseInv, LeaseTypeOK, PodState
    <2>2. s.at <= clock /\ s.at \in Nat
        BY <2>1, LeaseAssumption DEF LeaseInv, LeaseTypeOK, ReadInv, PodState, MaxClock
    <2>3. lease # NoLease => lease.expiresAt <= s.at /\ lease.attempts < MaxAttempts
        BY <1>2, <2>1, <2>2, LeaseFacts, LeaseAssumption DEF LeaseInv, Held, Exhausted
    <2>4. Become(p, s)
        BY <1>2
    <2> HIDE DEF s
    <2> QED
        BY <2>1, <2>2, <2>3, <2>4, PodMoves DEF ReadLease, Writes, LeaseInv, LeaseTypeOK
<1> QED
    BY <1>1, <1>2 DEF ReadLease

\* A repeated command: nothing but the mark of the repetition changes.
LEMMA RepeatKeeps ==
    ASSUME LeaseInv, NEW p \in Pods, Become(p, [pod[p] EXCEPT !.retried = TRUE]),
           pod[p].pc \in {"swap", "empty", "generated"},
           UNCHANGED <<clock, lease, calls>>, Writes(p), faults' \in 0..MaxFaults
    PROVE  LeaseInv'
<1> DEFINE s == [pod[p] EXCEPT !.retried = TRUE]
<1>1. /\ s \in PodState /\ s.pc = pod[p].pc /\ s.at = pod[p].at
      /\ s.attempt = pod[p].attempt /\ s.seen = pod[p].seen /\ s.retried
    BY DEF LeaseInv, LeaseTypeOK, PodState
<1>2. Become(p, s)
    OBVIOUS
<1> HIDE DEF s
<1> QED
    BY <1>1, <1>2, PodMoves DEF LeaseInv, ReadInv, Working

\* What holds of the lease that p's put writes: it is one attempt on.
LEMMA SwapWrites ==
    ASSUME LeaseInv, NEW p \in Pods, Swap(p), SwapHolds(p)
    PROVE  /\ lease' = [attempts |-> Attempts(lease) + 1, expiresAt |-> pod[p].at + LeaseTime]
           /\ lease' \in Lease /\ lease' # NoLease
           /\ pod[p].at \in Nat /\ pod[p].at <= clock
           /\ lease # NoLease => lease.expiresAt <= pod[p].at
<1>1. /\ lease = pod[p].seen /\ pod[p].pc = "swap"
      /\ lease' = [attempts |-> Attempts(lease) + 1, expiresAt |-> pod[p].at + LeaseTime]
    BY DEF Swap, SwapHolds
<1>2. pod[p].at \in 0..MaxClock /\ MaxClock \in Nat /\ pod[p].at <= clock
    BY LeaseAssumption DEF LeaseInv, LeaseTypeOK, PodState, ReadInv, MaxClock
<1>3. lease # NoLease => lease.expiresAt <= pod[p].at /\ lease.attempts < MaxAttempts
    BY <1>1 DEF LeaseInv, ReadInv
<1>4. Attempts(lease) + 1 \in 1..MaxAttempts
    BY <1>3, LeaseFacts, LeaseAssumption DEF LeaseInv, Attempts
<1>5. lease' \in Lease /\ lease' \in [attempts : Nat, expiresAt : Nat]
    BY <1>1, <1>2, <1>4, LeaseAssumption DEF Lease
<1> QED
    BY <1>1, <1>2, <1>3, <1>5, LeaseAssumption

LEMMA SwapKeeps == ASSUME LeaseInv, NEW p \in Pods, Swap(p) PROVE LeaseInv'
<1>1. CASE ~SwapHolds(p)
    <2>1. UNCHANGED <<clock, lease, result, calls, faults>>
        BY <1>1 DEF Swap
    <2>2. Become(p, IdlePod) \/ Become(p, [pod[p] EXCEPT !.retried = TRUE])
        BY <1>1 DEF Swap
    <2> QED
        BY <2>1, <2>2, RestKeeps, RepeatKeeps DEF Swap, Writes, LeaseInv, LeaseTypeOK
<1>2. CASE SwapHolds(p)
    <2>1. /\ lease' = [attempts |-> Attempts(lease) + 1, expiresAt |-> pod[p].at + LeaseTime]
          /\ lease' \in Lease /\ lease' # NoLease
          /\ pod[p].at \in Nat /\ pod[p].at <= clock
          /\ lease # NoLease => lease.expiresAt <= pod[p].at
        BY <1>2, SwapWrites
    <2>2. Attempts(lease') = Attempts(lease) + 1 /\ lease'.attempts = Attempts(lease) + 1
          /\ Attempts(lease) \in Nat /\ clock \in Nat /\ MaxClock \in Nat /\ calls \in Nat
          /\ lease'.expiresAt = pod[p].at + LeaseTime
        BY <2>1, LeaseFacts, LeaseAssumption DEF LeaseInv, LeaseTypeOK, Attempts, MaxClock
    <2>3. UNCHANGED <<clock, result, calls, faults>>
        BY DEF Swap
    <2>4. PICK s \in PodState :
                /\ Become(p, s) /\ s.at = pod[p].at
                /\ s.pc \in {"swap", "collect"}
                /\ s.pc = "collect" => s.attempt = Attempts(lease) + 1
                /\ s.pc = "swap" => s.seen = pod[p].seen
        <3> DEFINE won == [pod[p] EXCEPT !.pc = "collect", !.attempt = Attempts(pod[p].seen) + 1,
                                         !.seen = NoLease, !.retried = FALSE]
                   again == [pod[p] EXCEPT !.retried = TRUE]
        <3>1. Attempts(lease) + 1 \in 0..MaxAttempts /\ lease = pod[p].seen
            BY <1>2, <2>1, LeaseAssumption DEF SwapHolds, Lease
        <3>2. /\ won \in PodState /\ won.at = pod[p].at /\ won.pc = "collect"
              /\ won.attempt = Attempts(lease) + 1
            BY <3>1 DEF LeaseInv, LeaseTypeOK, PodState
        <3>3. /\ again \in PodState /\ again.at = pod[p].at /\ again.pc = "swap"
              /\ again.seen = pod[p].seen
            BY DEF LeaseInv, LeaseTypeOK, PodState, Swap
        <3>4. Become(p, won) \/ Become(p, again)
            BY <1>2 DEF Swap
        <3> HIDE DEF won, again
        <3> QED
            BY <3>2, <3>3, <3>4
    <2>5. /\ pod' \in [Pods -> PodState] /\ pod'[p] = s
          /\ \A q \in Pods : q # p => pod'[q] = pod[q]
        BY <2>4 DEF LeaseInv, LeaseTypeOK, Become
    <2>6. LeaseTypeOK'
        BY <2>1, <2>3, <2>5 DEF LeaseInv, LeaseTypeOK
    <2>7. ClockInv'
        <3>1. /\ (Attempts(lease) + 1) * LeaseTime = Attempts(lease) * LeaseTime + LeaseTime
              /\ Attempts(lease) * LeaseTime \in Nat
            BY <2>2, ClockGrows
        <3>2. clock <= IdleClock + Attempts(lease) * LeaseTime
            BY DEF LeaseInv, ClockInv
        <3>3. clock <= IdleClock + Attempts(lease') * LeaseTime
            BY <2>2, <3>1, <3>2, LeaseAssumption
        <3>4. lease'.expiresAt <= IdleClock + lease'.attempts * LeaseTime
            BY <2>1, <2>2, <3>1, <3>2, LeaseAssumption
        <3> QED
            BY <2>3, <3>3, <3>4 DEF ClockInv, Attempts
    <2>8. ReadInv'
        BY <2>1, <2>3, <2>4, <2>5 DEF LeaseInv, ReadInv, Swap
    <2>9. ASSUME NEW q \in Pods, q # p, Working(q)'
          PROVE  /\ Working(q) /\ pod'[q] = pod[q] /\ pod[q].attempt # 0
                 /\ pod[q].attempt <= Attempts(lease) /\ pod[q].attempt \in Nat
                 /\ pod[q].at + LeaseTime <= clock
        <3>1. Working(q) /\ pod'[q] = pod[q] /\ pod[q].attempt \in Nat /\ pod[q].at \in Nat
            BY <2>2, <2>5, <2>9, LeaseAssumption DEF Working, LeaseInv, LeaseTypeOK, PodState
        <3>2. /\ lease # NoLease /\ pod[q].attempt # 0 /\ pod[q].attempt <= lease.attempts
              /\ pod[q].attempt = lease.attempts => pod[q].at + LeaseTime = lease.expiresAt
              /\ pod[q].attempt < lease.attempts => pod[q].at + LeaseTime <= clock
            BY <3>1 DEF LeaseInv, WorkInv
        <3>3. /\ lease.attempts \in Nat /\ lease.expiresAt \in Nat
              /\ Attempts(lease) = lease.attempts
            BY <3>2, LeaseFacts, LeaseAssumption DEF LeaseInv
        <3> QED
            BY <2>1, <2>2, <3>1, <3>2, <3>3, LeaseAssumption
    <2>10. WorkInv'
        <3>1. ASSUME NEW q \in Pods, Working(q)', q # p
              PROVE  /\ pod'[q].attempt # 0 /\ pod'[q].attempt < lease'.attempts
                     /\ pod'[q].at + LeaseTime <= clock'
            BY <2>2, <2>3, <2>9, <3>1
        <3>2. Working(p)' => /\ pod'[p].attempt = lease'.attempts
                             /\ pod'[p].at + LeaseTime = lease'.expiresAt
            BY <2>2, <2>4, <2>5 DEF Working
        <3>3. lease'.attempts \in Nat \ {0}
            BY <2>2
        <3>4. \A q \in Pods : pod'[q].attempt \in Int
            BY <2>5, LeaseAssumption DEF PodState
        <3> QED
            BY <2>1, <3>1, <3>2, <3>3, <3>4 DEF WorkInv
    <2>11. WinInv'
        <3>1. Working(p)' => pod'[p].attempt = Attempts(lease) + 1
            BY <2>4, <2>5 DEF Working
        <3>2. ASSUME NEW q \in Pods, NEW r \in Pods, Working(q)', Working(r)', q # r
              PROVE  pod'[q].attempt # pod'[r].attempt
            <4>1. CASE q # p /\ r # p
                BY <2>9, <3>2, <4>1 DEF LeaseInv, WinInv, OneWorkerPerAttempt
            <4>2. CASE q = p
                BY <2>2, <2>9, <3>1, <3>2, <4>2
            <4>3. CASE r = p
                BY <2>2, <2>9, <3>1, <3>2, <4>3
            <4> QED
                BY <4>1, <4>2, <4>3
        <3>3. result # NoResult => result.attempt \in Nat /\ result.attempt <= Attempts(lease)
            BY LeaseAssumption DEF LeaseInv, LeaseTypeOK, Result, WinInv
        <3>4. ASSUME NEW q \in Pods, Working(q)', result # NoResult, result.attempt = pod'[q].attempt
              PROVE  pod'[q].pc = result.kind /\ pod'[q].retried
            <4>1. CASE q = p
                BY <2>2, <3>1, <3>3, <3>4, <4>1
            <4>2. CASE q # p
                BY <2>9, <3>4, <4>2 DEF LeaseInv, WinInv, OneWorkerPerAttempt
            <4> QED
                BY <4>1, <4>2
        <3>5. result # NoResult => result.attempt <= Attempts(lease')
            BY <2>2, <3>3
        <3> QED
            BY <2>3, <3>2, <3>4, <3>5 DEF WinInv, OneWorkerPerAttempt, Attempts
    <2>12. CallInv'
        <3>1. Collecting' \subseteq Collecting \cup {p} /\ Repeating' \subseteq Repeating
            BY <2>4, <2>5 DEF Collecting, Repeating
        <3>2. IsFiniteSet(Collecting) /\ IsFiniteSet(Repeating) /\ p \notin Collecting
            BY DEF LeaseInv, CallInv, Collecting, Swap
        <3>3. /\ IsFiniteSet(Collecting \cup {p})
              /\ Cardinality(Collecting \cup {p}) = Cardinality(Collecting) + 1
            BY <3>2, FS_AddElement
        <3>4. /\ IsFiniteSet(Collecting')
              /\ Cardinality(Collecting') <= Cardinality(Collecting \cup {p})
              /\ IsFiniteSet(Repeating')
              /\ Cardinality(Repeating') <= Cardinality(Repeating)
            BY <3>1, <3>2, <3>3, FS_Subset
        <3>5. /\ Cardinality(Collecting') \in Nat /\ Cardinality(Collecting) \in Nat
              /\ Cardinality(Repeating') \in Nat /\ Cardinality(Repeating) \in Nat
            BY <3>2, <3>4, FS_CardinalityType
        <3>6. calls + 2 * Cardinality(Collecting) + Cardinality(Repeating) <= 2 * Attempts(lease)
            BY DEF LeaseInv, CallInv
        <3>7. calls' + 2 * Cardinality(Collecting') + Cardinality(Repeating') <= 2 * Attempts(lease')
            BY <2>2, <2>3, <3>3, <3>4, <3>5, <3>6
        <3> QED
            BY <3>4, <3>7 DEF CallInv, Attempts
    <2> QED
        BY <2>6, <2>7, <2>8, <2>10, <2>11, <2>12 DEF LeaseInv
<1> QED
    BY <1>1, <1>2

\* The model is called: one call more, one attempt less that may still call.
LEMMA CollectKeeps == ASSUME LeaseInv, NEW p \in Pods, Collect(p) PROVE LeaseInv'
<1>1. CASE Become(p, IdlePod) /\ UNCHANGED calls
    BY <1>1, RestKeeps DEF Collect, Writes, LeaseInv, LeaseTypeOK
<1>2. CASE Go(p, "empty") /\ UNCHANGED calls
    BY <1>2, GoKeeps DEF Collect
<1>3. CASE Go(p, "model") /\ calls' = calls + 1
    <2> DEFINE s == [pod[p] EXCEPT !.pc = "model", !.retried = FALSE]
    <2>1. /\ s \in PodState /\ s.pc = "model" /\ s.at = pod[p].at /\ ~s.retried
          /\ s.attempt = pod[p].attempt /\ s.seen = pod[p].seen
        BY DEF LeaseInv, LeaseTypeOK, PodState
    <2>2. /\ pod' \in [Pods -> PodState] /\ pod'[p] = s
          /\ \A q \in Pods : q # p => pod'[q] = pod[q]
        BY <1>3, <2>1 DEF LeaseInv, LeaseTypeOK, Go
    <2> HIDE DEF s
    <2>3. UNCHANGED <<clock, lease, result, faults>>
        BY DEF Collect
    <2>4. LeaseTypeOK'
        BY <1>3, <2>2, <2>3 DEF LeaseInv, LeaseTypeOK
    <2>5. ClockInv'
        BY <2>3 DEF LeaseInv, ClockInv, Attempts
    <2>6. ReadInv'
        BY <2>1, <2>2, <2>3 DEF LeaseInv, ReadInv
    <2>7. \A q \in Pods : Working(q)' => /\ Working(q) /\ pod'[q].at = pod[q].at
                                         /\ pod'[q].attempt = pod[q].attempt
        BY <2>1, <2>2 DEF Working, Collect
    <2>8. WorkInv' /\ WinInv'
        <3>1. pod[p].pc = "collect" /\ (result # NoResult => result.kind \in {"empty", "generated"})
            BY DEF Collect, LeaseInv, LeaseTypeOK, Result
        <3>2. WinInv'
            BY <2>2, <2>3, <2>7, <3>1 DEF LeaseInv, WinInv, OneWorkerPerAttempt, Attempts
        <3> QED
            BY <2>3, <2>7, <3>2 DEF LeaseInv, WorkInv
    <2>9. CallInv'
        <3>1. /\ Collecting' = Collecting \ {p} /\ p \in Collecting
              /\ Repeating' = Repeating \cup {p} /\ p \notin Repeating
            BY <2>1, <2>2 DEF Collecting, Repeating, Collect
        <3>2. IsFiniteSet(Collecting) /\ IsFiniteSet(Repeating)
            BY DEF LeaseInv, CallInv
        <3>3. /\ IsFiniteSet(Collecting \ {p})
              /\ Cardinality(Collecting \ {p}) = Cardinality(Collecting) - 1
              /\ IsFiniteSet(Repeating \cup {p})
              /\ Cardinality(Repeating \cup {p}) = Cardinality(Repeating) + 1
            BY <3>1, <3>2, FS_RemoveElement, FS_AddElement
        <3>4. /\ Cardinality(Collecting) \in Nat /\ Cardinality(Repeating) \in Nat
              /\ Attempts(lease) \in Int /\ calls \in Nat
            BY <3>2, FS_CardinalityType, LeaseFacts DEF LeaseInv, LeaseTypeOK
        <3>5. calls + 2 * Cardinality(Collecting) + Cardinality(Repeating) <= 2 * Attempts(lease)
            BY DEF LeaseInv, CallInv
        <3>6. calls' + 2 * Cardinality(Collecting') + Cardinality(Repeating') <= 2 * Attempts(lease)
            BY <1>3, <3>1, <3>3, <3>4, <3>5
        <3> QED
            BY <2>3, <3>1, <3>3, <3>6 DEF CallInv, Attempts
    <2> QED
        BY <2>4, <2>5, <2>6, <2>8, <2>9 DEF LeaseInv
<1> QED
    BY <1>1, <1>2, <1>3 DEF Collect

\* The request is sent again: one more that is paid for, and none to come.
LEMMA ModelKeeps == ASSUME LeaseInv, NEW p \in Pods, Model(p) PROVE LeaseInv'
<1>1. CASE Become(p, IdlePod) /\ UNCHANGED calls
    BY <1>1, RestKeeps DEF Model, Writes, LeaseInv, LeaseTypeOK
<1>2. CASE Go(p, "generated") /\ UNCHANGED calls
    BY <1>2, GoKeeps DEF Model
<1>3. CASE ~pod[p].retried /\ Become(p, [pod[p] EXCEPT !.retried = TRUE]) /\ calls' = calls + 1
    <2> DEFINE s == [pod[p] EXCEPT !.retried = TRUE]
    <2>1. /\ s \in PodState /\ s.pc = "model" /\ s.at = pod[p].at /\ s.retried
          /\ s.attempt = pod[p].attempt /\ s.seen = pod[p].seen
        BY DEF LeaseInv, LeaseTypeOK, PodState, Model
    <2>2. /\ pod' \in [Pods -> PodState] /\ pod'[p] = s
          /\ \A q \in Pods : q # p => pod'[q] = pod[q]
        BY <1>3, <2>1 DEF LeaseInv, LeaseTypeOK, Become
    <2> HIDE DEF s
    <2>3. UNCHANGED <<clock, lease, result, faults>> /\ pod[p].pc = "model"
        BY DEF Model
    <2>4. LeaseTypeOK' /\ ClockInv' /\ ReadInv'
        BY <1>3, <2>1, <2>2, <2>3 DEF LeaseInv, LeaseTypeOK, ClockInv, Attempts, ReadInv
    <2>5. \A q \in Pods : Working(q)' => /\ Working(q) /\ pod'[q].at = pod[q].at
                                         /\ pod'[q].attempt = pod[q].attempt
        BY <2>1, <2>2, <2>3 DEF Working
    <2>6. WorkInv' /\ WinInv'
        <3>1. result # NoResult => result.kind \in {"empty", "generated"}
            BY DEF LeaseInv, LeaseTypeOK, Result
        <3>2. WinInv'
            BY <2>2, <2>3, <2>5, <3>1 DEF LeaseInv, WinInv, OneWorkerPerAttempt, Attempts
        <3> QED
            BY <2>3, <2>5, <3>2 DEF LeaseInv, WorkInv
    <2>7. CallInv'
        <3>1. /\ Repeating' = Repeating \ {p} /\ p \in Repeating
              /\ Collecting' = Collecting
            BY <1>3, <2>1, <2>2, <2>3 DEF Collecting, Repeating
        <3>2. IsFiniteSet(Collecting) /\ IsFiniteSet(Repeating)
            BY DEF LeaseInv, CallInv
        <3>3. /\ IsFiniteSet(Repeating \ {p})
              /\ Cardinality(Repeating \ {p}) = Cardinality(Repeating) - 1
            BY <3>1, <3>2, FS_RemoveElement
        <3>4. /\ Cardinality(Collecting) \in Nat /\ Cardinality(Repeating) \in Nat
              /\ Attempts(lease) \in Int /\ calls \in Nat
            BY <3>2, FS_CardinalityType, LeaseFacts DEF LeaseInv, LeaseTypeOK
        <3>5. calls + 2 * Cardinality(Collecting) + Cardinality(Repeating) <= 2 * Attempts(lease)
            BY DEF LeaseInv, CallInv
        <3>6. calls' + 2 * Cardinality(Collecting') + Cardinality(Repeating') <= 2 * Attempts(lease)
            BY <1>3, <3>1, <3>3, <3>4, <3>5
        <3> QED
            BY <2>3, <3>1, <3>2, <3>3, <3>6 DEF CallInv, Attempts
    <2> QED
        BY <2>4, <2>6, <2>7 DEF LeaseInv
<1> QED
    BY <1>1, <1>2, <1>3 DEF Model

LEMMA PutKeeps == ASSUME LeaseInv, NEW p \in Pods, Put(p) PROVE LeaseInv'
<1>1. UNCHANGED <<clock, lease, calls, faults>> /\ pod[p].pc \in {"empty", "generated"}
    BY DEF Put
<1>2. Writes(p)
    BY DEF Put, PutHolds, Writes
<1>3. Become(p, IdlePod) \/ Become(p, [pod[p] EXCEPT !.retried = TRUE])
    BY DEF Put
<1> QED
    BY <1>1, <1>2, <1>3, RestKeeps, RepeatKeeps DEF LeaseInv, LeaseTypeOK

LEMMA FaultKeeps == ASSUME LeaseInv, NEW p \in Pods, Fault(p) PROVE LeaseInv'
<1>1. faults' \in 0..MaxFaults
    BY LeaseAssumption DEF Fault, LeaseInv, LeaseTypeOK
<1> QED
    BY <1>1, RestKeeps DEF Fault, Writes, LeaseInv, LeaseTypeOK

\* Time passes only while a lease runs, or up to IdleClock.
LEMMA TickKeeps == ASSUME LeaseInv, Tick PROVE LeaseInv'
<1>1. clock' = clock + 1 /\ UNCHANGED <<lease, result, pod, calls, faults>>
    BY DEF Tick
<1>2. /\ Attempts(lease) \in Nat /\ Attempts(lease) <= MaxAttempts /\ clock \in Nat
      /\ lease # NoLease => lease.expiresAt \in Nat /\ lease.attempts = Attempts(lease)
    BY LeaseFacts, LeaseAssumption DEF LeaseInv, LeaseTypeOK
<1>3. /\ Attempts(lease) * LeaseTime \in Nat
      /\ Attempts(lease) * LeaseTime <= MaxAttempts * LeaseTime
    BY <1>2, ClockGrows, LeaseAssumption
<1>4. clock' <= IdleClock + Attempts(lease) * LeaseTime
    BY <1>1, <1>2, <1>3, LeaseAssumption DEF Tick, LeaseInv, ClockInv
<1>5. LeaseTypeOK'
    <2>1. MaxAttempts * LeaseTime \in Nat
        BY LeaseAssumption
    <2>2. clock' \in 0..MaxClock
        BY <1>1, <1>2, <1>3, <1>4, <2>1, LeaseAssumption DEF MaxClock
    <2> QED
        BY <1>1, <2>2 DEF LeaseInv, LeaseTypeOK
<1>6. ClockInv'
    BY <1>1, <1>4 DEF LeaseInv, ClockInv, Attempts
<1>7. ReadInv'
    <2>1. \A p \in Pods : pod[p].at \in Nat
        BY LeaseAssumption DEF LeaseInv, LeaseTypeOK, PodState, MaxClock
    <2> QED
        BY <1>1, <1>2, <2>1 DEF LeaseInv, ReadInv
<1>8. WorkInv'
    <2>1. \A p \in Pods : pod[p].at + LeaseTime \in Nat
        BY LeaseAssumption DEF LeaseInv, LeaseTypeOK, PodState, MaxClock
    <2>2. \A p \in Pods : Working(p)' <=> Working(p)
        BY <1>1 DEF Working
    <2> QED
        BY <1>1, <1>2, <2>1, <2>2 DEF LeaseInv, WorkInv
<1>9. WinInv' /\ CallInv'
    BY <1>1 DEF LeaseInv, WinInv, OneWorkerPerAttempt, CallInv, Collecting, Repeating, Working, Attempts
<1> QED
    BY <1>5, <1>6, <1>7, <1>8, <1>9 DEF LeaseInv

LEMMA NextKeeps == LeaseInv /\ [LeaseNext]_leaseVars => LeaseInv'
<1> SUFFICES ASSUME LeaseInv, [LeaseNext]_leaseVars PROVE LeaseInv'
    OBVIOUS
<1>1. CASE UNCHANGED leaseVars
    BY <1>1 DEF leaseVars, LeaseInv, LeaseTypeOK, ClockInv, ReadInv, WorkInv, WinInv,
                OneWorkerPerAttempt, CallInv, Collecting, Repeating, Working, Attempts
<1>2. CASE Tick
    BY <1>2, TickKeeps
<1>3. ASSUME NEW p \in Pods, Start(p) \/ Work(p) \/ Fault(p)
      PROVE  LeaseInv'
    BY <1>3, StartKeeps, CheckKeeps, ReadLeaseKeeps, SwapKeeps, CollectKeeps, ModelKeeps,
       PutKeeps, FaultKeeps DEF Work
<1> QED
    BY <1>1, <1>2, <1>3 DEF LeaseNext

-----------------------------------------------------------------------------
(* The theorems.                                                           *)

\* The inductive invariant: every pod at work holds an attempt of its own, and all
\* but the last one's leases have run out.
THEOREM LeaseInvariant == LeaseSpec => []LeaseInv
BY InitEstablishes, NextKeeps, PTL DEF LeaseSpec

\* The items and the calls keep their types, and the clock its bound.
THEOREM LeaseTyped == LeaseSpec => []LeaseTypeOK
<1>1. LeaseInv => LeaseTypeOK
    BY DEF LeaseInv
<1> QED
    BY <1>1, LeaseInvariant, PTL

\* One pod at most works under a lease that still runs, however many read the same
\* expired lease, crash, or repeat their command (insightsStore.js 45-61).
THEOREM OnePodWorks == LeaseSpec => []OneWorker
<1>1. ASSUME LeaseInv PROVE OneWorker
    <2> SUFFICES ASSUME NEW p \in Pods, NEW q \in Pods,
                        Working(p), pod[p].at + LeaseTime > clock,
                        Working(q), pod[q].at + LeaseTime > clock
                 PROVE  p = q
        BY DEF OneWorker
    <2>1. ASSUME NEW r \in Pods, Working(r), pod[r].at + LeaseTime > clock
          PROVE  pod[r].attempt = lease.attempts
        <3>1. /\ lease # NoLease /\ pod[r].attempt <= lease.attempts
              /\ pod[r].attempt < lease.attempts => pod[r].at + LeaseTime <= clock
            BY <1>1, <2>1 DEF LeaseInv, WorkInv
        <3>2. pod[r].attempt \in Nat /\ pod[r].at + LeaseTime \in Nat /\ clock \in Nat
            BY <1>1, LeaseAssumption DEF LeaseInv, LeaseTypeOK, PodState, MaxClock
        <3>3. lease.attempts \in Nat
            BY <1>1, <3>1, LeaseFacts, LeaseAssumption DEF LeaseInv
        <3> QED
            BY <2>1, <3>1, <3>2, <3>3
    <2>2. pod[p].attempt = pod[q].attempt
        BY <2>1
    <2> QED
        BY <1>1, <2>2 DEF LeaseInv, WinInv, OneWorkerPerAttempt
<1> QED
    BY <1>1, LeaseInvariant, PTL

\* No two pods work for one attempt, whenever their leases ran out, and none but its
\* repeating writer for the attempt that made the result (insightsStore.js 45-66).
THEOREM AttemptsNotShared == LeaseSpec => []OneWorkerPerAttempt
<1>1. LeaseInv => OneWorkerPerAttempt
    BY DEF LeaseInv, WinInv
<1> QED
    BY <1>1, LeaseInvariant, PTL

\* An attempt sends the model at most SdkAttempts requests, so a period pays for at most
\* MaxAttempts times as many (insights.js 133, 182-203; insightsStore.js 7).
THEOREM PaidCallsBounded == LeaseSpec => []CallsBounded
<1>1. ASSUME LeaseInv PROVE CallsBounded
    <2>1. /\ calls + 2 * Cardinality(Collecting) + Cardinality(Repeating) <= 2 * Attempts(lease)
          /\ Cardinality(Collecting) \in Nat /\ Cardinality(Repeating) \in Nat
        BY <1>1, FS_CardinalityType DEF LeaseInv, CallInv
    <2>2. Attempts(lease) \in Nat /\ Attempts(lease) <= MaxAttempts /\ calls \in Nat
        BY <1>1, LeaseFacts, LeaseAssumption DEF LeaseInv, LeaseTypeOK
    <2> QED
        BY <2>1, <2>2, LeaseAssumption DEF CallsBounded, SdkAttempts
<1> QED
    BY <1>1, LeaseInvariant, PTL
=============================================================================
