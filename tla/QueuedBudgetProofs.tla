------------------------ MODULE QueuedBudgetProofs -------------------------
(***************************************************************************)
(* Theorems about QueuedBudget, for any set of callers, any number of      *)
(* slots and any length of the line.                                       *)
(***************************************************************************)
EXTENDS QueuedBudget, FiniteSetTheorems, SequenceTheorems, TLAPS

Holders == {c \in Callers : slot[c] = "granted"}

\* Those in line wait, and each stands in it once: a release grants its slot to a
\* caller that holds none.
LineInv ==
    /\ \A i \in 1..Len(waiting) : slot[waiting[i]] = "waiting"
    /\ \A i, j \in 1..Len(waiting) : waiting[i] = waiting[j] => i = j

IInv == TypeOK /\ LineInv /\ IsFiniteSet(Holders) /\ SlotsAccounted /\ WorkConserving

-----------------------------------------------------------------------------
(* Facts about slots and lines.                                            *)

\* A caller that is given a slot it does not hold adds one holder.
LEMMA OneMoreHolder ==
    ASSUME NEW c \in Callers, IInv, slot[c] # "granted",
           slot' = [slot EXCEPT ![c] = "granted"]
    PROVE  IsFiniteSet(Holders') /\ Cardinality(Holders') = active + 1
<1>1. Holders' = Holders \cup {c}
    BY DEF IInv, TypeOK, Holders
<1>2. c \notin Holders
    BY DEF Holders
<1>3. Cardinality(Holders) = active
    BY DEF IInv, SlotsAccounted, Holders
<1> QED
    BY <1>1, <1>2, <1>3, FS_AddElement DEF IInv

\* A caller that gives its slot up leaves one holder less, and there was one.
LEMMA OneHolderLess ==
    ASSUME NEW c \in Callers, IInv, slot[c] = "granted",
           slot' = [slot EXCEPT ![c] = "released"]
    PROVE  IsFiniteSet(Holders') /\ Cardinality(Holders') = active - 1 /\ active - 1 \in 0..Maximum
<1>1. Holders' = Holders \ {c}
    BY DEF IInv, TypeOK, Holders
<1>2. c \in Holders
    BY DEF Holders
<1>3. Cardinality(Holders) = active
    BY DEF IInv, SlotsAccounted, Holders
<1>4. IsFiniteSet(Holders \ {c}) /\ Cardinality(Holders \ {c}) = active - 1
    BY <1>2, <1>3, FS_RemoveElement DEF IInv
<1>5. Cardinality(Holders \ {c}) \in Nat
    BY <1>4, FS_CardinalityType
<1>6. active - 1 \in 0..Maximum
    BY <1>4, <1>5, CapacityAssumption DEF IInv, TypeOK
<1> QED
    BY <1>1, <1>4, <1>6

\* Holders are the same callers when no slot is granted or given up.
LEMMA SameHolders ==
    ASSUME IInv, \A c \in Callers : slot'[c] = "granted" <=> slot[c] = "granted"
    PROVE  IsFiniteSet(Holders') /\ Cardinality(Holders') = active
<1>1. Holders' = Holders
    BY DEF Holders
<1> QED
    BY <1>1 DEF IInv, SlotsAccounted, Holders

\* What is left of a line when one place in it is given up.
LEMMA RemovedFromLine ==
    ASSUME NEW s \in Seq(Callers), NEW i \in 1..Len(s)
    PROVE  /\ RemoveAt(s, i) \in Seq(Callers) /\ Len(RemoveAt(s, i)) = Len(s) - 1
           /\ \A k \in 1..Len(s) - 1 : RemoveAt(s, i)[k] = IF k < i THEN s[k] ELSE s[k + 1]
<1> DEFINE front == SubSeq(s, 1, i - 1)
           back == SubSeq(s, i + 1, Len(s))
<1>1. Len(s) \in Nat
    OBVIOUS
<1>2. /\ front \in Seq(Callers) /\ Len(front) = i - 1
      /\ \A k \in 1..i - 1 : front[k] = s[k]
    BY <1>1
<1>3. /\ back \in Seq(Callers) /\ Len(back) = Len(s) - i
      /\ \A k \in 1..Len(s) - i : back[k] = s[i + k]
    BY <1>1
<1>4. RemoveAt(s, i) = front \o back
    BY DEF RemoveAt
<1> HIDE DEF front, back
<1>5. /\ front \o back \in Seq(Callers) /\ Len(front \o back) = Len(s) - 1
      /\ \A k \in 1..Len(s) - 1 :
            (front \o back)[k] = IF k <= Len(front) THEN front[k] ELSE back[k - Len(front)]
    <2>1. /\ front \o back \in Seq(Callers) /\ Len(front \o back) = Len(front) + Len(back)
          /\ \A k \in 1..Len(front) + Len(back) :
                (front \o back)[k] = IF k <= Len(front) THEN front[k] ELSE back[k - Len(front)]
        BY <1>2, <1>3, ConcatProperties
    <2>2. Len(front) + Len(back) = Len(s) - 1
        BY <1>1, <1>2, <1>3
    <2> QED
        BY <2>1, <2>2
<1>6. ASSUME NEW k \in 1..Len(s) - 1
      PROVE  RemoveAt(s, i)[k] = IF k < i THEN s[k] ELSE s[k + 1]
    <2>1. CASE k < i
        BY <1>1, <1>2, <1>4, <1>5, <2>1
    <2>2. CASE k >= i
        <3>1. k - (i - 1) \in 1..Len(s) - i /\ ~(k <= i - 1)
            BY <1>1, <2>2
        <3>2. back[k - (i - 1)] = s[i + (k - (i - 1))]
            BY <1>3, <3>1
        <3>3. i + (k - (i - 1)) = k + 1
            BY <1>1
        <3> QED
            BY <1>2, <1>4, <1>5, <2>2, <3>1, <3>2, <3>3
    <2> QED
        BY <1>1, <2>1, <2>2
<1> QED
    BY <1>4, <1>5, <1>6

-----------------------------------------------------------------------------
(* Each operation keeps the invariant.                                     *)

LEMMA InitEstablishes == Init => IInv
<1> SUFFICES ASSUME Init PROVE IInv
    OBVIOUS
<1>1. Holders = {}
    BY DEF Init, Holders
<1>2. IsFiniteSet(Holders) /\ Cardinality(Holders) = 0
    BY <1>1, FS_EmptySet
<1>3. TypeOK
    BY CapacityAssumption DEF Init, TypeOK
<1>4. LineInv /\ WorkConserving
    BY DEF Init, LineInv, WorkConserving
<1> QED
    BY <1>2, <1>3, <1>4 DEF IInv, Init, SlotsAccounted, Holders

LEMMA AcquireKeeps ==
    ASSUME IInv, NEW c \in Callers, Acquire(c)
    PROVE  IInv'
<1>1. CASE active < Maximum /\ active' = active + 1
           /\ slot' = [slot EXCEPT ![c] = "granted"] /\ UNCHANGED waiting
    <2>1. waiting = <<>>
        BY <1>1 DEF IInv, TypeOK, WorkConserving
    <2>2. IsFiniteSet(Holders') /\ Cardinality(Holders') = active + 1
        BY <1>1, OneMoreHolder DEF Acquire
    <2>3. TypeOK'
        BY <1>1, CapacityAssumption DEF IInv, TypeOK
    <2>4. LineInv' /\ WorkConserving'
        BY <1>1, <2>1 DEF LineInv, WorkConserving
    <2> QED
        BY <1>1, <2>2, <2>3, <2>4 DEF IInv, SlotsAccounted, Holders
<1>2. CASE active >= Maximum /\ HasRoom /\ waiting' = Append(waiting, c)
           /\ slot' = [slot EXCEPT ![c] = "waiting"] /\ UNCHANGED active
    <2>1. IsFiniteSet(Holders') /\ Cardinality(Holders') = active
        BY <1>2, SameHolders DEF Acquire, IInv, TypeOK
    <2>2. TypeOK'
        BY <1>2, CapacityAssumption DEF IInv, TypeOK, HasRoom
    <2>3. /\ Len(waiting') = Len(waiting) + 1 /\ waiting'[Len(waiting) + 1] = c
          /\ \A i \in 1..Len(waiting) : waiting'[i] = waiting[i]
        BY <1>2 DEF IInv, TypeOK
    <2>4. \A i \in 1..Len(waiting) : waiting[i] # c /\ waiting[i] \in Callers
        BY DEF IInv, TypeOK, LineInv, Acquire
    <2>5. LineInv'
        BY <1>2, <2>3, <2>4 DEF IInv, TypeOK, LineInv
    <2>6. WorkConserving'
        BY <1>2, CapacityAssumption DEF IInv, TypeOK, WorkConserving
    <2> QED
        BY <1>2, <2>1, <2>2, <2>5, <2>6 DEF IInv, SlotsAccounted, Holders
<1>3. CASE UNCHANGED vars
    BY <1>3 DEF vars, IInv, TypeOK, LineInv, SlotsAccounted, WorkConserving, Holders
<1> QED
    BY <1>1, <1>2, <1>3 DEF Acquire

LEMMA CancelKeeps ==
    ASSUME IInv, NEW c \in Callers, Cancel(c)
    PROVE  IInv'
<1>1. PICK i \in 1..Len(waiting) : waiting[i] = c /\ waiting' = RemoveAt(waiting, i)
    BY DEF Cancel
<1>2. /\ waiting' \in Seq(Callers) /\ Len(waiting') = Len(waiting) - 1
      /\ \A k \in 1..Len(waiting) - 1 : waiting'[k] = IF k < i THEN waiting[k] ELSE waiting[k + 1]
    BY <1>1, RemovedFromLine DEF IInv, TypeOK
<1>3. IsFiniteSet(Holders') /\ Cardinality(Holders') = active
    BY SameHolders DEF Cancel, IInv, TypeOK
<1>4. TypeOK'
    BY <1>2, CapacityAssumption DEF Cancel, IInv, TypeOK
<1>5. \A k \in 1..Len(waiting') : waiting'[k] # c /\ waiting'[k] \in Callers
    BY <1>1, <1>2 DEF IInv, TypeOK, LineInv
<1>6. LineInv'
    <2>1. \A k \in 1..Len(waiting') : slot[waiting'[k]] = "waiting"
        BY <1>2 DEF IInv, TypeOK, LineInv
    <2>2. \A k \in 1..Len(waiting') : slot'[waiting'[k]] = "waiting"
        BY <2>1, <1>5 DEF Cancel, IInv, TypeOK
    <2>3. \A k, m \in 1..Len(waiting') : waiting'[k] = waiting'[m] => k = m
        <3> DEFINE From(k) == IF k < i THEN k ELSE k + 1
        <3>1. \A k \in 1..Len(waiting') : From(k) \in 1..Len(waiting) /\ waiting'[k] = waiting[From(k)]
            BY <1>2 DEF IInv, TypeOK
        <3>2. \A k, m \in 1..Len(waiting') : waiting'[k] = waiting'[m] => From(k) = From(m)
            <4>1. \A a, b \in 1..Len(waiting) : waiting[a] = waiting[b] => a = b
                BY DEF IInv, LineInv
            <4> HIDE DEF From
            <4> QED
                BY <3>1, <4>1
        <3>3. \A k, m \in 1..Len(waiting') : From(k) = From(m) => k = m
            OBVIOUS
        <3> QED
            BY <3>2, <3>3
    <2> QED
        BY <2>2, <2>3 DEF LineInv
<1>7. WorkConserving'
    BY <1>1 DEF Cancel, IInv, TypeOK, WorkConserving
<1> QED
    BY <1>3, <1>4, <1>6, <1>7 DEF IInv, SlotsAccounted, Holders, Cancel

LEMMA ReleaseKeeps ==
    ASSUME IInv, NEW c \in Callers, Release(c)
    PROVE  IInv'
<1>1. CASE slot[c] = "released"
    BY <1>1 DEF Release, vars, IInv, TypeOK, LineInv, SlotsAccounted, WorkConserving, Holders
<1>2. CASE slot[c] = "granted" /\ waiting = <<>>
    <2>1. active' = active - 1 /\ slot' = [slot EXCEPT ![c] = "released"] /\ waiting' = <<>>
        BY <1>2 DEF Release
    <2>2. IsFiniteSet(Holders') /\ Cardinality(Holders') = active - 1 /\ active - 1 \in 0..Maximum
        BY <1>2, <2>1, OneHolderLess
    <2>3. TypeOK'
        BY <2>1, <2>2, CapacityAssumption DEF IInv, TypeOK
    <2>4. LineInv' /\ WorkConserving'
        BY <2>1 DEF LineInv, WorkConserving
    <2> QED
        BY <2>1, <2>2, <2>3, <2>4 DEF IInv, SlotsAccounted, Holders
<1>3. CASE slot[c] = "granted" /\ waiting # <<>>
    <2> DEFINE h == Head(waiting)
    <2>1. /\ active' = active /\ waiting' = Tail(waiting)
          /\ slot' = [slot EXCEPT ![c] = "released", ![h] = "granted"]
        BY <1>3 DEF Release
    <2>2. /\ h = waiting[1] /\ h \in Callers /\ slot[h] = "waiting" /\ h # c
          /\ Len(waiting) \in Nat \ {0}
        BY <1>3 DEF IInv, TypeOK, LineInv
    <2>3. /\ waiting' \in Seq(Callers) /\ Len(waiting') = Len(waiting) - 1
          /\ \A k \in 1..Len(waiting') : waiting'[k] = waiting[k + 1]
        BY <2>1, <2>2 DEF IInv, TypeOK
    <2> HIDE DEF h
    <2>4. Cardinality(Holders') = active /\ IsFiniteSet(Holders')
        <3>1. Holders' = (Holders \ {c}) \cup {h}
            BY <2>1, <2>2 DEF IInv, TypeOK, Holders
        <3>2. c \in Holders /\ h \notin Holders \ {c}
            BY <1>3, <2>2 DEF Holders
        <3>3. Cardinality(Holders) = active /\ active \in Int
            BY DEF IInv, TypeOK, SlotsAccounted, Holders
        <3>4. IsFiniteSet(Holders \ {c}) /\ Cardinality(Holders \ {c}) = active - 1
            BY <3>2, <3>3, FS_RemoveElement DEF IInv
        <3> QED
            BY <3>1, <3>2, <3>3, <3>4, FS_AddElement
    <2>5. TypeOK'
        BY <2>1, <2>2, <2>3, CapacityAssumption DEF IInv, TypeOK
    <2>6. LineInv'
        <3>1. \A k \in 1..Len(waiting') : /\ waiting'[k] \in Callers
                                          /\ waiting'[k] # h /\ slot[waiting'[k]] = "waiting"
            BY <2>2, <2>3 DEF IInv, TypeOK, LineInv
        <3>2. \A k \in 1..Len(waiting') : slot'[waiting'[k]] = "waiting"
            BY <1>3, <2>1, <2>2, <3>1 DEF IInv, TypeOK
        <3>3. \A k, m \in 1..Len(waiting') : waiting'[k] = waiting'[m] => k = m
            BY <2>3 DEF IInv, TypeOK, LineInv
        <3> QED
            BY <3>2, <3>3 DEF LineInv
    <2>7. WorkConserving'
        BY <1>3, <2>1 DEF IInv, WorkConserving
    <2> QED
        BY <2>1, <2>4, <2>5, <2>6, <2>7 DEF IInv, SlotsAccounted, Holders
<1> QED
    BY <1>1, <1>2, <1>3 DEF Release

LEMMA DropKeeps ==
    ASSUME IInv, NEW c \in Callers, Drop(c)
    PROVE  IInv'
<1>1. IsFiniteSet(Holders') /\ Cardinality(Holders') = active
    BY SameHolders DEF Drop, IInv, TypeOK
<1>2. TypeOK'
    BY DEF Drop, IInv, TypeOK
<1>3. \A i \in 1..Len(waiting) : waiting[i] # c /\ waiting[i] \in Callers
    BY DEF Drop, IInv, TypeOK, LineInv
<1>4. LineInv'
    BY <1>3 DEF Drop, IInv, TypeOK, LineInv
<1>5. WorkConserving'
    BY DEF Drop, IInv, WorkConserving
<1> QED
    BY <1>1, <1>2, <1>4, <1>5 DEF IInv, SlotsAccounted, Holders, Drop

LEMMA NextKeeps == IInv /\ [Next]_vars => IInv'
<1> SUFFICES ASSUME IInv, [Next]_vars PROVE IInv'
    OBVIOUS
<1>1. CASE UNCHANGED vars
    BY <1>1 DEF vars, IInv, TypeOK, LineInv, SlotsAccounted, WorkConserving, Holders
<1>2. CASE Next
    BY <1>2, AcquireKeeps, CancelKeeps, ReleaseKeeps, DropKeeps DEF Next
<1> QED
    BY <1>1, <1>2

-----------------------------------------------------------------------------
(* The theorems.                                                           *)

\* The inductive invariant, with the line and its callers' states in agreement.
THEOREM InductiveInvariant == Spec => []IInv
BY InitEstablishes, NextKeeps, PTL DEF Spec

\* The counts and the line stay within the budget's limits, whatever interleaves.
THEOREM TypeCorrect == Spec => []TypeOK
<1>1. IInv => TypeOK
    BY DEF IInv
<1> QED
    BY <1>1, InductiveInvariant, PTL

\* The count of slots is the number of callers that hold one (capacity.js 31-44).
THEOREM SlotsNeitherLostNorDoubled == Spec => []SlotsAccounted
<1>1. IInv => SlotsAccounted
    BY DEF IInv
<1> QED
    BY <1>1, InductiveInvariant, PTL

\* No caller waits while a slot is free (capacity.js 38-42, 48).
THEOREM NobodyWaitsBesideAFreeSlot == Spec => []WorkConserving
<1>1. IInv => WorkConserving
    BY DEF IInv
<1> QED
    BY <1>1, InductiveInvariant, PTL

\* While callers wait, only the one at the head of the line is granted a slot.
THEOREM ServedInOrder == Spec => NoOvertaking
<1> DEFINE Granting == \A c \in Callers :
                (waiting # <<>> /\ slot[c] # "granted" /\ slot'[c] = "granted") => c = Head(waiting)
<1>1. IInv /\ [Next]_vars => [Granting]_vars
    <2> SUFFICES ASSUME IInv, Next PROVE Granting
        OBVIOUS
    <2> SUFFICES ASSUME NEW c \in Callers, waiting # <<>>, slot[c] # "granted", slot'[c] = "granted"
                 PROVE  c = Head(waiting)
        OBVIOUS
    <2>1. PICK d \in Callers : Acquire(d) \/ Cancel(d) \/ Release(d) \/ Drop(d)
        BY DEF Next
    <2>2. CASE Acquire(d)
        <3>1. ~(active < Maximum)
            BY CapacityAssumption DEF IInv, TypeOK, WorkConserving
        <3> QED
            BY <2>2, <3>1 DEF Acquire, vars, IInv, TypeOK
    <2>3. CASE Cancel(d) \/ Drop(d)
        BY <2>3 DEF Cancel, Drop, IInv, TypeOK
    <2>4. CASE Release(d)
        BY <2>4 DEF Release, vars, IInv, TypeOK
    <2> QED
        BY <2>1, <2>2, <2>3, <2>4
<1>2. NoOvertaking <=> [][Granting]_vars
    BY DEF NoOvertaking
<1> QED
    BY <1>1, <1>2, InductiveInvariant, PTL DEF Spec

=============================================================================
