---------------------------- MODULE QueuedBudget ----------------------------
(***************************************************************************)
(* createQueuedBudget (capacity.js): at most Maximum callers hold a slot,  *)
(* at most MaxWaiting wait in line, and a released slot goes to the head   *)
(* of the line.  One JavaScript call is one action; the promise a waiter   *)
(* awaits is resolved, by handing it the slot, in the call that frees it.  *)
(***************************************************************************)
EXTENDS Integers, Sequences, FiniteSets, SequencesExt

CONSTANTS Callers, Maximum, MaxWaiting

ASSUME CapacityAssumption == Maximum \in Nat \ {0} /\ MaxWaiting \in Nat \ {0}

VARIABLES
    active,     \* slots given out
    waiting,    \* the callers in line
    slot        \* caller -> where its call of acquire stands

vars == <<active, waiting, slot>>

\* "released": the release function has been called and may be called again.
TypeOK ==
    /\ active \in 0..Maximum
    /\ waiting \in Seq(Callers) /\ Len(waiting) <= MaxWaiting
    /\ slot \in [Callers -> {"idle", "waiting", "granted", "released"}]

Init ==
    /\ active = 0
    /\ waiting = <<>>
    /\ slot = [c \in Callers |-> "idle"]

HasRoom == Len(waiting) < MaxWaiting

\* acquire: a slot at once, a place in line, or CapacityError.
Acquire(c) ==
    /\ slot[c] = "idle"
    /\ \/ /\ active < Maximum
          /\ active' = active + 1
          /\ slot' = [slot EXCEPT ![c] = "granted"]
          /\ UNCHANGED waiting
       \/ /\ active >= Maximum /\ HasRoom
          /\ waiting' = Append(waiting, c)
          /\ slot' = [slot EXCEPT ![c] = "waiting"]
          /\ UNCHANGED active
       \/ /\ active >= Maximum /\ ~HasRoom
          /\ UNCHANGED vars

\* The caller's abort signal or the wait timer takes it out of the line.
Cancel(c) ==
    /\ slot[c] = "waiting"
    /\ \E i \in 1..Len(waiting) : waiting[i] = c /\ waiting' = RemoveAt(waiting, i)
    /\ slot' = [slot EXCEPT ![c] = "idle"]
    /\ UNCHANGED active

\* Faulty: the freed slot is not handed to the head of the line.
ReleaseNoHandOff(c) ==
    /\ slot[c] \in {"granted", "released"}
    /\ IF slot[c] = "released"
       THEN UNCHANGED vars
       ELSE /\ active' = active - 1
            /\ slot' = [slot EXCEPT ![c] = "released"]
            /\ UNCHANGED waiting

\* Faulty: release does not remember that it ran.
ReleaseTwice(c) ==
    /\ slot[c] \in {"granted", "released"} /\ active > 0
    /\ slot' = [slot EXCEPT ![c] = "released"]
    /\ active' = active - 1
    /\ UNCHANGED waiting

\* Faulty: the freed slot goes to the latest waiter.
ReleaseToLast(c) ==
    /\ slot[c] \in {"granted", "released"}
    /\ IF slot[c] = "released"
       THEN UNCHANGED vars
       ELSE LET last == waiting[Len(waiting)]
            IN  IF waiting = <<>>
                THEN /\ active' = active - 1
                     /\ slot' = [slot EXCEPT ![c] = "released"]
                     /\ UNCHANGED waiting
                ELSE /\ waiting' = SubSeq(waiting, 1, Len(waiting) - 1)
                     /\ slot' = [slot EXCEPT ![c] = "released", ![last] = "granted"]
                     /\ UNCHANGED active

\* release: the first call frees the slot or hands it on, a further one is void.
Release(c) ==
    /\ slot[c] \in {"granted", "released"}
    /\ IF slot[c] = "released"
       THEN UNCHANGED vars
       ELSE IF waiting = <<>>
       THEN /\ active' = active - 1
            /\ slot' = [slot EXCEPT ![c] = "released"]
            /\ UNCHANGED waiting
       ELSE /\ waiting' = Tail(waiting)
            /\ slot' = [slot EXCEPT ![c] = "released", ![Head(waiting)] = "granted"]
            /\ UNCHANGED active

\* The caller drops the release function and may call acquire again.
Drop(c) ==
    /\ slot[c] = "released"
    /\ slot' = [slot EXCEPT ![c] = "idle"]
    /\ UNCHANGED <<active, waiting>>

Next == \E c \in Callers : Acquire(c) \/ Cancel(c) \/ Release(c) \/ Drop(c)

Spec == Init /\ [][Next]_vars

\* Holders run in a try block whose finally releases (clickhouse.js 96-98);
\* neither the wait timer nor an abort is assumed.
FairSpec == Spec /\ \A c \in Callers : WF_vars(slot[c] = "granted" /\ Release(c))

-----------------------------------------------------------------------------
(* Properties *)

(***************************************************************************)
(* The count matches the slots held, however acquire, cancel and repeated  *)
(* calls of release interleave: a lost release would shrink the database   *)
(* budget for good, a doubled one would exceed it (capacity.js 31-44).     *)
(***************************************************************************)
SlotsAccounted == active = Cardinality({c \in Callers : slot[c] = "granted"})

\* No caller waits while a slot is free (capacity.js 38-42, 48).
WorkConserving == waiting # <<>> => active = Maximum

(***************************************************************************)
(* A caller is granted a slot before those in line only when it heads the  *)
(* line: nobody slips in between a release and the hand-over.              *)
(***************************************************************************)
NoOvertaking ==
    [][\A c \in Callers :
          (waiting # <<>> /\ slot[c] # "granted" /\ slot'[c] = "granted")
              => c = Head(waiting)]_vars

(***************************************************************************)
(* As long as holders release, every caller in line gets its turn (or      *)
(* gives up), although newcomers keep calling acquire.                     *)
(***************************************************************************)
WaitersServed == \A c \in Callers : slot[c] = "waiting" ~> slot[c] # "waiting"

=============================================================================
