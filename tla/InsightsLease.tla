---------------------------- MODULE InsightsLease ----------------------------
(***************************************************************************)
(* The daily insight of one period: every pod's scheduler (insights.js)    *)
(* tries to generate it; a lease item gates the paid model call and the    *)
(* result item is written once (insightsStore.js).  Steps are cut at the   *)
(* awaits; what DynamoDB does with a command is part of the step that      *)
(* brings its answer.                                                      *)
(***************************************************************************)
EXTENDS Integers

CONSTANTS
    Pods,
    LeaseTime,      \* LEASE_MS, in ticks
    MaxAttempts,    \* MAX_ATTEMPTS
    NoLease,        \* the lease item before the first attempt
    NoResult,       \* no result item
    IdleClock,      \* bound: without a running lease the clock stops here
    MaxFaults       \* bound: crashes and unanswered commands in a behaviour

ASSUME LeaseAssumption ==
    /\ LeaseTime \in Nat \ {0} /\ MaxAttempts \in Nat \ {0}
    /\ IdleClock \in Nat /\ MaxFaults \in Nat
    /\ NoLease \notin [attempts : Nat, expiresAt : Nat]

VARIABLES
    clock,
    lease,          \* the lease item
    result,         \* the result item
    pod,            \* pod -> its generateDaily call
    calls,          \* history: requests sent to the model, each of them paid for
    faults          \* faults so far

leaseVars == <<clock, lease, result, pod, calls, faults>>

MaxClock == IdleClock + MaxAttempts * LeaseTime
Lease == [attempts : 1..MaxAttempts, expiresAt : 0..MaxClock + LeaseTime]
Result == [kind : {"empty", "generated"}, attempt : 1..MaxAttempts]

\* at is nowMs, seen the lease item acquireLease read, attempt the one it won.
PodState ==
    [pc : {"idle", "check", "read", "swap", "collect", "model", "empty", "generated"},
     at : 0..MaxClock, seen : Lease \cup {NoLease}, attempt : 0..MaxAttempts,
     retried : BOOLEAN]

LeaseTypeOK ==
    /\ clock \in 0..MaxClock
    /\ lease \in Lease \cup {NoLease}
    /\ result \in Result \cup {NoResult}
    /\ pod \in [Pods -> PodState]
    /\ calls \in Nat
    /\ faults \in 0..MaxFaults

IdlePod == [pc |-> "idle", at |-> 0, seen |-> NoLease, attempt |-> 0, retried |-> FALSE]

LeaseInit ==
    /\ clock = 0
    /\ lease = NoLease
    /\ result = NoResult
    /\ pod = [p \in Pods |-> IdlePod]
    /\ calls = 0
    /\ faults = 0

Become(p, state) == pod' = [pod EXCEPT ![p] = state]
Go(p, pc) == pod' = [pod EXCEPT ![p].pc = pc, ![p].retried = FALSE]

-----------------------------------------------------------------------------
(* One attempt *)

\* tick: the period is due and no call of this pod is running.
Start(p) ==
    /\ pod[p].pc = "idle"
    /\ Become(p, [IdlePod EXCEPT !.pc = "check", !.at = clock])
    /\ UNCHANGED <<clock, lease, result, calls, faults>>

\* getResult: nothing to do once there is a result.
Check(p) ==
    /\ pod[p].pc = "check"
    /\ IF result # NoResult THEN Become(p, IdlePod) ELSE Go(p, "read")
    /\ UNCHANGED <<clock, lease, result, calls, faults>>

Attempts(l) == IF l = NoLease THEN 0 ELSE l.attempts

\* Faulty: a running lease is not respected.
HeldNever(l, at) == FALSE

\* Faulty: an expired lease is still respected.
HeldForever(l, at) == l # NoLease

Held(l, at) == l # NoLease /\ l.expiresAt > at

Exhausted(l) == Attempts(l) >= MaxAttempts

\* acquireLease reads the item: held, exhausted, or worth an attempt.
ReadLease(p) ==
    /\ pod[p].pc = "read"
    /\ IF Held(lease, pod[p].at) \/ Exhausted(lease)
       THEN Become(p, IdlePod)
       ELSE Become(p, [pod[p] EXCEPT !.pc = "swap", !.seen = lease])
    /\ UNCHANGED <<clock, lease, result, calls, faults>>

\* Faulty: the put is not conditional on the lease that was read.
SwapHoldsAlways(p) == TRUE

\* Faulty: any lease that has expired may be replaced, whichever was read.
SwapHoldsUnlessHeld(p) == ~Held(lease, pod[p].at)

\* The put's condition: the item read is still there, or there was none.
SwapHolds(p) == lease = pod[p].seen

\* acquireLease's put.  Its answer arrives, or is lost and the SDK repeats the
\* command, whose condition then fails on the pod's own lease.
Swap(p) ==
    LET attempt == Attempts(pod[p].seen) + 1
    IN  /\ pod[p].pc = "swap"
        /\ lease' = IF SwapHolds(p)
                    THEN [attempts |-> attempt, expiresAt |-> pod[p].at + LeaseTime]
                    ELSE lease
        /\ \/ SwapHolds(p) /\ Become(p, [pod[p] EXCEPT !.pc = "collect", !.attempt = attempt,
                                            !.seen = NoLease, !.retried = FALSE])
           \/ ~SwapHolds(p) /\ Become(p, IdlePod)
           \/ ~pod[p].retried /\ Become(p, [pod[p] EXCEPT !.retried = TRUE])
        /\ UNCHANGED <<clock, result, calls, faults>>

\* collect: queries fail, find no session, or give the model its input.
Collect(p) ==
    /\ pod[p].pc = "collect"
    /\ \/ Become(p, IdlePod) /\ UNCHANGED calls
       \/ Go(p, "empty") /\ UNCHANGED calls
       \/ Go(p, "model") /\ calls' = calls + 1
    /\ UNCHANGED <<clock, lease, result, faults>>

\* The requests that the SDK's clients send for one command (maxAttempts).
SdkAttempts == 2

\* The model fails, its output is invalid, or it is a result.  A request that fails on
\* the way, or whose answer is lost, is sent once more.
Model(p) ==
    /\ pod[p].pc = "model"
    /\ \/ (Become(p, IdlePod) \/ Go(p, "generated")) /\ UNCHANGED calls
       \/ /\ ~pod[p].retried
          /\ Become(p, [pod[p] EXCEPT !.retried = TRUE])
          /\ calls' = calls + 1
    /\ UNCHANGED <<clock, lease, result, faults>>

PutHolds == result = NoResult

\* putResult; whether it wrote is not looked at.
Put(p) ==
    /\ pod[p].pc \in {"empty", "generated"}
    /\ result' = IF PutHolds
                 THEN [kind |-> pod[p].pc, attempt |-> pod[p].attempt]
                 ELSE result
    /\ \/ Become(p, IdlePod)
       \/ ~pod[p].retried /\ Become(p, [pod[p] EXCEPT !.retried = TRUE])
    /\ UNCHANGED <<clock, lease, calls, faults>>

\* The pod crashes, or the store does not answer within 3 s.
Fault(p) ==
    /\ pod[p].pc # "idle" /\ faults < MaxFaults
    /\ faults' = faults + 1
    /\ Become(p, IdlePod)
    /\ UNCHANGED <<clock, lease, result, calls>>

Tick ==
    /\ clock < IdleClock \/ (lease # NoLease /\ lease.expiresAt > clock)
    /\ clock' = clock + 1
    /\ UNCHANGED <<lease, result, pod, calls, faults>>

Work(p) == Check(p) \/ ReadLease(p) \/ Swap(p) \/ Collect(p) \/ Model(p) \/ Put(p)

LeaseNext == Tick \/ \E p \in Pods : Start(p) \/ Work(p) \/ Fault(p)

LeaseSpec == LeaseInit /\ [][LeaseNext]_leaseVars

\* The interval timer fires, and every await ends: the store's after 3 s, the
\* queries' at their deadline, the model's after 60 s.
LeaseFairSpec == LeaseSpec /\ WF_leaseVars(Tick) /\ \A p \in Pods : WF_leaseVars(Start(p)) /\ WF_leaseVars(Work(p))

-----------------------------------------------------------------------------
(* Properties *)

Working(p) == pod[p].pc \in {"collect", "model", "empty", "generated"}

(***************************************************************************)
(* At most one pod works under a lease that has not expired, also when     *)
(* several read the same expired lease at once or a command is repeated    *)
(* (insightsStore.js 45-61: "one pod wins each attempt").                  *)
(***************************************************************************)
OneWorker ==
    \A p, q \in Pods :
        (/\ Working(p) /\ pod[p].at + LeaseTime > clock
         /\ Working(q) /\ pod[q].at + LeaseTime > clock) => p = q

(***************************************************************************)
(* No two pods ever work for the same attempt, also when one has outlived  *)
(* its lease and the next one holds a lease of its own; the result names   *)
(* the attempt that made it, and only its writer, repeating the command    *)
(* whose answer was lost, still works for that one (insightsStore.js 59).  *)
(***************************************************************************)
OneWorkerPerAttempt ==
    \A p \in Pods : Working(p) =>
        /\ \A q \in Pods : Working(q) /\ pod[q].attempt = pod[p].attempt => p = q
        /\ (result # NoResult /\ result.attempt = pod[p].attempt) =>
              pod[p].pc = result.kind /\ pod[p].retried

(***************************************************************************)
(* A period pays for no more than SdkAttempts requests in each of its      *)
(* MaxAttempts attempts, whatever pods crash, overrun their lease or lose  *)
(* an answer (insightsStore.js 7, insights.js 133 and 182).                *)
(***************************************************************************)
CallsBounded == calls <= SdkAttempts * MaxAttempts

(***************************************************************************)
(* The period settles: it has a result, or its three attempts are used up  *)
(* and the last lease has expired, whichever pods crash or overrun.        *)
(***************************************************************************)
Settles == <>(\/ result # NoResult
              \/ Exhausted(lease) /\ ~Held(lease, clock))

=============================================================================
