---------------------------- MODULE IngestProofs ----------------------------
(***************************************************************************)
(* Theorems about Ingest, for any sets of requests and devices and any     *)
(* limits and times.  ForwardedWhileLive needs a strengthening: what a     *)
(* verification found stays true for as long as it has been running.  The  *)
(* limits rest on three more: where a device's window stands in its        *)
(* history, which requests hold slots, and the ages of last-seen writes.   *)
(***************************************************************************)
EXTENDS Ingest, FiniteSetTheorems, TLAPS

\* The part of TypeOK that the theorems rest on.
RequestsTyped ==
    /\ req \in [Requests -> Request]
    /\ retired \in [Devices -> {Never} \cup 0..LongAgo]

\* Every request that is worked on came from a device.
DevicesKnown == \A q \in Requests : req[q].open => req[q].device \in Devices

\* A token that a verification may accept was retired for less than CacheTTL when it
\* began, spent ticks ago.
FreshInv ==
    \A q \in Requests :
        (req[q].open /\ req[q].stage \in Verifying /\ req[q].fresh) =>
            Live(req[q].device) \/ retired[req[q].device] < CacheTTL + req[q].spent

IInv == RequestsTyped /\ DevicesKnown /\ FreshInv

-----------------------------------------------------------------------------
(* One request at a time. *)

LEMMA Times == {RequestTimeout, VerifyTime} \subseteq Nat /\ CacheTTL \in Nat \ {0}
BY IngestAssumption

LEMMA Initially == Init => IInv
BY Times DEF Init, IInv, RequestsTyped, DevicesKnown, FreshInv, NoRequest, Request, Never, LongAgo

\* A request that is over, or lingers, fits every part of the invariant.
LEMMA Closed ==
    ASSUME IInv, NEW q \in Requests, NEW r, UNCHANGED retired,
           req' = [req EXCEPT ![q] = r], r \in Request, ~r.open
    PROVE  IInv'
<1>1. RequestsTyped'
    BY DEF IInv, RequestsTyped, LongAgo
<1>2. \A p \in Requests : req'[p] = IF p = q THEN r ELSE req[p]
    BY DEF IInv, RequestsTyped
<1>3. DevicesKnown'
    BY <1>2 DEF IInv, DevicesKnown
<1>4. FreshInv'
    BY <1>2 DEF IInv, FreshInv, Live
<1> QED
    BY <1>1, <1>3, <1>4 DEF IInv

\* So does an open one of a known device that verifies nothing, or nothing fresh, or has
\* just begun to.
LEMMA Opened ==
    ASSUME IInv, NEW q \in Requests, NEW r, UNCHANGED retired,
           req' = [req EXCEPT ![q] = r], r \in Request, r.device \in Devices,
           r.stage \in Verifying => r.fresh = Fresh(r.device) /\ r.spent = 0
    PROVE  IInv'
<1>1. RequestsTyped'
    BY DEF IInv, RequestsTyped, LongAgo
<1>2. \A p \in Requests : req'[p] = IF p = q THEN r ELSE req[p]
    BY DEF IInv, RequestsTyped
<1>3. DevicesKnown'
    BY <1>2 DEF IInv, DevicesKnown
<1>4. FreshInv'
    <2> SUFFICES ASSUME NEW p \in Requests, req'[p].open, req'[p].stage \in Verifying, req'[p].fresh
                 PROVE  \/ retired'[req'[p].device] = Never
                        \/ retired'[req'[p].device] < CacheTTL + req'[p].spent
        BY DEF FreshInv, Live
    <2>1. CASE p = q
        <3>1. retired[r.device] \in Int
            BY Times DEF IInv, RequestsTyped, Never, LongAgo
        <3> QED
            BY <1>2, <2>1, <3>1, Times DEF Fresh, Live, Verifying, Request
    <2>2. CASE p # q
        BY <1>2, <2>2 DEF IInv, FreshInv, Live
    <2> QED
        BY <2>1, <2>2
<1> QED
    BY <1>1, <1>3, <1>4 DEF IInv

LEMMA NoRequestFits == NoRequest \in Request /\ ~NoRequest.open
BY Times DEF NoRequest, Request

-----------------------------------------------------------------------------
(* The actions. *)

LEMMA ArriveKeeps ==
    ASSUME IInv, NEW q \in Requests, NEW d \in Devices, NEW stage \in {"verify", "renew"},
           Arrive(q, d, stage)
    PROVE  IInv'
<1> DEFINE r == [stage |-> stage, open |-> TRUE, device |-> d,
                 age |-> 0, spent |-> 0, fresh |-> Fresh(d)]
<1>1. r \in Request /\ r.device \in Devices
    <2>1. Fresh(d) \in BOOLEAN
        BY DEF Fresh, Live
    <2> QED
        BY <2>1, Times DEF Request, Stage
<1>2. r.fresh = Fresh(r.device) /\ r.spent = 0
    OBVIOUS
<1>3. req' = [req EXCEPT ![q] = r] /\ UNCHANGED retired
    BY DEF Arrive
<1> HIDE DEF r
<1> QED
    BY <1>1, <1>2, <1>3, Opened

LEMMA AbortKeeps ==
    ASSUME IInv, NEW q \in Requests, Abort(q)
    PROVE  IInv'
<1> DEFINE r == Lingering(req[q])
<1>1. r \in Request /\ ~r.open
    <2>1. req[q] \in Request /\ 0 \in 0..RequestTimeout
        BY Times DEF IInv, RequestsTyped
    <2> QED
        BY <2>1 DEF Lingering, Request
<1>2. req' = [req EXCEPT ![q] = r] /\ UNCHANGED retired
    BY DEF Abort
<1> HIDE DEF r
<1> QED
    BY <1>1, <1>2, Closed

LEMMA StopKeeps ==
    ASSUME IInv, NEW q \in Requests, Stop(q) \/ Refuse(q) \/ Deliver(q) \/ Renewed(q)
    PROVE  IInv'
<1>1. req' = [req EXCEPT ![q] = NoRequest] /\ UNCHANGED retired
    BY DEF Stop, Refuse, Deliver, Renewed, Answer
<1> QED
    BY <1>1, NoRequestFits, Closed

\* On to a stage that verifies nothing.
LEMMA MoveKeeps ==
    ASSUME IInv, NEW q \in Requests, req[q].open, NEW stage \in Stage \ Verifying,
           MoveTo(q, stage), UNCHANGED retired
    PROVE  IInv'
<1> DEFINE r == [req[q] EXCEPT !.stage = stage, !.spent = 0, !.fresh = FALSE]
<1>1. r \in Request /\ r.stage = stage /\ r.device \in Devices
    <2>1. req[q] \in Request /\ req[q].device \in Devices
        BY DEF IInv, RequestsTyped, DevicesKnown
    <2>2. stage \in Stage \cup {"none"} /\ 0 \in 0..VerifyTime /\ FALSE \in BOOLEAN
        BY Times
    <2> QED
        BY <2>1, <2>2 DEF Request
<1>2. req' = [req EXCEPT ![q] = r]
    BY DEF MoveTo, IInv, RequestsTyped
<1> HIDE DEF r
<1> QED
    BY <1>1, <1>2, Opened

LEMMA UploadKeeps ==
    ASSUME IInv, NEW q \in Requests, Upload(q)
    PROVE  IInv'
<1> DEFINE r == Verification(q, "recheck")
<1>1. req[q] \in Request /\ req[q].device \in Devices
    BY DEF Upload, At, IInv, RequestsTyped, DevicesKnown
<1>2. \A fresh \in BOOLEAN :
          [req[q] EXCEPT !.stage = "recheck", !.spent = 0, !.fresh = fresh] \in Request
    <2> TAKE fresh \in BOOLEAN
    <2>1. "recheck" \in Stage \cup {"none"} /\ 0 \in 0..VerifyTime
        BY Times DEF Stage
    <2> QED
        BY <1>1, <2>1 DEF Request
<1>3. r \in Request /\ r.device = req[q].device
    <2>1. Fresh(req[q].device) \in BOOLEAN
        BY DEF Fresh, Live
    <2> QED
        BY <1>1, <1>2, <2>1 DEF Verification, Request
<1>4. r.fresh = Fresh(r.device) /\ r.spent = 0
    BY <1>1 DEF Verification, Request
<1>5. req' = [req EXCEPT ![q] = r] /\ UNCHANGED retired
    BY DEF Upload
<1> HIDE DEF r
<1> QED
    BY <1>1, <1>3, <1>4, <1>5, Opened

LEMMA WorksKeep ==
    ASSUME IInv, NEW q \in Requests, Works(q)
    PROVE  IInv'
<1>1. CASE Accept(q)
    BY <1>1, MoveKeeps DEF Accept, At, Stage, Verifying
<1>2. CASE Upload(q)
    BY <1>2, UploadKeeps
<1>3. CASE Forward(q)
    BY <1>3, MoveKeeps DEF Forward, At, Stage, Verifying
<1>4. CASE Deliver(q) \/ Renewed(q) \/ Refuse(q)
    BY <1>4, StopKeeps
<1> QED
    BY <1>1, <1>2, <1>3, <1>4 DEF Works

\* A token just retired is younger than any bound: a verification it was fresh for saw it
\* live, or began at CacheTTL > 0.
LEMMA RetireKeeps ==
    ASSUME IInv, NEW d \in Devices, Retire(d)
    PROVE  IInv'
<1>1. retired' \in [Devices -> {Never} \cup 0..LongAgo]
    BY Times DEF Retire, IInv, RequestsTyped, LongAgo
<1>2. UNCHANGED req
    BY DEF Retire, slots
<1>3. \A e \in Devices : retired'[e] = IF e = d THEN 0 ELSE retired[e]
    BY DEF Retire, IInv, RequestsTyped
<1>4. RequestsTyped' /\ DevicesKnown'
    BY <1>1, <1>2 DEF IInv, RequestsTyped, DevicesKnown, LongAgo
<1>5. FreshInv'
    <2> SUFFICES ASSUME NEW q \in Requests, req[q].open, req[q].stage \in Verifying, req[q].fresh
                 PROVE  \/ retired'[req[q].device] = Never
                        \/ retired'[req[q].device] < CacheTTL + req[q].spent
        BY <1>2 DEF FreshInv, Live
    <2>1. req[q].device \in Devices /\ req[q].spent \in Nat
        BY Times DEF IInv, DevicesKnown, RequestsTyped, Request
    <2>2. CASE req[q].device # d
        BY <1>3, <2>1, <2>2 DEF IInv, FreshInv, Live
    <2>3. CASE req[q].device = d
        BY <1>3, <2>1, <2>3, Times
    <2> QED
        BY <2>2, <2>3
<1> QED
    BY <1>4, <1>5 DEF IInv

LEMMA TickKeeps ==
    ASSUME IInv, Tick
    PROVE  IInv'
<1>1. \A q \in Requests : req'[q] =
          [req[q] EXCEPT !.age = IF req[q].open THEN @ + 1 ELSE @,
                         !.spent = IF req[q].stage \in Verifying THEN @ + 1 ELSE @]
    BY DEF Tick
<1>2. \A d \in Devices : retired'[d] = IF Live(d) THEN Never ELSE Older(retired[d], LongAgo)
    BY DEF Tick
<1>3. RequestsTyped'
    <2>1. \A q \in Requests : req'[q] \in Request
        <3> TAKE q \in Requests
        <3>1. req[q] \in Request /\ ~Overdue(q)
            BY DEF Tick, IInv, RequestsTyped
        <3> DEFINE age == IF req[q].open THEN req[q].age + 1 ELSE req[q].age
                   spent == IF req[q].stage \in Verifying THEN req[q].spent + 1 ELSE req[q].spent
        <3>2. age \in 0..RequestTimeout
            BY <3>1, Times DEF Overdue, Request
        <3>3. spent \in 0..VerifyTime
            BY <3>1, Times DEF Overdue, Request
        <3>4. req'[q] = [req[q] EXCEPT !.age = age, !.spent = spent]
            BY <1>1
        <3> HIDE DEF age, spent
        <3> QED
            BY <3>1, <3>2, <3>3, <3>4 DEF Request
    <2>2. \A d \in Devices : retired'[d] \in {Never} \cup 0..LongAgo
        BY <1>2, Times DEF Live, Older, IInv, RequestsTyped, LongAgo, Never
    <2>3. req' = [q \in Requests |-> req'[q]] /\ retired' = [d \in Devices |-> retired'[d]]
        BY DEF Tick
    <2> QED
        BY <2>1, <2>2, <2>3 DEF RequestsTyped, LongAgo
<1>4. \A q \in Requests : /\ req'[q].open = req[q].open /\ req'[q].device = req[q].device
                          /\ req'[q].stage = req[q].stage /\ req'[q].fresh = req[q].fresh
                          /\ req[q].stage \in Verifying => req'[q].spent = req[q].spent + 1
    <2> TAKE q \in Requests
    <2>1. req[q] \in Request
        BY DEF IInv, RequestsTyped
    <2> QED
        BY <1>1, <2>1 DEF Request
<1>5. DevicesKnown'
    BY <1>4 DEF IInv, DevicesKnown
<1>6. FreshInv'
    <2> SUFFICES ASSUME NEW q \in Requests, req'[q].open, req'[q].stage \in Verifying, req'[q].fresh
                 PROVE  \/ retired'[req'[q].device] = Never
                        \/ retired'[req'[q].device] < CacheTTL + req'[q].spent
        BY DEF FreshInv, Live
    <2> DEFINE d == req[q].device
    <2>1. d \in Devices /\ req'[q].device = d /\ req'[q].spent = req[q].spent + 1
        BY <1>4 DEF IInv, DevicesKnown
    <2>2. Live(d) \/ retired[d] < CacheTTL + req[q].spent
        BY <1>4 DEF IInv, FreshInv
    <2>3. retired[d] \in Int /\ req[q].spent \in Nat
        BY <2>1, Times DEF IInv, RequestsTyped, Request, Never, LongAgo
    <2> HIDE DEF d
    <2>4. CASE Live(d)
        BY <1>2, <2>1, <2>4 DEF Live
    <2>5. CASE ~Live(d)
        BY <1>2, <2>1, <2>2, <2>3, <2>5, Times DEF Older, LongAgo
    <2> QED
        BY <2>4, <2>5
<1> QED
    BY <1>3, <1>5, <1>6 DEF IInv

LEMMA NextKeeps ==
    ASSUME IInv, [Next]_vars
    PROVE  IInv'
<1>1. CASE UNCHANGED <<req, retired>>
    BY <1>1 DEF IInv, RequestsTyped, DevicesKnown, FreshInv, Live, LongAgo
<1>2. ASSUME NEW q \in Requests, NEW d \in Devices, Arrive(q, d, "verify") \/ Arrive(q, d, "renew")
      PROVE  IInv'
    BY <1>2, ArriveKeeps
<1>3. ASSUME NEW q \in Requests, Works(q) \/ Timeout(q) \/ Close(q) \/ Stop(q)
      PROVE  IInv'
    BY <1>3, WorksKeep, AbortKeeps, StopKeeps DEF Timeout, Close
<1>4. ASSUME NEW d \in Devices, Retire(d)
      PROVE  IInv'
    BY <1>4, RetireKeeps
<1>5. CASE Tick
    BY <1>5, TickKeeps
<1>6. ASSUME NEW a \in 0..TouchTimeout, TouchEnds(a)
      PROVE  UNCHANGED <<req, retired>>
    BY <1>6 DEF TouchEnds, slots
<1>7. TouchTimeout \in 0..TouchTimeout
    BY IngestAssumption
<1>8. CASE UNCHANGED vars
    BY <1>1, <1>8 DEF vars
<1> QED
    BY <1>1, <1>2, <1>3, <1>4, <1>5, <1>6, <1>7, <1>8, Times, IngestAssumption DEF Next, TouchExpires

-----------------------------------------------------------------------------
(* The theorems. *)

\* The inductive invariant: a verification's verdict is as old as the verification.
THEOREM InductiveInvariant == Spec => []IInv
BY Initially, NextKeeps, PTL DEF Spec

\* Telemetry goes upstream only with a token that was live less than CacheTTL before the
\* last verification began, whatever time the upload took (collectorRoutes.js 223).
THEOREM SlowUploadsExtendNothing == Spec => ForwardedWhileLive
<1> DEFINE Forwards(q) == req'[q].stage = "forward" /\ req[q].stage # "forward"
           Believed(q) == Live(req[q].device) \/ retired[req[q].device] < CacheTTL + VerifyTime
<1>1. ASSUME IInv, [Next]_vars
      PROVE  \A q \in Requests : Forwards(q) => Believed(q)
    <2> SUFFICES ASSUME NEW q \in Requests, Forwards(q)
                 PROVE  Believed(q)
        OBVIOUS
    <2>1. CASE Forward(q)
        <3>1. req[q].spent \in 0..VerifyTime /\ req[q].device \in Devices
            BY <1>1, <2>1 DEF Forward, At, IInv, RequestsTyped, DevicesKnown, Request
        <3>2. Live(req[q].device) \/ retired[req[q].device] < CacheTTL + req[q].spent
            BY <1>1, <2>1 DEF Forward, At, IInv, FreshInv, Verifying
        <3>3. retired[req[q].device] \in Int
            BY <1>1, <3>1, Times DEF IInv, RequestsTyped, Never, LongAgo
        <3> QED
            BY <3>1, <3>2, <3>3, Times
    <2>2. req \in [Requests -> Request]
        BY <1>1 DEF IInv, RequestsTyped
    <2>3. ASSUME NEW p \in Requests, NEW d \in Devices,
                 Arrive(p, d, "verify") \/ Arrive(p, d, "renew")
          PROVE  FALSE
        BY <2>2, <2>3 DEF Arrive
    <2>4. ASSUME NEW p \in Requests, Works(p) \/ Timeout(p) \/ Close(p) \/ Stop(p)
          PROVE  Forward(q)
        <3>1. CASE Accept(p) \/ Upload(p)
            BY <2>2, <3>1 DEF Accept, Upload, MoveTo, Verification, Request
        <3>2. CASE Forward(p)
            BY <2>2, <3>2 DEF Forward, MoveTo
        <3>3. CASE Deliver(p) \/ Renewed(p) \/ Refuse(p) \/ Stop(p)
            BY <2>2, <3>3 DEF Deliver, Renewed, Refuse, Stop, Answer, NoRequest
        <3>4. CASE Abort(p)
            BY <2>2, <3>4 DEF Abort, Lingering, Request
        <3> QED
            BY <2>4, <3>1, <3>2, <3>3, <3>4 DEF Works, Timeout, Close
    <2>5. ASSUME UNCHANGED req
          PROVE  FALSE
        BY <2>5
    <2>6. CASE Tick
        BY <2>2, <2>6 DEF Tick, Request
    <2> QED
        BY <1>1, <2>1, <2>3, <2>4, <2>5, <2>6 DEF Next, Retire, TouchEnds, TouchExpires, slots, vars
<1>2. IInv /\ [Next]_vars => [\A q \in Requests : Forwards(q) => Believed(q)]_vars
    BY <1>1
<1>3. Spec => [][\A q \in Requests : Forwards(q) => Believed(q)]_vars
    BY <1>2, InductiveInvariant, PTL DEF Spec
<1> QED
    BY <1>3 DEF ForwardedWhileLive

-----------------------------------------------------------------------------
(* The rate of a device.  Its history is in order; the window's deliveries *)
(* are the latest ones, and what was delivered before it is out of reach.  *)

RatesTyped ==
    /\ window \in [Devices -> [count : 0..RateLimit, left : 0..RateWindow]]
    /\ recent \in [Devices -> [1..2 * RateLimit -> 0..RateWindow]]

InOrder(d) == \A i, j \in 1..2 * RateLimit : i <= j => recent[d][i] <= recent[d][j]

\* The first delivery of the window is as old as the window, the one RateLimit before it
\* is beyond reach.
WindowKnown(d) ==
    IF window[d].left > 0
    THEN /\ window[d].count >= 1
         /\ recent[d][window[d].count] = RateWindow - window[d].left
         /\ recent[d][window[d].count + RateLimit] = RateWindow
    ELSE recent[d][RateLimit] = RateWindow

RateInv == RatesTyped /\ \A d \in Devices : InOrder(d) /\ WindowKnown(d)

LEMMA Limits ==
    /\ RateLimit \in Nat \ {0} /\ RateWindow \in Nat \ {0}
    /\ RateLimit \in 1..2 * RateLimit /\ 2 * RateLimit \in 1..2 * RateLimit
    /\ 1 \in 1..2 * RateLimit
    /\ \A n \in 1..RateLimit : n \in 1..2 * RateLimit /\ n + RateLimit \in 1..2 * RateLimit
BY IngestAssumption

LEMMA RateInit == Init => RateInv
<1> SUFFICES ASSUME Init PROVE RateInv
    OBVIOUS
<1>1. \A d \in Devices : window[d] = NoWindow /\ recent[d] = [i \in 1..2 * RateLimit |-> RateWindow]
    BY DEF Init
<1>2. RatesTyped
    BY Limits DEF Init, RatesTyped, NoWindow
<1>3. \A d \in Devices : \A i \in 1..2 * RateLimit : recent[d][i] = RateWindow
    BY <1>1
<1>4. \A d \in Devices : window[d].left = 0
    BY <1>1 DEF NoWindow
<1>5. \A d \in Devices : InOrder(d)
    BY <1>3, Limits DEF InOrder
<1>6. \A d \in Devices : WindowKnown(d)
    BY <1>3, <1>4, Limits DEF WindowKnown
<1> QED
    BY <1>2, <1>5, <1>6 DEF RateInv

LEMMA AdmitKeepsRate ==
    ASSUME RateInv, NEW d \in Devices, Admit(d)
    PROVE  RateInv'
<1> DEFINE N == 2 * RateLimit
           w == IF d \in Tracked THEN [window[d] EXCEPT !.count = @ + 1]
                ELSE [count |-> 1, left |-> RateWindow]
           h == [i \in 1..N |-> IF i = 1 THEN 0 ELSE recent[d][i - 1]]
<1>1. window' = [window EXCEPT ![d] = w] /\ recent' = [recent EXCEPT ![d] = h]
    <2>1. window' = [window EXCEPT ![d] = w]
        BY Zenon DEF Admit, WindowUsed
    <2>2. recent' = [recent EXCEPT ![d] = h]
        BY Zenon DEF Admit, Recorded
    <2> QED
        BY <2>1, <2>2
<1>2. /\ window[d] \in [count : 0..RateLimit, left : 0..RateWindow]
      /\ \A i \in 1..N : recent[d][i] \in 0..RateWindow
      /\ N \in Nat /\ N = RateLimit + RateLimit
    BY Limits DEF RateInv, RatesTyped
<1>3. h \in [1..N -> 0..RateWindow] /\ h[1] = 0 /\ \A i \in 2..N : h[i] = recent[d][i - 1]
    <2>1. \A i \in 2..N : i - 1 \in 1..N
        BY <1>2
    <2>2. \A i \in 1..N : h[i] \in 0..RateWindow
        BY <1>2, <2>1, Limits
    <2> QED
        BY <2>2, <1>2, Limits
<1> HIDE DEF h, N
<1>4. \A i, j \in 1..N : i <= j => h[i] <= h[j]
    <2> SUFFICES ASSUME NEW i \in 1..N, NEW j \in 1..N, i <= j PROVE h[i] <= h[j]
        OBVIOUS
    <2>1. CASE i = 1
        BY <1>2, <1>3, <2>1, Limits
    <2>2. CASE i # 1
        <3>1. i \in 2..N /\ j \in 2..N /\ i - 1 \in 1..N /\ j - 1 \in 1..N /\ i - 1 <= j - 1
            BY <1>2, <2>2
        <3>2. recent[d][i - 1] <= recent[d][j - 1]
            BY <3>1 DEF RateInv, InOrder, N
        <3> QED
            BY <1>3, <3>1, <3>2
    <2> QED
        BY <2>1, <2>2
<1>5. /\ w \in [count : 0..RateLimit, left : 0..RateWindow] /\ w.left > 0 /\ w.count >= 1
      /\ h[w.count] = RateWindow - w.left /\ h[w.count + RateLimit] = RateWindow
    <2>1. CASE d \in Tracked
        <3> DEFINE c == window[d].count
        <3>1. window[d].left > 0 /\ c < RateLimit /\ c \in Nat
            BY <1>2, <2>1 DEF Tracked, Admit, WindowAllows
        <3>2. c >= 1 /\ recent[d][c] = RateWindow - window[d].left /\ recent[d][c + RateLimit] = RateWindow
            BY <3>1 DEF RateInv, WindowKnown
        <3>3. w = [window[d] EXCEPT !.count = c + 1]
            BY <2>1
        <3>4. w.count = c + 1 /\ w.left = window[d].left /\ c + 1 \in 0..RateLimit
              /\ w \in [count : 0..RateLimit, left : 0..RateWindow]
            BY <1>2, <3>1, <3>3, Limits
        <3>5. c + 1 \in 2..N /\ (c + 1) + RateLimit \in 2..N /\ (c + 1) - 1 = c
              /\ ((c + 1) + RateLimit) - 1 = c + RateLimit
            BY <1>2, <3>1, <3>2, Limits
        <3> HIDE DEF w, c
        <3>6. h[c + 1] = recent[d][c] /\ h[(c + 1) + RateLimit] = recent[d][c + RateLimit]
            BY <1>3, <3>5
        <3> QED
            BY <3>1, <3>2, <3>4, <3>6, Limits
    <2>2. CASE d \notin Tracked
        <3>1. w = [count |-> 1, left |-> RateWindow]
            BY <2>2
        <3>2. window[d].left = 0
            BY <1>2, <2>2, Limits DEF Tracked
        <3>3. recent[d][RateLimit] = RateWindow
            BY <3>2 DEF RateInv, WindowKnown
        <3>4. 1 + RateLimit \in 2..N /\ (1 + RateLimit) - 1 = RateLimit
            BY <1>2, Limits
        <3>5. h[1 + RateLimit] = RateWindow
            BY <1>3, <3>3, <3>4
        <3> HIDE DEF w
        <3> QED
            BY <1>3, <3>1, <3>5, Limits
    <2> QED
        BY <2>1, <2>2
<1> HIDE DEF w
<1>6. /\ window'[d] = w /\ recent'[d] = h
      /\ \A e \in Devices : e # d => window'[e] = window[e] /\ recent'[e] = recent[e]
    BY <1>1 DEF RateInv, RatesTyped
<1>7. RatesTyped'
    BY <1>1, <1>3, <1>5 DEF RateInv, RatesTyped, N
<1>8. ASSUME NEW e \in Devices
      PROVE  InOrder(e)' /\ WindowKnown(e)'
    <2>1. CASE e = d
        BY <1>4, <1>5, <1>6, <2>1 DEF InOrder, WindowKnown, N
    <2>2. CASE e # d
        BY <1>6, <2>2 DEF RateInv, InOrder, WindowKnown
    <2> QED
        BY <2>1, <2>2
<1> QED
    BY <1>7, <1>8 DEF RateInv

LEMMA TickKeepsRate ==
    ASSUME RateInv, Tick
    PROVE  RateInv'
<1> DEFINE N == 2 * RateLimit
<1>1. \A d \in Devices : \A i \in 1..N : recent'[d][i] = Older(recent[d][i], RateWindow)
    BY DEF Tick
<1>2. \A d \in Devices : /\ window[d] \in [count : 0..RateLimit, left : 0..RateWindow]
                         /\ \A i \in 1..N : recent[d][i] \in 0..RateWindow
    BY Limits DEF RateInv, RatesTyped
<1>3. \A n \in 0..RateWindow : Older(n, RateWindow) \in 0..RateWindow
    BY Limits DEF Older
<1>4. ASSUME NEW d \in Devices
      PROVE  /\ window'[d] \in [count : 0..RateLimit, left : 0..RateWindow]
             /\ window[d].left <= 1 => window'[d].left = 0
             /\ window[d].left > 1 => /\ window'[d].left = window[d].left - 1
                                      /\ window'[d].count = window[d].count
    <2>1. window'[d] = IF window[d].left <= 1 THEN NoWindow ELSE [window[d] EXCEPT !.left = @ - 1]
        BY Zenon DEF Tick
    <2>2. window[d].count \in 0..RateLimit /\ window[d].left \in 0..RateWindow
        BY <1>2
    <2>3. CASE window[d].left <= 1
        BY <2>1, <2>2, <2>3, Limits DEF NoWindow
    <2>4. CASE window[d].left > 1
        <3>1. window'[d] = [window[d] EXCEPT !.left = window[d].left - 1]
            BY <2>1, <2>2, <2>4
        <3>2. window[d].left - 1 \in 0..RateWindow
            BY <2>2, <2>4, Limits
        <3> QED
            BY <1>2, <2>2, <2>4, <3>1, <3>2
    <2> QED
        BY <2>2, <2>3, <2>4
<1>5. RatesTyped'
    <2>1. window' = [d \in Devices |-> window'[d]]
        BY DEF Tick
    <2>2. recent' = [d \in Devices |-> [i \in 1..N |-> Older(recent[d][i], RateWindow)]]
        BY DEF Tick
    <2>3. recent' \in [Devices -> [1..N -> 0..RateWindow]]
        BY <1>2, <1>3, <2>2
    <2> QED
        BY <1>4, <2>1, <2>3 DEF RatesTyped
<1>6. ASSUME NEW d \in Devices
      PROVE  InOrder(d)' /\ WindowKnown(d)'
    <2> HIDE DEF N
    <2>1. InOrder(d)'
        <3> SUFFICES ASSUME NEW i \in 1..N, NEW j \in 1..N, i <= j
                     PROVE  recent'[d][i] <= recent'[d][j]
            BY DEF InOrder, N
        <3>1. recent[d][i] <= recent[d][j] /\ recent[d][i] \in 0..RateWindow /\ recent[d][j] \in 0..RateWindow
            BY <1>2 DEF RateInv, InOrder, N
        <3>2. recent'[d][i] = Older(recent[d][i], RateWindow)
              /\ recent'[d][j] = Older(recent[d][j], RateWindow)
            BY <1>1
        <3> QED
            BY <3>1, <3>2, Limits DEF Older
    <2> DEFINE c == window[d].count
               l == window[d].left
    <2>2. c \in 0..RateLimit /\ l \in 0..RateWindow
        BY <1>2
    <2>3. CASE l > 1
        <3>1. window'[d].count = c /\ window'[d].left = l - 1
            BY <1>4, <2>3
        <3>2. /\ c >= 1 /\ recent[d][c] = RateWindow - l /\ recent[d][c + RateLimit] = RateWindow
            BY <2>3, <2>2 DEF RateInv, WindowKnown
        <3>3. c \in 1..N /\ c + RateLimit \in 1..N
            BY <2>2, <3>2, Limits DEF N
        <3>4. /\ recent'[d][c] = Older(recent[d][c], RateWindow)
              /\ recent'[d][c + RateLimit] = Older(recent[d][c + RateLimit], RateWindow)
            BY <1>1, <3>3
        <3> HIDE DEF c, l
        <3>5. /\ recent'[d][c] = RateWindow - (l - 1) /\ recent'[d][c + RateLimit] = RateWindow
              /\ l - 1 > 0
            BY <2>2, <2>3, <3>2, <3>4, Limits DEF Older
        <3> QED
            BY <2>1, <3>1, <3>2, <3>5 DEF WindowKnown
    <2>4. CASE l = 1
        <3>1. window'[d].left = 0
            BY <1>4, <2>4
        <3>2. c >= 1 /\ recent[d][c] = RateWindow - 1
            BY <2>4, Limits DEF RateInv, WindowKnown
        <3>3. c \in 1..N /\ RateLimit \in 1..N /\ c <= RateLimit
            BY <2>2, <3>2, Limits DEF N
        <3>4. recent[d][c] <= recent[d][RateLimit] /\ recent[d][RateLimit] \in 0..RateWindow
            BY <1>2, <3>3 DEF RateInv, InOrder, N
        <3>5. recent'[d][RateLimit] = Older(recent[d][RateLimit], RateWindow)
            BY <1>1, <3>3
        <3>6. recent'[d][RateLimit] = RateWindow
            BY <3>2, <3>4, <3>5, Limits DEF Older
        <3> QED
            BY <2>1, <3>1, <3>6 DEF WindowKnown
    <2>5. CASE l = 0
        <3>1. window'[d].left = 0
            BY <1>4, <2>5
        <3>2. recent[d][RateLimit] = RateWindow
            BY <2>5 DEF RateInv, WindowKnown
        <3>3. recent'[d][RateLimit] = Older(recent[d][RateLimit], RateWindow)
            BY <1>1, Limits DEF N
        <3>4. recent'[d][RateLimit] = RateWindow
            BY <3>2, <3>3, Limits DEF Older
        <3> QED
            BY <2>1, <3>1, <3>4 DEF WindowKnown
    <2> QED
        BY <2>1, <2>2, <2>3, <2>4, <2>5
<1> QED
    BY <1>5, <1>6 DEF RateInv

LEMMA RateKept == IInv /\ RateInv /\ [Next]_vars => RateInv'
<1> SUFFICES ASSUME IInv, RateInv, [Next]_vars PROVE RateInv'
    OBVIOUS
<1>1. CASE UNCHANGED rates
    BY <1>1 DEF rates, RateInv, RatesTyped, InOrder, WindowKnown
<1>2. ASSUME NEW q \in Requests, Works(q)
      PROVE  UNCHANGED rates \/ \E d \in Devices : Admit(d)
    <2>1. CASE Accept(q)
        BY <2>1 DEF Accept, At, IInv, DevicesKnown
    <2>2. CASE ~Accept(q)
        BY <1>2, <2>2 DEF Works, Upload, Forward, Deliver, Renewed, Refuse
    <2> QED
        BY <2>1, <2>2
<1>3. CASE Tick
    BY <1>3, TickKeepsRate
<1>4. ASSUME NEW q \in Requests, (\E d \in Devices : Arrive(q, d, "verify") \/ Arrive(q, d, "renew"))
                                 \/ Timeout(q) \/ Close(q) \/ Stop(q)
      PROVE  UNCHANGED rates
    BY <1>4 DEF Arrive, Timeout, Close, Abort, Stop
<1>5. ASSUME (\E a \in 0..TouchTimeout - 1 : TouchEnds(a)) \/ TouchExpires \/ \E d \in Devices : Retire(d)
      PROVE  UNCHANGED rates
    BY <1>5 DEF TouchEnds, TouchExpires, Retire
<1>6. ASSUME UNCHANGED vars
      PROVE  UNCHANGED rates
    BY <1>6 DEF vars, rates
<1> QED
    BY <1>1, <1>2, <1>3, <1>4, <1>5, <1>6, AdmitKeepsRate DEF Next

\* In any RateWindow ticks a device delivers less than twice its limit, however full the
\* table of windows is (collectorRoutes.js 52-65).
THEOREM RateLimited == Spec => []RateHolds
<1>1. RateInv => RateHolds
    <2> SUFFICES ASSUME RateInv, NEW d \in Devices PROVE recent[d][2 * RateLimit] = RateWindow
        BY DEF RateHolds
    <2> DEFINE c == window[d].count
    <2>1. /\ c \in 0..RateLimit /\ window[d].left \in 0..RateWindow
          /\ \A i \in 1..2 * RateLimit : recent[d][i] \in 0..RateWindow
        BY DEF RateInv, RatesTyped
    <2>2. CASE window[d].left > 0
        <3>1. c >= 1 /\ recent[d][c + RateLimit] = RateWindow
            BY <2>2 DEF RateInv, WindowKnown
        <3>2. c + RateLimit \in 1..2 * RateLimit /\ c + RateLimit <= 2 * RateLimit
            BY <2>1, <3>1, Limits
        <3>3. recent[d][c + RateLimit] <= recent[d][2 * RateLimit]
            BY <3>2, Limits DEF RateInv, InOrder
        <3> QED
            BY <2>1, <3>1, <3>3, Limits
    <2>3. CASE ~(window[d].left > 0)
        <3>1. recent[d][RateLimit] = RateWindow
            BY <2>3 DEF RateInv, WindowKnown
        <3>2. recent[d][RateLimit] <= recent[d][2 * RateLimit]
            BY Limits DEF RateInv, InOrder
        <3> QED
            BY <2>1, <3>1, <3>2, Limits
    <2> QED
        BY <2>2, <2>3
<1> QED
    BY <1>1, RateInit, RateKept, InductiveInvariant, PTL DEF Spec

-----------------------------------------------------------------------------
(* Slots: the count of requests worked on is the number of unanswered      *)
(* ones, each of which gives its slot back exactly once.                   *)

Open == {q \in Requests : req[q].open}

SlotInv ==
    /\ IsFiniteSet(Open) /\ active = Cardinality(Open) /\ active <= MaxActive
    /\ \A q \in Open : req[q].stage # "none"

LEMMA SlotInit == Init => SlotInv
<1> SUFFICES ASSUME Init PROVE SlotInv
    OBVIOUS
<1>1. Open = {}
    BY DEF Init, NoRequest, Open
<1> QED
    BY <1>1, FS_EmptySet, IngestAssumption DEF Init, SlotInv

\* An unanswered request stays so, on whatever stage.
LEMMA StaysOpen ==
    ASSUME IInv, SlotInv, NEW q \in Requests, NEW r, req' = [req EXCEPT ![q] = r], UNCHANGED active,
           r.open = req[q].open, r.open => r.stage # "none"
    PROVE  SlotInv'
<1>1. \A p \in Requests : req'[p] = IF p = q THEN r ELSE req[p]
    BY DEF IInv, RequestsTyped
<1>2. Open' = Open /\ \A p \in Open : req'[p].stage # "none"
    BY <1>1 DEF Open, SlotInv
<1> QED
    BY <1>2 DEF SlotInv

\* A request that was unanswered is answered, and its slot released.
LEMMA GivesSlotBack ==
    ASSUME IInv, SlotInv, NEW q \in Requests, NEW r, req' = [req EXCEPT ![q] = r], Release,
           req[q].open, ~r.open
    PROVE  SlotInv'
<1>1. \A p \in Requests : req'[p] = IF p = q THEN r ELSE req[p]
    BY DEF IInv, RequestsTyped
<1>2. Open' = Open \ {q} /\ q \in Open /\ \A p \in Open' : req'[p].stage # "none"
    BY <1>1 DEF Open, SlotInv
<1>3. IsFiniteSet(Open \ {q}) /\ Cardinality(Open \ {q}) = Cardinality(Open) - 1
    BY <1>2, FS_RemoveElement DEF SlotInv
<1>4. active' = active - 1 /\ active \in Nat /\ MaxActive \in Nat
    BY FS_CardinalityType, IngestAssumption DEF Release, SlotInv
<1> QED
    BY <1>2, <1>3, <1>4 DEF SlotInv

LEMMA SlotKept == IInv /\ SlotInv /\ [Next]_vars => SlotInv'
<1> SUFFICES ASSUME IInv, SlotInv, [Next]_vars PROVE SlotInv'
    OBVIOUS
<1>1. CASE UNCHANGED slots
    BY <1>1 DEF slots, SlotInv, Open
<1>2. ASSUME NEW q \in Requests, NEW d \in Devices, NEW stage \in {"verify", "renew"}, Arrive(q, d, stage)
      PROVE  SlotInv'
    <2> DEFINE r == [stage |-> stage, open |-> TRUE, device |-> d,
                     age |-> 0, spent |-> 0, fresh |-> Fresh(d)]
    <2>1. req' = [req EXCEPT ![q] = r] /\ active' = active + 1 /\ active < MaxActive
          /\ req[q].stage = "none"
        BY <1>2 DEF Arrive, HasSlot
    <2>2. r.open /\ r.stage # "none"
        OBVIOUS
    <2> HIDE DEF r
    <2>3. \A p \in Requests : req'[p] = IF p = q THEN r ELSE req[p]
        BY <2>1 DEF IInv, RequestsTyped
    <2>4. Open' = Open \cup {q} /\ q \notin Open /\ \A p \in Open' : req'[p].stage # "none"
        BY <2>1, <2>2, <2>3 DEF Open, SlotInv
    <2>5. IsFiniteSet(Open') /\ Cardinality(Open') = Cardinality(Open) + 1
        BY <2>4, FS_AddElement DEF SlotInv
    <2>6. active \in Nat /\ MaxActive \in Nat
        BY FS_CardinalityType, IngestAssumption DEF SlotInv
    <2> QED
        BY <2>1, <2>4, <2>5, <2>6 DEF SlotInv
<1>3. ASSUME NEW q \in Requests, Works(q)
      PROVE  SlotInv'
    <2>1. req[q] \in Request
        BY DEF IInv, RequestsTyped
    <2>2. CASE \E stage \in Stage : MoveTo(q, stage) /\ UNCHANGED active
        <3>1. PICK stage \in Stage : MoveTo(q, stage) /\ UNCHANGED active
            BY <2>2
        <3> DEFINE r == [req[q] EXCEPT !.stage = stage, !.spent = 0, !.fresh = FALSE]
        <3>2. req' = [req EXCEPT ![q] = r]
            BY <3>1 DEF MoveTo, IInv, RequestsTyped
        <3>3. r.open = req[q].open /\ r.stage # "none"
            BY <2>1, <3>1 DEF Request, Stage
        <3> HIDE DEF r
        <3> QED
            BY <3>1, <3>2, <3>3, StaysOpen
    <2>3. CASE Upload(q)
        <3> DEFINE r == Verification(q, "recheck")
        <3>1. req' = [req EXCEPT ![q] = r] /\ UNCHANGED active
            BY <2>3 DEF Upload
        <3>2. r.open = req[q].open /\ r.stage # "none"
            BY <2>1 DEF Verification, Request
        <3> HIDE DEF r
        <3> QED
            BY <3>1, <3>2, StaysOpen
    <2>4. CASE req[q].open /\ Answer(q)
        BY <2>4, NoRequestFits, GivesSlotBack DEF Answer
    <2> QED
        BY <1>3, <2>2, <2>3, <2>4 DEF Works, Accept, Forward, Deliver, Renewed, Refuse, At, Stage
<1>4. ASSUME NEW q \in Requests, Timeout(q) \/ Close(q)
      PROVE  SlotInv'
    <2> DEFINE r == Lingering(req[q])
    <2>1. req' = [req EXCEPT ![q] = r] /\ req[q].open /\ Release
        BY <1>4 DEF Timeout, Close, Abort
    <2>2. ~r.open
        BY DEF Lingering, Request, IInv, RequestsTyped
    <2> HIDE DEF r
    <2> QED
        BY <2>1, <2>2, GivesSlotBack
<1>5. ASSUME NEW q \in Requests, Stop(q)
      PROVE  SlotInv'
    <2>1. req' = [req EXCEPT ![q] = NoRequest] /\ UNCHANGED active /\ req[q].open = FALSE
        BY <1>5 DEF Stop, IInv, RequestsTyped, Request
    <2>2. NoRequest.open = FALSE
        BY DEF NoRequest
    <2> QED
        BY <2>1, <2>2, StaysOpen
<1>6. CASE Tick
    <2>1. \A q \in Requests : /\ req'[q].open = req[q].open /\ req'[q].stage = req[q].stage
        <3> TAKE q \in Requests
        <3>1. req[q] \in Request
            BY DEF IInv, RequestsTyped
        <3>2. req'[q] = [req[q] EXCEPT !.age = IF req[q].open THEN @ + 1 ELSE @,
                                       !.spent = IF req[q].stage \in Verifying THEN @ + 1 ELSE @]
            BY <1>6 DEF Tick
        <3> QED
            BY <3>1, <3>2 DEF Request
    <2>2. UNCHANGED active
        BY <1>6 DEF Tick
    <2>3. Open' = Open
        BY <2>1 DEF Open
    <2> QED
        BY <2>1, <2>2, <2>3 DEF SlotInv, Open
<1>7. ASSUME (\E a \in 0..TouchTimeout - 1 : TouchEnds(a)) \/ TouchExpires
             \/ (\E d \in Devices : Retire(d)) \/ UNCHANGED vars
      PROVE  UNCHANGED slots
    BY <1>7 DEF TouchEnds, TouchExpires, Retire, vars, slots
<1> QED
    BY <1>1, <1>2, <1>3, <1>4, <1>5, <1>6, <1>7 DEF Next

\* The gateway's count is the number of unanswered requests: no slot is lost or released
\* twice, whichever of work, deadline and client comes first (collectorRoutes.js 189-267).
THEOREM SlotsCounted == Spec => [](active = Cardinality({q \in Requests : req[q].open}))
<1>1. SlotInv => active = Cardinality({q \in Requests : req[q].open})
    BY DEF SlotInv, Open
<1> QED
    BY <1>1, SlotInit, SlotKept, InductiveInvariant, PTL DEF Spec

-----------------------------------------------------------------------------
(* Last-seen writes: those under way are counted.  below[a] of them are    *)
(* younger than a.                                                         *)

Counts(below) ==
    /\ below[0] = 0 /\ below[TouchTimeout + 1] = pendingTouches
    /\ \A a \in 0..TouchTimeout : below[a + 1] = below[a] + touching[a]
    /\ \A a, b \in 0..TouchTimeout + 1 : a <= b => below[a] <= below[b]

TouchInv ==
    /\ touching \in [0..TouchTimeout -> Nat] /\ pendingTouches \in 0..MaxTouches
    /\ \E below \in [0..TouchTimeout + 1 -> Nat] : Counts(below)

LEMMA TouchTimes == TouchTimeout \in Nat \ {0} /\ MaxTouches \in Nat \ {0}
BY IngestAssumption

LEMMA TouchInit == Init => TouchInv
<1> SUFFICES ASSUME Init PROVE TouchInv
    OBVIOUS
<1> DEFINE below == [a \in 0..TouchTimeout + 1 |-> 0]
<1>1. below \in [0..TouchTimeout + 1 -> Nat] /\ Counts(below)
    BY TouchTimes DEF Init, Counts
<1>2. touching \in [0..TouchTimeout -> Nat] /\ pendingTouches \in 0..MaxTouches
    BY TouchTimes DEF Init
<1> HIDE DEF below
<1> QED
    BY <1>1, <1>2 DEF TouchInv

LEMMA TouchAdds ==
    ASSUME TouchInv, Touch
    PROVE  TouchInv'
<1>1. CASE UNCHANGED touches
    BY <1>1 DEF touches, TouchInv, Counts
<1>2. CASE pendingTouches < MaxTouches
    <2>1. pendingTouches' = pendingTouches + 1 /\ touching' = [touching EXCEPT ![0] = touching[0] + 1]
        BY <1>2 DEF Touch
    <2>2. PICK below \in [0..TouchTimeout + 1 -> Nat] : Counts(below)
        BY DEF TouchInv
    <2> DEFINE more == [a \in 0..TouchTimeout + 1 |-> IF a = 0 THEN 0 ELSE below[a] + 1]
    <2>3. more \in [0..TouchTimeout + 1 -> Nat]
        BY TouchTimes
    <2>4. touching' \in [0..TouchTimeout -> Nat] /\ pendingTouches' \in 0..MaxTouches
        <3>1. touching \in [0..TouchTimeout -> Nat] /\ pendingTouches \in 0..MaxTouches
            BY DEF TouchInv
        <3>2. touching[0] + 1 \in Nat
            BY <3>1, TouchTimes
        <3>3. touching' \in [0..TouchTimeout -> Nat]
            BY <3>1, <3>2, <2>1
        <3> QED
            BY <3>1, <3>3, <1>2, <2>1, TouchTimes
    <2>5. Counts(more)'
        <3>1. more[0] = 0 /\ more[TouchTimeout + 1] = below[TouchTimeout + 1] + 1
            BY TouchTimes
        <3>2. ASSUME NEW a \in 0..TouchTimeout
              PROVE  more[a + 1] = more[a] + touching'[a]
            <4>1. more[a + 1] = below[a + 1] + 1 /\ below[a + 1] = below[a] + touching[a]
                BY <2>2, TouchTimes DEF Counts
            <4>2. below[a] \in Nat /\ touching[a] \in Nat
                BY TouchTimes DEF TouchInv
            <4>3. CASE a = 0
                <5>1. more[a] = 0 /\ below[a] = 0 /\ touching'[a] = touching[a] + 1
                    BY <2>1, <2>2, <4>3, TouchTimes DEF Counts, TouchInv
                <5> QED
                    BY <4>1, <4>2, <5>1
            <4>4. CASE a # 0
                <5>1. more[a] = below[a] + 1 /\ touching'[a] = touching[a]
                    BY <2>1, <4>4, TouchTimes DEF TouchInv
                <5> QED
                    BY <4>1, <4>2, <5>1
            <4> QED
                BY <4>3, <4>4
        <3>3. \A a, b \in 0..TouchTimeout + 1 : a <= b => more[a] <= more[b]
            BY <2>2, TouchTimes DEF Counts
        <3> HIDE DEF more
        <3> QED
            BY <2>1, <2>2, <3>1, <3>2, <3>3 DEF Counts
    <2> HIDE DEF more
    <2> QED
        BY <2>3, <2>4, <2>5 DEF TouchInv
<1> QED
    BY <1>1, <1>2 DEF Touch

LEMMA TouchRemoves ==
    ASSUME TouchInv, NEW n \in 0..TouchTimeout, TouchEnds(n)
    PROVE  TouchInv'
<1>1. /\ touching[n] > 0 /\ touching' = [touching EXCEPT ![n] = touching[n] - 1]
      /\ pendingTouches' = pendingTouches - 1
    BY DEF TouchEnds
<1>2. PICK below \in [0..TouchTimeout + 1 -> Nat] : Counts(below)
    BY DEF TouchInv
<1> DEFINE less == [a \in 0..TouchTimeout + 1 |-> IF a <= n THEN below[a] ELSE below[a] - 1]
<1>3. \A a \in 0..TouchTimeout + 1 : a > n => below[a] >= below[n] + 1
    <2> SUFFICES ASSUME NEW a \in 0..TouchTimeout + 1, a > n PROVE below[a] >= below[n] + 1
        OBVIOUS
    <2>1. n + 1 \in 0..TouchTimeout + 1 /\ n \in 0..TouchTimeout + 1 /\ n + 1 <= a
        BY TouchTimes
    <2>2. below[n + 1] = below[n] + touching[n] /\ below[n + 1] <= below[a]
        BY <1>2, <2>1 DEF Counts
    <2>3. below[n] \in Nat /\ below[n + 1] \in Nat /\ below[a] \in Nat /\ touching[n] \in Nat
        BY <2>1 DEF TouchInv
    <2> QED
        BY <1>1, <2>2, <2>3
<1>4. less \in [0..TouchTimeout + 1 -> Nat]
    <2>1. \A a \in 0..TouchTimeout + 1 : less[a] \in Nat
        BY <1>3, TouchTimes
    <2> QED
        BY <2>1
<1>5. touching' \in [0..TouchTimeout -> Nat] /\ pendingTouches' \in 0..MaxTouches
    <2>1. touching[n] \in Nat /\ touching[n] - 1 \in Nat
        BY <1>1 DEF TouchInv
    <2>2. below[TouchTimeout + 1] >= 1
        BY <1>3, TouchTimes
    <2>3. pendingTouches = below[TouchTimeout + 1]
        BY <1>2 DEF Counts
    <2>4. touching' \in [0..TouchTimeout -> Nat]
        BY <1>1, <2>1 DEF TouchInv
    <2>5. pendingTouches' \in 0..MaxTouches
        <3>1. pendingTouches \in 0..MaxTouches /\ MaxTouches \in Nat
            BY TouchTimes DEF TouchInv
        <3>2. pendingTouches >= 1
            BY <2>2, <2>3
        <3> HIDE DEF less
        <3> QED
            BY <1>1, <3>1, <3>2
    <2> QED
        BY <2>4, <2>5
<1>6. Counts(less)'
    <2>1. less[0] = 0 /\ less[TouchTimeout + 1] = below[TouchTimeout + 1] - 1
        BY <1>2, TouchTimes DEF Counts
    <2>2. ASSUME NEW a \in 0..TouchTimeout
          PROVE  less[a + 1] = less[a] + touching'[a]
        <3>1. below[a + 1] = below[a] + touching[a]
            BY <1>2 DEF Counts
        <3>2. below[a] \in Nat /\ below[a + 1] \in Nat /\ touching[a] \in Nat
              /\ a \in 0..TouchTimeout + 1 /\ a + 1 \in 0..TouchTimeout + 1
            BY TouchTimes DEF TouchInv
        <3>3. touching'[a] = IF a = n THEN touching[n] - 1 ELSE touching[a]
            BY <1>1 DEF TouchInv
        <3>4. CASE a < n
            BY <3>1, <3>2, <3>3, <3>4
        <3>5. CASE a = n
            BY <3>1, <3>2, <3>3, <3>5
        <3>6. CASE a > n
            BY <3>1, <3>2, <3>3, <3>6
        <3> QED
            BY <3>4, <3>5, <3>6
    <2>3. ASSUME NEW a \in 0..TouchTimeout + 1, NEW b \in 0..TouchTimeout + 1, a <= b
          PROVE  less[a] <= less[b]
        <3>1. below[a] <= below[b] /\ below[a] \in Nat /\ below[b] \in Nat /\ below[n] \in Nat
            BY <1>2, <2>3, TouchTimes DEF Counts
        <3>2. CASE b <= n
            BY <2>3, <3>1, <3>2
        <3>3. CASE a <= n /\ b > n
            <4>1. below[a] <= below[n] /\ below[b] >= below[n] + 1
                BY <1>2, <1>3, <3>3, TouchTimes DEF Counts
            <4> QED
                BY <3>1, <3>3, <4>1
        <3>4. CASE a > n /\ b > n
            BY <3>1, <3>4
        <3> QED
            BY <2>3, <3>2, <3>3, <3>4
    <2> HIDE DEF less
    <2> QED
        BY <1>1, <1>2, <2>1, <2>2, <2>3 DEF Counts
<1> HIDE DEF less
<1> QED
    BY <1>4, <1>5, <1>6 DEF TouchInv

LEMMA TouchAges ==
    ASSUME TouchInv, Tick
    PROVE  TouchInv'
<1>1. /\ touching[TouchTimeout] = 0 /\ UNCHANGED pendingTouches
      /\ touching' = [a \in 0..TouchTimeout |-> IF a = 0 THEN 0 ELSE touching[a - 1]]
    BY DEF Tick
<1>2. PICK below \in [0..TouchTimeout + 1 -> Nat] : Counts(below)
    BY DEF TouchInv
<1> DEFINE older == [a \in 0..TouchTimeout + 1 |-> IF a = 0 THEN 0 ELSE below[a - 1]]
<1>3. \A a \in 1..TouchTimeout + 1 : a - 1 \in 0..TouchTimeout + 1 /\ a - 1 \in 0..TouchTimeout
    BY TouchTimes
<1>4. older \in [0..TouchTimeout + 1 -> Nat]
    <2>1. \A a \in 0..TouchTimeout + 1 : older[a] \in Nat
        BY <1>3, TouchTimes
    <2> QED
        BY <2>1
<1>5. touching' \in [0..TouchTimeout -> Nat] /\ pendingTouches' \in 0..MaxTouches
    <2>1. \A a \in 0..TouchTimeout : touching[a] \in Nat
        BY DEF TouchInv
    <2>2. \A a \in 0..TouchTimeout : (IF a = 0 THEN 0 ELSE touching[a - 1]) \in Nat
        BY <1>3, <2>1, TouchTimes
    <2>3. touching' \in [0..TouchTimeout -> Nat]
        BY ONLY <1>1, <2>2
    <2> QED
        BY <1>1, <2>3 DEF TouchInv
<1>6. Counts(older)'
    <2>1. older[0] = 0 /\ older[TouchTimeout + 1] = below[TouchTimeout]
        BY TouchTimes
    <2>2. below[TouchTimeout + 1] = below[TouchTimeout] + touching[TouchTimeout]
          /\ below[TouchTimeout + 1] = pendingTouches /\ below[TouchTimeout] \in Nat
        BY <1>2, TouchTimes DEF Counts
    <2>3. ASSUME NEW a \in 0..TouchTimeout
          PROVE  older[a + 1] = older[a] + touching'[a]
        <3>1. older[a + 1] = below[a]
            BY TouchTimes
        <3>2. CASE a = 0
            BY <1>1, <1>2, <3>1, <3>2, TouchTimes DEF Counts
        <3>3. CASE a # 0
            <4>1. a - 1 \in 0..TouchTimeout /\ (a - 1) + 1 = a /\ a \in 0..TouchTimeout + 1
                BY <3>3, TouchTimes
            <4>2. below[a] = below[a - 1] + touching[a - 1]
                BY <1>2, <4>1 DEF Counts
            <4> QED
                BY <1>1, <3>1, <3>3, <4>1, <4>2
        <3> QED
            BY <3>2, <3>3
    <2>4. ASSUME NEW a \in 0..TouchTimeout + 1, NEW b \in 0..TouchTimeout + 1, a <= b
          PROVE  older[a] <= older[b]
        <3>1. CASE a = 0
            BY <1>4, <3>1, TouchTimes
        <3>2. CASE a # 0
            <4>1. a \in 1..TouchTimeout + 1 /\ b \in 1..TouchTimeout + 1 /\ a - 1 <= b - 1
                BY <2>4, <3>2, TouchTimes
            <4> QED
                BY <1>2, <1>3, <4>1, TouchTimes DEF Counts
        <3> QED
            BY <3>1, <3>2
    <2> HIDE DEF older
    <2> QED
        BY <1>1, <2>1, <2>2, <2>3, <2>4 DEF Counts
<1> HIDE DEF older
<1> QED
    BY <1>4, <1>5, <1>6 DEF TouchInv

LEMMA TouchKept == TouchInv /\ [Next]_vars => TouchInv'
<1> SUFFICES ASSUME TouchInv, [Next]_vars PROVE TouchInv'
    OBVIOUS
<1>1. CASE UNCHANGED touches
    BY <1>1 DEF touches, TouchInv, Counts
<1>2. ASSUME NEW q \in Requests, Works(q)
      PROVE  UNCHANGED touches \/ Touch
    BY <1>2 DEF Works, Accept, Upload, Forward, Deliver, Renewed, Refuse
<1>3. ASSUME NEW q \in Requests, (\E d \in Devices : Arrive(q, d, "verify") \/ Arrive(q, d, "renew"))
                                 \/ Timeout(q) \/ Close(q) \/ Stop(q)
      PROVE  UNCHANGED touches
    BY <1>3 DEF Arrive, Timeout, Close, Abort, Stop
<1>4. ASSUME (\E d \in Devices : Retire(d)) \/ UNCHANGED vars
      PROVE  UNCHANGED touches
    BY <1>4 DEF Retire, vars, touches
<1>5. CASE (\E a \in 0..TouchTimeout - 1 : TouchEnds(a)) \/ TouchExpires
    BY <1>5, TouchRemoves, TouchTimes DEF TouchExpires
<1>6. CASE Tick
    BY <1>6, TouchAges
<1> QED
    BY <1>1, <1>2, <1>3, <1>4, <1>5, <1>6, TouchAdds DEF Next

\* Requests, slots, last-seen writes and windows keep their types and limits.
THEOREM TypeCorrect == Spec => []TypeOK
<1>1. IInv /\ RateInv /\ SlotInv /\ TouchInv => TypeOK
    <2> SUFFICES ASSUME IInv, RateInv, SlotInv, TouchInv PROVE TypeOK
        OBVIOUS
    <2>1. active \in 0..MaxActive
        BY FS_CardinalityType, IngestAssumption DEF SlotInv
    <2>2. touching \in [0..TouchTimeout -> 0..MaxTouches] /\ pendingTouches \in 0..MaxTouches
        <3>1. PICK below \in [0..TouchTimeout + 1 -> Nat] : Counts(below)
            BY DEF TouchInv
        <3>2. ASSUME NEW a \in 0..TouchTimeout
              PROVE  touching[a] \in 0..MaxTouches
            <4>1. a + 1 \in 0..TouchTimeout + 1 /\ a + 1 <= TouchTimeout + 1 /\ a \in 0..TouchTimeout + 1
                BY TouchTimes
            <4>2. below[a + 1] = below[a] + touching[a] /\ below[a + 1] <= pendingTouches
                BY <3>1, <4>1, TouchTimes DEF Counts
            <4>3. touching[a] \in Nat /\ below[a] \in Nat /\ pendingTouches \in 0..MaxTouches
                BY <4>1 DEF TouchInv
            <4> HIDE DEF TouchInv
            <4> QED
                BY <4>2, <4>3, TouchTimes
        <3> QED
            BY <3>2 DEF TouchInv
    <2> QED
        BY <2>1, <2>2 DEF IInv, RequestsTyped, RateInv, RatesTyped, TypeOK
<1> QED
    BY <1>1, InductiveInvariant, RateInit, RateKept, SlotInit, SlotKept, TouchInit, TouchKept, PTL
       DEF Spec
=============================================================================
