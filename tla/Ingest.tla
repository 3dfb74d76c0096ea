------------------------------- MODULE Ingest -------------------------------
(***************************************************************************)
(* The ingestion gateway of one replica (collectorRoutes.js): how many     *)
(* requests it works on, the two verifications around an upload, the rate  *)
(* windows of the devices, and the last-seen writes behind the answers.    *)
(*                                                                         *)
(* The handler races its work against an abort (timeout, client gone).     *)
(* After an abort the answer is sent and the slot released at once; the    *)
(* work keeps what it has and lingers until it looks at its signal, when   *)
(* the call it awaits is over.                                             *)
(*                                                                         *)
(* `verify` is what DeviceTokens promises: it refuses a bearer whose       *)
(* secret was retired CacheTTL before the verification began, and its      *)
(* store calls are over after VerifyTime.  Times are relative, and a tick  *)
(* waits for the timers that are due.                                      *)
(***************************************************************************)
EXTENDS Integers, FiniteSets

CONSTANTS
    Requests,       \* requests, answered or not, that still have work under way
    Devices,        \* devices; each uses one bearer token
    None,
    MaxActive,      \* requests worked on at a time (8)
    RequestTimeout, \* a request's deadline (15 s)
    VerifyTime,     \* a verification's store calls, each limited to 3 s
    CacheTTL,       \* a verified token is believed (10 s)
    RateWindow,     \* length of a device's window (60 s)
    RateLimit,      \* deliveries in it (120)
    MaxTracked,     \* devices with a window (2048)
    MaxTouches,     \* last-seen writes at a time (8)
    TouchTimeout    \* a last-seen write's deadline (3 s)

ASSUME IngestAssumption ==
    /\ {RequestTimeout, VerifyTime} \subseteq Nat
    /\ {MaxActive, CacheTTL, RateWindow, RateLimit, MaxTracked, MaxTouches, TouchTimeout}
          \subseteq Nat \ {0}
    /\ None \notin Devices

VARIABLES
    req,            \* each request: how far it is, and whether it is unanswered
    active,         \* requests worked on
    touching,       \* touching[a]: last-seen writes that are a ticks old
    pendingTouches, \* last-seen writes under way
    window,         \* each device's window: deliveries, and ticks until it ends
    retired,        \* ticks since a device's token was revoked or replaced
    recent          \* history: recent[d][i] ticks since d's i-th latest delivery was admitted

vars == <<req, active, touching, pendingTouches, window, retired, recent>>
slots == <<req, active>>
touches == <<touching, pendingTouches>>
rates == <<window, recent>>

\* A delivery is verified, uploaded, verified again and forwarded; a renewal is
\* one call of the service.  fresh: the token was not yet retired for CacheTTL
\* when the verification began, spent ticks ago.
Stage == {"verify", "upload", "recheck", "forward", "renew"}
Verifying == {"verify", "recheck"}

Request == [stage : Stage \cup {"none"}, open : BOOLEAN, device : Devices \cup {None},
            age : 0..RequestTimeout, spent : 0..VerifyTime, fresh : BOOLEAN]

NoRequest ==
    [stage |-> "none", open |-> FALSE, device |-> None, age |-> 0, spent |-> 0, fresh |-> FALSE]

\* A request answered before its work is over: its timer is cleared, no more.
Lingering(r) == [r EXCEPT !.open = FALSE, !.age = 0]

Never == -1
LongAgo == CacheTTL + VerifyTime        \* no property tells later ticks apart

Live(d) == retired[d] = Never
Fresh(d) == Live(d) \/ retired[d] < CacheTTL

NoWindow == [count |-> 0, left |-> 0]

TypeOK ==
    /\ req \in [Requests -> Request]
    /\ active \in 0..MaxActive
    /\ touching \in [0..TouchTimeout -> 0..MaxTouches]
    /\ pendingTouches \in 0..MaxTouches
    /\ window \in [Devices -> [count : 0..RateLimit, left : 0..RateWindow]]
    /\ retired \in [Devices -> {Never} \cup 0..LongAgo]
    /\ recent \in [Devices -> [1..2 * RateLimit -> 0..RateWindow]]

Init ==
    /\ req = [q \in Requests |-> NoRequest]
    /\ active = 0
    /\ touching = [a \in 0..TouchTimeout |-> 0]
    /\ pendingTouches = 0
    /\ window = [d \in Devices |-> NoWindow]
    /\ retired = [d \in Devices |-> Never]
    /\ recent = [d \in Devices |-> [i \in 1..2 * RateLimit |-> RateWindow]]

-----------------------------------------------------------------------------
(* Slots *)

\* The work of an unanswered request goes on only past signal.throwIfAborted().
At(q, stage) == req[q].stage = stage /\ req[q].open

\* The work goes on to what it verifies no token for.
MoveTo(q, stage) ==
    req' = [req EXCEPT ![q] = [@ EXCEPT !.stage = stage, !.spent = 0, !.fresh = FALSE]]

Verification(q, stage) ==
    [req[q] EXCEPT !.stage = stage, !.spent = 0, !.fresh = Fresh(req[q].device)]

\* The answer is sent while the handler holds the slot; its finally releases it.
Release == active' = active - 1

Answer(q) ==
    /\ req' = [req EXCEPT ![q] = NoRequest]
    /\ Release

\* Faulty: one request too many.
HasSlotOrLast == active <= MaxActive

\* A request past the syntactic checks, for telemetry or for a renewal.
HasSlot == active < MaxActive

Arrive(q, d, stage) ==
    /\ req[q].stage = "none"
    /\ HasSlot
    /\ active' = active + 1
    /\ req' = [req EXCEPT ![q] = [stage |-> stage, open |-> TRUE, device |-> d,
                                  age |-> 0, spent |-> 0, fresh |-> Fresh(d)]]
    /\ UNCHANGED <<touches, rates, retired>>

\* The deadline or a closed connection wins the race: 504 or 400, whatever the work does.
Abort(q) ==
    /\ req' = [req EXCEPT ![q] = Lingering(@)]
    /\ Release
    /\ UNCHANGED <<touches, rates, retired>>

Timeout(q) == req[q].open /\ req[q].age = RequestTimeout /\ Abort(q)
Close(q) == req[q].open /\ Abort(q)

\* The awaited call rejects, or returns to work that finds the signal aborted.
Stop(q) ==
    /\ req[q].stage # "none" /\ ~req[q].open
    /\ req' = [req EXCEPT ![q] = NoRequest]
    /\ UNCHANGED <<active, touches, rates, retired>>

\* 401, 429, 413, 400, 502 or 503: what any stage may answer.
Refuse(q) ==
    /\ req[q].stage # "none" /\ req[q].open
    /\ Answer(q)
    /\ UNCHANGED <<touches, rates, retired>>

-----------------------------------------------------------------------------
(* Rate windows *)

Tracked == {d \in Devices : window[d].left > 0}

\* A device with a window may use what is left of it; a new one needs room.
WindowAllows(d) ==
    IF d \in Tracked THEN window[d].count < RateLimit ELSE Cardinality(Tracked) < MaxTracked

WindowUsed(d) ==
    [window EXCEPT ![d] = IF d \in Tracked THEN [window[d] EXCEPT !.count = @ + 1]
                          ELSE [count |-> 1, left |-> RateWindow]]

\* Faulty: a full table makes room by dropping other windows.
WindowAllowsEvicting(d) == d \in Tracked => window[d].count < RateLimit

WindowUsedEvicting(d) ==
    IF d \in Tracked \/ Cardinality(Tracked) < MaxTracked THEN WindowUsed(d)
    ELSE [e \in Devices |-> IF e = d THEN [count |-> 1, left |-> RateWindow] ELSE NoWindow]

Recorded(d) ==
    recent' = [recent EXCEPT ![d] = [i \in 1..2 * RateLimit |-> IF i = 1 THEN 0 ELSE @[i - 1]]]

\* Faulty: as above, both parts.
AdmitEvicting(d) ==
    /\ WindowAllowsEvicting(d)
    /\ window' = WindowUsedEvicting(d)
    /\ Recorded(d)

\* ingestAllowed: the delivery is admitted.
Admit(d) ==
    /\ WindowAllows(d)
    /\ window' = WindowUsed(d)
    /\ Recorded(d)

-----------------------------------------------------------------------------
(* A delivery *)

\* The first verification accepts, and the device's window does.
Accept(q) ==
    /\ At(q, "verify")
    /\ req[q].fresh
    /\ Admit(req[q].device)
    /\ MoveTo(q, "upload")
    /\ UNCHANGED <<active, touches, retired>>

\* Faulty: what an upload was admitted for holds when it is complete.
UploadThenForward(q) ==
    /\ At(q, "upload")
    /\ MoveTo(q, "forward")
    /\ UNCHANGED <<active, touches, rates, retired>>

\* The last byte of a valid body: the token is verified again.
Upload(q) ==
    /\ At(q, "upload")
    /\ req' = [req EXCEPT ![q] = Verification(q, "recheck")]
    /\ UNCHANGED <<active, touches, rates, retired>>

Forward(q) ==
    /\ At(q, "recheck")
    /\ req[q].fresh
    /\ MoveTo(q, "forward")
    /\ UNCHANGED <<active, touches, rates, retired>>

\* touchAccepted: no queue; beyond the limit the write is left out.
Touch ==
    IF pendingTouches < MaxTouches
    THEN /\ pendingTouches' = pendingTouches + 1
         /\ touching' = [touching EXCEPT ![0] = @ + 1]
    ELSE UNCHANGED touches

\* The upstream's answer is passed on.
Deliver(q) ==
    /\ At(q, "forward")
    /\ Touch
    /\ Answer(q)
    /\ UNCHANGED <<rates, retired>>

\* The service's renewal is passed on; it is no delivery.
Renewed(q) ==
    /\ At(q, "renew")
    /\ Answer(q)
    /\ UNCHANGED <<touches, rates, retired>>

\* The store answers a last-seen write, or its deadline does.
TouchEnds(a) ==
    /\ touching[a] > 0
    /\ touching' = [touching EXCEPT ![a] = @ - 1]
    /\ pendingTouches' = pendingTouches - 1
    /\ UNCHANGED <<slots, rates, retired>>

\* Faulty: a last-seen write that the store never answers keeps its place.
TouchExpiresNever == FALSE /\ UNCHANGED vars

TouchExpires == TouchEnds(TouchTimeout)

-----------------------------------------------------------------------------
(* Time, and the token's life *)

\* The owner revokes the device, or its replacement is promoted: on any replica, also
\* by a write of a verification or renewal whose own request was given up meanwhile.
Retire(d) ==
    /\ Live(d)
    /\ retired' = [retired EXCEPT ![d] = 0]
    /\ UNCHANGED <<slots, touches, rates>>

Older(n, most) == IF n < most THEN n + 1 ELSE most

\* The store's limits end a verification whether or not its request was given up.
Overdue(q) ==
    \/ req[q].open /\ req[q].age = RequestTimeout
    \/ req[q].stage \in Verifying /\ req[q].spent = VerifyTime

Tick ==
    /\ \A q \in Requests : ~Overdue(q)
    /\ touching[TouchTimeout] = 0
    /\ req' = [q \in Requests |->
                  [req[q] EXCEPT !.age = IF req[q].open THEN @ + 1 ELSE @,
                                 !.spent = IF req[q].stage \in Verifying THEN @ + 1 ELSE @]]
    /\ touching' = [a \in 0..TouchTimeout |-> IF a = 0 THEN 0 ELSE touching[a - 1]]
    /\ window' = [d \in Devices |-> IF window[d].left <= 1 THEN NoWindow
                                    ELSE [window[d] EXCEPT !.left = @ - 1]]
    /\ retired' = [d \in Devices |-> IF Live(d) THEN Never ELSE Older(retired[d], LongAgo)]
    /\ recent' = [d \in Devices |->
                     [i \in 1..2 * RateLimit |-> Older(recent[d][i], RateWindow)]]
    /\ UNCHANGED <<active, pendingTouches>>

\* What a request's own calls do.  Refuse stands for every error of theirs.
Works(q) ==
    Accept(q) \/ Upload(q) \/ Forward(q) \/ Deliver(q) \/ Renewed(q) \/ Refuse(q)

Next ==
    \/ \E q \in Requests, d \in Devices : Arrive(q, d, "verify") \/ Arrive(q, d, "renew")
    \/ \E q \in Requests : Works(q) \/ Timeout(q) \/ Close(q) \/ Stop(q)
    \/ \E a \in 0..TouchTimeout - 1 : TouchEnds(a)
    \/ TouchExpires
    \/ \E d \in Devices : Retire(d)
    \/ Tick

Spec == Init /\ [][Next]_vars

\* Time passes, a verification's store calls end, and the timers fire.  Neither the
\* client nor the upstream is assumed to do anything, nor the store for a last-seen write.
VerificationEnds(q) ==
    req[q].stage \in Verifying /\ (Accept(q) \/ Forward(q) \/ Refuse(q) \/ Stop(q))

FairSpec ==
    /\ Spec
    /\ WF_vars(Tick)
    /\ WF_vars(TouchExpires)
    /\ \A q \in Requests : WF_vars(Timeout(q)) /\ WF_vars(VerificationEnds(q))

-----------------------------------------------------------------------------
(* Properties *)

\* However slow an upload is, telemetry goes upstream only if the device's token was
\* live less than CacheTTL before its last verification, which is recent: a slow
\* body extends neither the expiry nor the window in which a revoked token is still
\* believed (the comment at collectorRoutes.js 223).
ForwardedWhileLive ==
    [][\A q \in Requests :
          (req'[q].stage = "forward" /\ req[q].stage # "forward") =>
              Live(req[q].device) \/ retired[req[q].device] < CacheTTL + VerifyTime]_vars

\* A device's deliveries in any RateWindow ticks stay below twice its limit, the most
\* that two adjoining fixed windows let through, also when the table of windows is full
\* and other devices ask (collectorRoutes.js 52: no active window is evicted): the one
\* that would be too many is as old as the window is long.
RateHolds == \A d \in Devices : recent[d][2 * RateLimit] = RateWindow

\* Slots and places for last-seen writes always become free again, though clients, the
\* upstream and the store's writes hang (collectorRoutes.js 149-151, 264-271).
CapacityReturns == []<>(active < MaxActive) /\ []<>(pendingTouches < MaxTouches)
=============================================================================
