----------------------------- MODULE DeviceProofs -----------------------------
(***************************************************************************)
(* Theorems about a device's token, on the server (DeviceTokens), for any  *)
(* number of replicas, request slots, secrets and ticks, and on the device *)
(* (CollectorRenewal), for every lifetime, window, number of bad days and  *)
(* number of reruns of the installer.                                      *)
(***************************************************************************)
EXTENDS DeviceTokens, CollectorRenewal, TLAPS

(***************************************************************************)
(* DeviceTokens: what a replica may still accept, and how the item moves.  *)
(***************************************************************************)

-----------------------------------------------------------------------------
(* The inductive invariant *)

\* The item: a pending secret is younger than the current one, and both are
\* live until the item is revoked.
ItemInv ==
    /\ item.state # "stored" => item.current = NoSecret /\ item.pending = NoSecret
                                /\ ~item.revoked
    /\ item.state = "stored" => item.current \in 1..minted
    /\ item.pending # NoSecret => item.current < item.pending /\ item.pending <= minted
    /\ (item.state = "stored" /\ ~item.revoked) =>
           /\ retiredAt[item.current] = Never
           /\ item.pending # NoSecret => retiredAt[item.pending] = Never

\* Secret s was live at time t or later: if it has been retired, not before t.
LiveAt(s, t) == retiredAt[s] # Unborn /\ (retiredAt[s] # Never => t <= retiredAt[s])

\* What a read brought back was live when the read was sent.
SnapshotInv(h) ==
    h.pc = "got" =>
        IF h.snap.found
        THEN /\ h.snap.current \in 1..minted /\ LiveAt(h.snap.current, h.at)
             /\ h.snap.pending # NoSecret => /\ h.snap.current < h.snap.pending
                                            /\ h.snap.pending <= minted
        ELSE h.snap.current = NoSecret /\ h.snap.pending = NoSecret

HandlerInv(h) ==
    /\ h.pc # "idle" => h.call.secret \in 1..minted /\ h.call.arrived <= clock
    /\ h.pc \in {"get", "got", "promote", "stage"} => h.call.arrived <= h.at /\ h.at <= clock
    /\ SnapshotInv(h)
    /\ h.pc = "promote" => /\ h.snap.pending = h.call.secret
                           /\ h.snap.current \in 1..(h.call.secret - 1)
    /\ h.pc = "stage" => /\ h.fresh \in (h.call.secret + 1)..minted
                         /\ h.expiresAt - h.at <= RenewWindow
    /\ Authenticates(h) =>
           /\ h.call.arrived < h.expiresAt
           /\ retiredAt[h.call.secret] # Never => h.call.arrived < retiredAt[h.call.secret] + CacheTTL

\* A cached record is never older than CacheTTL, counted from its retirement.
EntryInv(e) ==
    e.secret # NoSecret =>
        /\ e.secret <= minted
        /\ e.until <= clock + CacheTTL
        /\ retiredAt[e.secret] # Unborn
        /\ retiredAt[e.secret] # Never => e.until <= retiredAt[e.secret] + CacheTTL

(***************************************************************************)
(* Secret f succeeds secret c: in the item, in a record a handler read, or *)
(* in a staging under way.  Every secret has one predecessor, which is why *)
(* promote may take previousHash from the record it read.                  *)
(***************************************************************************)
Succeeds(f, c) ==
    \/ item.pending = f /\ item.current = c
    \/ \E q \in Requests : /\ req[q].pc \in {"got", "promote"}
                           /\ req[q].snap.pending = f /\ req[q].snap.current = c
    \/ \E q \in Requests : req[q].pc = "stage" /\ req[q].fresh = f /\ req[q].call.secret = c

OnePredecessor ==
    \A f \in 1..MaxSecret, c, d \in Secret :
        Succeeds(f, c) /\ Succeeds(f, d) => c = d

\* Secret s expires at e, as far as the item, a cache or a handler knows.
Expires(s, e) ==
    \/ item.current = s /\ item.expiresAt = e
    \/ item.pending = s /\ item.pendingExpiresAt = e
    \/ \E r \in Replicas : cache[r].secret = s /\ cache[r].expiresAt = e
    \/ \E q \in Requests :
           \/ req[q].pc = "got" /\ req[q].snap.current = s /\ req[q].snap.expiresAt = e
           \/ /\ req[q].pc \in {"got", "promote"}
              /\ req[q].snap.pending = s /\ req[q].snap.pendingExpiresAt = e
           \/ req[q].pc = "stage" /\ req[q].call.secret = s /\ req[q].expiresAt = e
           \/ req[q].pc = "stage" /\ req[q].fresh = s /\ req[q].at + Lifetime = e

OneExpiry ==
    \A s \in 1..MaxSecret, e, g \in Time : Expires(s, e) /\ Expires(s, g) => e = g

IInv ==
    /\ TypeOK
    /\ ItemInv
    /\ \A q \in Requests : HandlerInv(req[q])
    /\ \A r \in Replicas : EntryInv(cache[r])
    /\ OnePredecessor
    /\ OneExpiry
    /\ PurgeOutlivesSecrets

-----------------------------------------------------------------------------
(* Type correctness *)

LEMMA NoSnapshotType == NoSnapshot \in Snapshot
  BY TimesAssumption DEF NoSnapshot, Snapshot, NoSecret, Secret, Time

LEMMA WorkingType ==
  ASSUME NEW pc \in {"idle", "get", "got", "flag", "promote"}, NEW call \in Call \cup {NoCall},
         NEW attempt \in 0..1, NEW at \in Time, NEW snap \in Snapshot,
         pc # "idle" => call \in Call
  PROVE  Working(pc, call, attempt, at, snap) \in Handler
  BY TimesAssumption DEF Working, Handler, HandlerRecord, NoSecret, Secret, Time

LEMMA IdleType == Idle \in Handler
  BY WorkingType, NoSnapshotType DEF Idle, Time

LEMMA ReadItemType == TypeOK => ReadItem \in Snapshot
  BY NoSnapshotType DEF TypeOK, ReadItem, Snapshot, Item

LEMMA NoItemType == ASSUME NEW s \in {"unissued", "stored", "purged"}
                    PROVE  NoItem(s) \in Item
  BY TimesAssumption DEF NoItem, Item, NoSecret, Secret, Time

\* What Authenticated does to the handler table: one of its three outcomes.
LEMMA AuthenticatedType ==
  ASSUME TypeOK, NEW q \in Requests, NEW call \in Call, NEW e \in Time,
         NEW p \in BOOLEAN, Authenticated(q, call, e, p)
  PROVE  req' \in [Requests -> Handler] /\ minted' \in Secret
<1> USE TimesAssumption, NoSnapshotType
<1>1. Accepted(call, e) \in Handler
  BY DEF Accepted, Handler, HandlerRecord, Secret, NoSecret, Time
<1>2. ASSUME minted < MaxSecret
      PROVE  Staging(call, e) \in Handler /\ minted + 1 \in Secret
  BY <1>2 DEF TypeOK, Staging, Handler, HandlerRecord, Secret
<1>3. CASE req' = [req EXCEPT ![q] = Accepted(call, e)] /\ minted' = minted
  BY <1>1, <1>3 DEF TypeOK
<1>4. CASE req' = [req EXCEPT ![q] = Idle] /\ minted' = minted
  BY <1>4, IdleType DEF TypeOK
<1>5. CASE /\ minted < MaxSecret /\ minted' = minted + 1
           /\ req' = [req EXCEPT ![q] = Staging(call, e)]
  BY <1>2, <1>5 DEF TypeOK
<1> QED
  BY <1>3, <1>4, <1>5 DEF Authenticated

LEMMA RetireType ==
  ASSUME TypeOK, NEW S
  PROVE  Retire(S) \in [1..MaxSecret -> Time \cup {Never, Unborn}]
  BY DEF TypeOK, Retire

LEMMA InitType == Init => TypeOK
  BY TimesAssumption, IdleType, NoItemType
  DEF Init, TypeOK, NoEntry, CacheEntry, NoSecret, Secret, Time

LEMMA ArriveType ==
  ASSUME TypeOK, NEW q \in Requests, NEW r \in Replicas,
         NEW kind \in {"verify", "renew"}, NEW s \in 1..minted, Arrive(q, r, kind, s)
  PROVE  TypeOK'
<1> USE TimesAssumption
<1> DEFINE call == [kind |-> kind, rep |-> r, secret |-> s, arrived |-> clock]
<1>1. call \in Call
  BY DEF TypeOK, Call, Secret
<1>2. CASE CacheHit(r, s)
  <2>1. Authenticated(q, call, cache[r].expiresAt, FALSE) /\ UNCHANGED cache
    BY <1>2 DEF Arrive
  <2>2. cache[r].expiresAt \in Time
    BY DEF TypeOK, CacheEntry
  <2>3. req' \in [Requests -> Handler] /\ minted' \in Secret
    BY <1>1, <2>1, <2>2, AuthenticatedType
  <2> QED
    BY <2>1, <2>3 DEF Arrive, TypeOK
<1>3. CASE ~CacheHit(r, s)
  <2>1. Working("get", call, 0, clock, NoSnapshot) \in Handler
    BY <1>1, WorkingType, NoSnapshotType DEF TypeOK
  <2>2. NoEntry \in CacheEntry
    BY DEF NoEntry, CacheEntry, NoSecret, Secret, Time
  <2> QED
    BY <1>3, <2>1, <2>2 DEF Arrive, TypeOK
<1> QED
  BY <1>2, <1>3

LEMMA CompareType ==
  ASSUME TypeOK, NEW q \in Requests, Compare(q)
  PROVE  TypeOK'
<1> USE TimesAssumption
<1> DEFINE h == req[q]
           r == h.call.rep
<1>1. /\ h \in Handler /\ h.snap \in Snapshot /\ clock \in Time
      /\ h.call \in Call /\ r \in Replicas
  BY DEF Compare, TypeOK, Handler, HandlerRecord, Call
<1>2. NoEntry \in CacheEntry
  BY DEF NoEntry, CacheEntry, NoSecret, Secret, Time
<1>3. Cached(h) \in CacheEntry
  BY <1>1 DEF Cached, CacheEntry, Handler, HandlerRecord, Snapshot, Time
<1>4. CASE ~h.snap.found /\ cache' = [cache EXCEPT ![r] = NoEntry]
           /\ req' = [req EXCEPT ![q] = Idle] /\ UNCHANGED minted
  BY <1>1, <1>2, <1>4, IdleType DEF Compare, TypeOK
<1>5. CASE cache' = [cache EXCEPT ![r] = Cached(h)]
           /\ Authenticated(q, h.call, h.snap.expiresAt, h.attempt > 0)
  <2>1. h.snap.expiresAt \in Time /\ (h.attempt > 0) \in BOOLEAN
    BY <1>1 DEF Snapshot
  <2>2. req' \in [Requests -> Handler] /\ minted' \in Secret
    BY <1>1, <1>5, <2>1, AuthenticatedType
  <2> QED
    BY <1>1, <1>3, <1>5, <2>2 DEF Compare, TypeOK
<1>6. CASE /\ req' = [req EXCEPT ![q] =
                 IF ~h.snap.reused /\ h.snap.previous = h.call.secret
                 THEN Working("flag", h.call, 0, 0, NoSnapshot) ELSE Idle]
           /\ UNCHANGED <<cache, minted>>
  <2>1. Working("flag", h.call, 0, 0, NoSnapshot) \in Handler
    BY <1>1, WorkingType, NoSnapshotType DEF Time
  <2> QED
    BY <1>6, <2>1, IdleType DEF Compare, TypeOK
<1>7. CASE /\ cache' = [cache EXCEPT ![r] = NoEntry]
           /\ req' = [req EXCEPT ![q] =
                 Working("promote", h.call, 0, clock, PromotionOf(h.snap))]
           /\ UNCHANGED minted
  <2>1. PromotionOf(h.snap) \in Snapshot
    BY <1>1 DEF PromotionOf, Snapshot, NoSecret, Secret, Time
  <2>2. Working("promote", h.call, 0, clock, PromotionOf(h.snap)) \in Handler
    BY <1>1, <2>1, WorkingType
  <2> QED
    BY <1>1, <1>2, <1>7, <2>2 DEF Compare, TypeOK
<1> QED
  BY <1>4, <1>5, <1>6, <1>7 DEF Compare

LEMMA GetType ==
  ASSUME TypeOK, NEW q \in Requests, Get(q)
  PROVE  TypeOK'
<1>1. Working("got", req[q].call, req[q].attempt, req[q].at, ReadItem) \in Handler
  BY WorkingType, ReadItemType DEF Get, TypeOK, Handler, HandlerRecord
<1> QED
  BY <1>1 DEF Get, TypeOK

LEMMA PromoteType ==
  ASSUME TypeOK, NEW q \in Requests, Promote(q)
  PROVE  TypeOK'
<1> USE TimesAssumption
<1> DEFINE h == req[q]
<1>1. /\ h \in Handler /\ h.snap \in Snapshot /\ clock \in Time /\ item \in Item
      /\ h.call \in Call
  BY DEF Promote, TypeOK, Handler, HandlerRecord
<1>2. item' \in Item
  <2>1. PromotedItem(h) \in Item
    BY <1>1 DEF PromotedItem, Item, Snapshot, NoSecret, Secret, Time
  <2> QED
    BY <1>1, <2>1 DEF Promote
<1>3. retiredAt' \in [1..MaxSecret -> Time \cup {Never, Unborn}]
  BY RetireType DEF Promote, TypeOK
<1>4. req' \in [Requests -> Handler] /\ minted' \in Secret
  <2>1. CASE Authenticated(q, h.call, h.snap.pendingExpiresAt, TRUE)
    <3>1. h.snap.pendingExpiresAt \in Time
      BY <1>1 DEF Snapshot
    <3> QED
      BY <1>1, <2>1, <3>1, AuthenticatedType
  <2>2. CASE req' = [req EXCEPT ![q] = Working("get", h.call, 1, clock, NoSnapshot)]
             /\ UNCHANGED minted
    <3>1. Working("get", h.call, 1, clock, NoSnapshot) \in Handler
      BY <1>1, WorkingType, NoSnapshotType
    <3> QED
      BY <2>2, <3>1 DEF TypeOK
  <2>3. CASE req' = [req EXCEPT ![q].retried = TRUE] /\ UNCHANGED minted
    <3>1. [h EXCEPT !.retried = TRUE] \in Handler
      BY <1>1 DEF Handler, HandlerRecord
    <3> QED
      BY <2>3, <3>1 DEF TypeOK
  <2> QED
    BY <2>1, <2>2, <2>3 DEF Promote
<1> QED
  BY <1>2, <1>3, <1>4 DEF Promote, TypeOK

LEMMA StageType ==
  ASSUME TypeOK, NEW q \in Requests, Stage(q)
  PROVE  TypeOK'
<1> USE TimesAssumption
<1> DEFINE h == req[q]
<1>1. h \in Handler /\ item \in Item
  BY DEF TypeOK
<1>2. item' \in Item
  <2>1. StagedItem(h) \in Item
    <3>1. /\ h.fresh \in Secret /\ h.at + Lifetime \in Time
          /\ h.at + Lifetime + PurgeGrace \in Time
      BY <1>1 DEF Handler, HandlerRecord, Time
    <3> QED
      BY <1>1, <3>1 DEF StagedItem, Item
  <2> QED
    BY <1>1, <2>1 DEF Stage
<1>3. retiredAt' \in [1..MaxSecret -> Time \cup {Never, Unborn}]
  BY RetireType DEF Stage, TypeOK
<1>4. [h EXCEPT !.retried = TRUE] \in Handler
  BY <1>1 DEF Handler, HandlerRecord
<1>5. req' \in [Requests -> Handler]
  BY <1>4, IdleType DEF Stage, TypeOK
<1> QED
  BY <1>2, <1>3, <1>5 DEF Stage, TypeOK

LEMMA FlagType ==
  ASSUME TypeOK, NEW q \in Requests, Flag(q)
  PROVE  TypeOK'
<1>1. FlaggedItem \in Item
  BY DEF FlaggedItem, TypeOK, Item
<1> QED
  BY <1>1, IdleType DEF Flag, TypeOK

LEMMA IssueType == TypeOK /\ Issue => TypeOK'
<1> SUFFICES ASSUME TypeOK, Issue PROVE TypeOK'
  OBVIOUS
<1> USE TimesAssumption
<1>1. /\ minted + 1 \in Secret /\ clock + Lifetime \in Time
      /\ clock + Lifetime + PurgeGrace \in Time
  BY DEF Issue, TypeOK, Secret, Time
<1>2. item' \in Item
  BY <1>1, NoItemType DEF Issue, Item
<1>3. retiredAt' \in [1..MaxSecret -> Time \cup {Never, Unborn}]
  BY DEF Issue, TypeOK
<1> QED
  BY <1>1, <1>2, <1>3 DEF Issue, TypeOK

LEMMA PurgeTickType == TypeOK /\ (Purge \/ Tick) => TypeOK'
<1>1. TypeOK /\ Purge => TypeOK'
  BY NoItemType, RetireType DEF Purge, TypeOK
<1>2. TypeOK /\ Tick => TypeOK'
  BY DEF Tick, TypeOK, Time
<1> QED
  BY <1>1, <1>2

LEMMA ReplicaType ==
  ASSUME TypeOK, NEW r \in Replicas, Revoke(r) \/ Forget(r) \/ Evict(r) \/ Restart(r)
  PROVE  TypeOK'
<1>1. NoEntry \in CacheEntry
  BY TimesAssumption DEF NoEntry, CacheEntry, NoSecret, Secret, Time
<1>2. CASE Revoke(r)
  <2>1. item' \in Item
    BY <1>2 DEF Revoke, TypeOK, Item
  <2> QED
    BY <1>2, <2>1, RetireType DEF Revoke, TypeOK
<1>3. CASE Forget(r)
  BY <1>1, <1>3 DEF Forget, TypeOK
<1>4. CASE Evict(r)
  BY <1>1, <1>4 DEF Evict, TypeOK
<1>5. CASE Restart(r)
  BY <1>1, <1>5, IdleType DEF Restart, TypeOK
<1> QED
  BY <1>2, <1>3, <1>4, <1>5

LEMMA NextType == TypeOK /\ [Next]_vars => TypeOK'
<1> SUFFICES ASSUME TypeOK, [Next]_vars PROVE TypeOK'
  OBVIOUS
<1>1. CASE UNCHANGED vars
  BY <1>1 DEF vars, TypeOK
<1>2. ASSUME NEW q \in Requests, HandlerStep(q)
      PROVE  TypeOK'
  <2>1. CASE Fail(q) \/ Reply(q)
    BY <2>1, IdleType DEF Fail, Reply, TypeOK
  <2> QED
    BY <1>2, <2>1, GetType, CompareType, PromoteType, StageType, FlagType DEF HandlerStep
<1>3. ASSUME NEW q \in Requests, NEW r \in Replicas, NEW kind \in {"verify", "renew"},
             NEW s \in 1..minted, Arrive(q, r, kind, s)
      PROVE  TypeOK'
  BY <1>3, ArriveType
<1>4. ASSUME NEW r \in Replicas, Revoke(r) \/ Forget(r) \/ Evict(r) \/ Restart(r)
      PROVE  TypeOK'
  BY <1>4, ReplicaType
<1>5. CASE Issue
  BY <1>5, IssueType
<1>6. CASE Purge \/ Tick
  BY <1>6, PurgeTickType
<1> QED
  BY <1>1, <1>2, <1>3, <1>4, <1>5, <1>6 DEF Next

(***************************************************************************)
(* Every variable keeps its type: in particular every time the code stores *)
(* stays a time, and a slot that is working has a call to answer.          *)
(***************************************************************************)
THEOREM TypeCorrect == Spec => []TypeOK
  BY InitType, NextType, PTL DEF Spec

-----------------------------------------------------------------------------
(* What every step does to the clock, the mint and the history *)

Evolves ==
    /\ clock' \in Time /\ clock <= clock'
    /\ minted' \in {minted, minted + 1}
    /\ \A s \in 1..MaxSecret :
           \/ retiredAt'[s] = retiredAt[s]
           \/ retiredAt'[s] = Never
           \/ retiredAt[s] = Never /\ retiredAt'[s] = clock

LEMMA RetireEvolves ==
  ASSUME TypeOK, NEW S, NEW s \in 1..MaxSecret
  PROVE  \/ Retire(S)[s] = retiredAt[s]
         \/ retiredAt[s] = Never /\ Retire(S)[s] = clock
  BY DEF Retire

LEMMA StepEvolves == TypeOK /\ [Next]_vars => Evolves
<1> SUFFICES ASSUME TypeOK, [Next]_vars PROVE Evolves
  OBVIOUS
<1> USE DEF Evolves
<1>0. clock \in Time /\ clock <= clock
  BY DEF TypeOK, Time
<1>1. CASE UNCHANGED vars
  BY <1>0, <1>1 DEF vars
<1>2. ASSUME NEW q \in Requests, HandlerStep(q)
      PROVE  Evolves
  <2>1. CASE Get(q) \/ Fail(q) \/ Reply(q) \/ Flag(q)
    BY <1>0, <2>1 DEF Get, Fail, Reply, Flag
  <2>2. CASE Compare(q)
    BY <1>0, <2>2 DEF Compare, Authenticated
  <2>3. CASE Promote(q)
    BY <1>0, <2>3, RetireEvolves DEF Promote, Authenticated
  <2>4. CASE Stage(q)
    <3>1. \A s \in 1..MaxSecret : \/ retiredAt'[s] = retiredAt[s]
                                  \/ retiredAt'[s] = Never
                                  \/ retiredAt[s] = Never /\ retiredAt'[s] = clock
      BY <2>4, RetireEvolves, RetireType DEF Stage
    <3> QED
      BY <1>0, <2>4, <3>1 DEF Stage
  <2> QED
    BY <1>2, <2>1, <2>2, <2>3, <2>4 DEF HandlerStep
<1>3. ASSUME NEW q \in Requests, NEW r \in Replicas, NEW kind \in {"verify", "renew"},
             NEW s \in 1..minted, Arrive(q, r, kind, s)
      PROVE  Evolves
  BY <1>0, <1>3 DEF Arrive, Authenticated
<1>4. ASSUME NEW r \in Replicas, Revoke(r) \/ Forget(r) \/ Evict(r) \/ Restart(r)
      PROVE  Evolves
  BY <1>0, <1>4, RetireEvolves DEF Revoke, Forget, Evict, Restart
<1>5. CASE Issue
  BY <1>0, <1>5 DEF Issue, TypeOK
<1>6. CASE Purge
  BY <1>0, <1>6, RetireEvolves DEF Purge
<1>7. CASE Tick
  BY <1>0, <1>7 DEF Tick, TypeOK, Time
<1> QED
  BY <1>1, <1>2, <1>3, <1>4, <1>5, <1>6, <1>7 DEF Next

-----------------------------------------------------------------------------
(* The item *)

LEMMA ItemInvFrame ==
  ASSUME TypeOK, ItemInv, UNCHANGED <<item, retiredAt>>, Evolves
  PROVE  ItemInv'
  BY DEF TypeOK, ItemInv, Evolves, Item, Secret, NoSecret

\* A promotion finds in the item the predecessor its handler read.
LEMMA PromotedPredecessor ==
  ASSUME IInv, NEW q \in Requests, req[q].pc = "promote", PromoteHolds(req[q])
  PROVE  /\ item.pending = req[q].call.secret
         /\ req[q].snap.pending = req[q].call.secret
         /\ req[q].snap.current = item.current
         /\ item.current \in 1..(item.pending - 1)
<1> DEFINE h == req[q]
<1>1. h \in Handler /\ item \in Item /\ HandlerInv(h)
  BY DEF IInv, TypeOK
<1>2. /\ h.snap.pending = h.call.secret /\ item.pending = h.call.secret
      /\ h.snap.current \in 1..(h.call.secret - 1) /\ h.call.secret \in 1..minted
  BY <1>1 DEF HandlerInv, PromoteHolds
<1>3. item.pending \in 1..MaxSecret /\ item.current \in Secret /\ h.snap.current \in Secret
  BY <1>1, <1>2 DEF Item, Secret, IInv, TypeOK, Handler, HandlerRecord, Snapshot
<1>4. Succeeds(item.pending, item.current) /\ Succeeds(item.pending, h.snap.current)
  BY <1>2 DEF Succeeds
<1> QED
  BY <1>2, <1>3, <1>4 DEF IInv, OnePredecessor

LEMMA ItemInvStep == IInv /\ TypeOK' /\ Evolves /\ [Next]_vars => ItemInv'
<1> SUFFICES ASSUME IInv, TypeOK', Evolves, [Next]_vars PROVE ItemInv'
  OBVIOUS
<1> USE TimesAssumption DEF NoSecret, Secret, Time
<1>0. TypeOK /\ ItemInv /\ item \in Item /\ minted \in Secret /\ minted' \in Secret
  BY DEF IInv, TypeOK
<1>1. CASE UNCHANGED <<item, retiredAt>>
  BY <1>0, <1>1, ItemInvFrame
<1>2. ASSUME NEW q \in Requests, Promote(q)
      PROVE  ItemInv'
  <2> DEFINE h == req[q]
  <2>1. CASE ~PromoteHolds(h)
    BY <1>1, <1>2, <2>1 DEF Promote
  <2>2. CASE PromoteHolds(h)
    <3>1. /\ item.pending = h.call.secret /\ h.snap.pending = h.call.secret
          /\ item.current \in 1..(item.pending - 1)
      BY <1>2, <2>2, PromotedPredecessor DEF Promote
    <3>2. item' = PromotedItem(h) /\ retiredAt' = Retire({item.current})
      BY <1>2, <2>2 DEF Promote
    <3>3. /\ item'.state = "stored" /\ ~item'.revoked /\ item'.pending = 0
          /\ item'.current = item.pending
      BY <2>2, <3>1, <3>2 DEF PromotedItem, PromoteHolds
    <3>4. item.pending \in 1..minted /\ retiredAt[item.pending] = Never
      BY <1>0, <2>2, <3>1 DEF ItemInv, PromoteHolds, Item
    <3>5. item.pending \in 1..MaxSecret
      BY <1>0, <3>4
    <3>6. retiredAt'[item.pending] = Never
      BY <3>1, <3>2, <3>4, <3>5 DEF Retire
    <3> QED
      BY <1>0, <3>3, <3>4, <3>6 DEF ItemInv, Evolves
  <2> QED
    BY <2>1, <2>2
<1>3. ASSUME NEW q \in Requests, Stage(q)
      PROVE  ItemInv'
  <2> DEFINE h == req[q]
  <2>1. CASE ~StageHolds(h)
    BY <1>1, <1>3, <2>1 DEF Stage
  <2>2. CASE StageHolds(h)
    <3>1. /\ item' = StagedItem(h)
          /\ retiredAt' = [Retire({item.pending}) EXCEPT ![h.fresh] = Never]
      BY <1>3, <2>2 DEF Stage
    <3>2. /\ item'.state = "stored" /\ ~item'.revoked /\ item'.pending = h.fresh
          /\ item'.current = item.current
      BY <1>0, <2>2, <3>1 DEF StagedItem, StageHolds, Item
    <3>3. h.fresh \in (h.call.secret + 1)..minted /\ item.current = h.call.secret
      BY <1>3, <2>2 DEF Stage, StageHolds, IInv, HandlerInv
    <3>4. /\ item.current \in 1..minted /\ retiredAt[item.current] = Never
          /\ item.pending # item.current
      BY <1>0, <2>2 DEF ItemInv, StageHolds, Item
    <3>5. h.fresh \in 1..MaxSecret /\ item.current \in 1..MaxSecret /\ h.fresh # item.current
      BY <1>0, <3>3, <3>4
    <3>6. Retire({item.pending})[item.current] = Never
      BY <3>4, <3>5 DEF Retire
    <3>7. retiredAt'[item.current] = Never /\ retiredAt'[h.fresh] = Never
      BY <1>0, <3>1, <3>5, <3>6, RetireType
    <3> QED
      BY <1>0, <3>2, <3>3, <3>4, <3>7 DEF ItemInv, Evolves
  <2> QED
    BY <2>1, <2>2
<1>4. ASSUME NEW q \in Requests, Flag(q)
      PROVE  ItemInv'
  BY <1>0, <1>4 DEF Flag, FlaggedItem, ItemInv, Item
<1>5. CASE Issue
  BY <1>0, <1>5 DEF Issue, NoItem, ItemInv, TypeOK
<1>6. ASSUME NEW r \in Replicas, Revoke(r)
      PROVE  ItemInv'
  BY <1>0, <1>6 DEF Revoke, RevokeHolds, ItemInv, Item
<1>7. CASE Purge
  BY <1>7 DEF Purge, NoItem, ItemInv
<1>8. \/ UNCHANGED <<item, retiredAt>>
      \/ \E q \in Requests : Promote(q) \/ Stage(q) \/ Flag(q)
      \/ \E r \in Replicas : Revoke(r)
      \/ Issue \/ Purge
  BY DEF Next, HandlerStep, Arrive, Get, Compare, Fail, Reply, Forget, Evict, Restart,
         Tick, vars
<1> QED
  BY <1>1, <1>2, <1>3, <1>4, <1>5, <1>6, <1>7, <1>8

-----------------------------------------------------------------------------
(* The handlers and the caches *)

LEMMA LiveAtFrame ==
  ASSUME TypeOK, Evolves, NEW s \in 1..MaxSecret, NEW t \in Time, t <= clock, LiveAt(s, t)
  PROVE  retiredAt'[s] # Unborn /\ (retiredAt'[s] # Never => t <= retiredAt'[s])
  BY DEF TypeOK, Evolves, LiveAt, Never, Unborn, Time

\* A handler that does not move, or only notes a retry, keeps its part of the
\* invariant.
LEMMA HandlerFrame ==
  ASSUME TypeOK, TypeOK', Evolves, NEW p \in Requests, HandlerInv(req[p]),
         \/ req'[p] = req[p]
         \/ req' = [req EXCEPT ![p].retried = TRUE]
  PROVE  HandlerInv(req[p])'
<1> USE TimesAssumption DEF Secret, Time, NoSecret
<1> DEFINE h == req[p]
<1>0. /\ req[p].pc = req'[p].pc /\ req[p].call = req'[p].call /\ req[p].at = req'[p].at
      /\ req[p].snap = req'[p].snap /\ req[p].fresh = req'[p].fresh
      /\ req[p].expiresAt = req'[p].expiresAt
  <2>1. req[p] \in Handler /\ req \in [Requests -> Handler]
    BY DEF TypeOK
  <2>2. req[p] \in HandlerRecord
    BY <2>1 DEF Handler
  <2>3. CASE req'[p] = req[p]
    BY <2>3
  <2>4. CASE req' = [req EXCEPT ![p].retried = TRUE]
    <3>1. req'[p] = [req[p] EXCEPT !.retried = TRUE]
      BY <2>1, <2>4
    <3> QED
      BY <2>2, <3>1 DEF HandlerRecord
  <2> QED
    BY <2>3, <2>4
<1>1. /\ h \in Handler /\ h.snap \in Snapshot
      /\ h.pc # "idle" => h.call \in Call
      /\ minted \in Secret /\ minted' \in Secret /\ minted <= minted'
      /\ clock \in Nat /\ clock' \in Nat /\ clock <= clock'
  <2>1. h \in Handler
    BY DEF TypeOK
  <2>2. h.snap \in Snapshot /\ (h.pc # "idle" => h.call \in Call)
    BY <2>1 DEF Handler, HandlerRecord
  <2>3. /\ minted \in Secret /\ minted' \in Secret /\ minted <= minted'
        /\ clock \in Nat /\ clock' \in Nat /\ clock <= clock'
    BY DEF TypeOK, Evolves
  <2> QED
    BY <2>1, <2>2, <2>3
<1>2. h.pc # "idle" => h.call.secret \in 1..minted' /\ h.call.arrived <= clock'
  BY <1>1 DEF HandlerInv, Call
<1>3. h.pc \in {"get", "got", "promote", "stage"} =>
          h.call.arrived <= h.at /\ h.at <= clock'
  BY <1>1 DEF HandlerInv, Handler, HandlerRecord
<1>4. SnapshotInv(req[p])'
  <2>1. CASE h.pc = "got" /\ h.snap.found
    <3>1. /\ h.snap.current \in 1..minted /\ LiveAt(h.snap.current, h.at) /\ h.at <= clock
          /\ h.at \in Time /\ h.snap.current \in 1..MaxSecret
      BY <1>1, <2>1 DEF HandlerInv, SnapshotInv, Handler, HandlerRecord
    <3>2. /\ retiredAt'[h.snap.current] # Unborn
          /\ retiredAt'[h.snap.current] # Never => h.at <= retiredAt'[h.snap.current]
      BY <3>1, LiveAtFrame
    <3> QED
      BY <1>0, <1>1, <2>1, <3>1, <3>2 DEF HandlerInv, SnapshotInv, Snapshot, LiveAt
  <2>2. CASE ~(h.pc = "got" /\ h.snap.found)
    BY <1>0, <2>2 DEF HandlerInv, SnapshotInv
  <2> QED
    BY <2>1, <2>2
<1>5. h.pc = "stage" => /\ h.fresh \in (h.call.secret + 1)..minted'
                        /\ h.expiresAt - h.at <= RenewWindow
  BY <1>1 DEF HandlerInv
<1>6. Authenticates(h) =>
          /\ h.call.arrived < h.expiresAt
          /\ retiredAt'[h.call.secret] # Never =>
                 h.call.arrived < retiredAt'[h.call.secret] + CacheTTL
  <2>1. ASSUME Authenticates(h)
        PROVE  /\ h.call.secret \in 1..MaxSecret /\ h.call.arrived \in Nat
               /\ h.call.arrived <= clock
    BY <1>1, <2>1 DEF HandlerInv, Authenticates, Call
  <2> QED
    BY <1>1, <2>1 DEF HandlerInv, Evolves
<1> QED
  BY <1>0, <1>2, <1>3, <1>4, <1>5, <1>6 DEF HandlerInv, Authenticates

LEMMA IdleInv ==
  ASSUME NEW p \in Requests, req'[p] = Idle
  PROVE  HandlerInv(req[p])'
  BY DEF Idle, Working, HandlerInv, SnapshotInv, Authenticates

\* authenticate's callers: what is accepted, or goes on to stage, was in time.
LEMMA AuthenticatedInv ==
  ASSUME TypeOK, TypeOK', Evolves, clock' = clock,
         NEW q \in Requests, NEW call \in Call, NEW e \in Time, NEW p \in BOOLEAN,
         call.secret \in 1..minted, call.arrived <= clock, call.arrived < e,
         retiredAt'[call.secret] # Never => call.arrived < retiredAt'[call.secret] + CacheTTL,
         Authenticated(q, call, e, p)
  PROVE  HandlerInv(req[q])'
<1> USE TimesAssumption DEF Secret, Time, NoSecret
<1>0. /\ minted \in Nat /\ clock \in Nat /\ call.arrived \in Nat
      /\ minted <= minted' /\ minted' \in Nat
  BY DEF TypeOK, Call, Evolves
<1>1. CASE req' = [req EXCEPT ![q] = Accepted(call, e)]
  <2>1. req'[q] = Accepted(call, e)
    BY <1>1 DEF TypeOK
  <2> QED
    BY <1>0, <2>1 DEF Accepted, HandlerInv, SnapshotInv, Authenticates
<1>2. CASE req' = [req EXCEPT ![q] = Idle]
  <2>1. req'[q] = Idle
    BY <1>2 DEF TypeOK
  <2> QED
    BY <2>1, IdleInv
<1>3. CASE /\ RenewalDue(e, p) /\ minted' = minted + 1
           /\ req' = [req EXCEPT ![q] = Staging(call, e)]
  <2>1. req'[q] = Staging(call, e)
    BY <1>3 DEF TypeOK
  <2>2. e - clock <= RenewWindow
    BY <1>3 DEF RenewalDue
  <2> QED
    BY <1>0, <1>3, <2>1, <2>2 DEF Staging, HandlerInv, SnapshotInv, Authenticates
<1> QED
  BY <1>1, <1>2, <1>3 DEF Authenticated

LEMMA MovedOnly ==
  ASSUME TypeOK, TypeOK', Evolves, \A p \in Requests : HandlerInv(req[p]),
         NEW q \in Requests, HandlerInv(req[q])', NEW new,
         req' = [req EXCEPT ![q] = new]
  PROVE  \A p \in Requests : HandlerInv(req[p])'
<1> SUFFICES ASSUME NEW p \in Requests, p # q
             PROVE  HandlerInv(req[p])'
  OBVIOUS
<1>1. req'[p] = req[p]
  BY DEF TypeOK
<1> QED
  BY <1>1, HandlerFrame

LEMMA StillInv ==
  ASSUME TypeOK, TypeOK', Evolves, \A p \in Requests : HandlerInv(req[p]), req' = req
  PROVE  \A p \in Requests : HandlerInv(req[p])'
  BY HandlerFrame

LEMMA RetriedInv ==
  ASSUME TypeOK, TypeOK', Evolves, \A p \in Requests : HandlerInv(req[p]),
         NEW q \in Requests, req' = [req EXCEPT ![q].retried = TRUE]
  PROVE  \A p \in Requests : HandlerInv(req[p])'
<1> SUFFICES ASSUME NEW p \in Requests
             PROVE  HandlerInv(req[p])'
  OBVIOUS
<1>1. CASE p = q
  BY <1>1, HandlerFrame
<1>2. CASE p # q
  <2>1. req'[p] = req[p]
    BY <1>2 DEF TypeOK
  <2> QED
    BY <2>1, HandlerFrame
<1> QED
  BY <1>1, <1>2

LEMMA IdledInv ==
  ASSUME TypeOK, TypeOK', Evolves, \A p \in Requests : HandlerInv(req[p]),
         NEW q \in Requests, req' = [req EXCEPT ![q] = Idle]
  PROVE  \A p \in Requests : HandlerInv(req[p])'
<1>1. req'[q] = Idle
  BY DEF TypeOK
<1>2. HandlerInv(req[q])'
  BY <1>1, IdleInv
<1> QED
  BY <1>2, MovedOnly

LEMMA AuthenticatedAllInv ==
  ASSUME TypeOK, TypeOK', Evolves, \A p \in Requests : HandlerInv(req[p]), clock' = clock,
         NEW q \in Requests, NEW call \in Call, NEW e \in Time, NEW p \in BOOLEAN,
         call.secret \in 1..minted, call.arrived <= clock, call.arrived < e,
         retiredAt'[call.secret] # Never => call.arrived < retiredAt'[call.secret] + CacheTTL,
         Authenticated(q, call, e, p)
  PROVE  \A p_1 \in Requests : HandlerInv(req[p_1])'
<1>1. HandlerInv(req[q])'
  BY AuthenticatedInv
<1>2. PICK new : req' = [req EXCEPT ![q] = new]
  BY DEF Authenticated
<1> QED
  BY <1>1, <1>2, MovedOnly

LEMMA ArriveInv ==
  ASSUME IInv, TypeOK', Evolves, NEW q \in Requests, NEW r \in Replicas,
         NEW kind \in {"verify", "renew"}, NEW s \in 1..minted, Arrive(q, r, kind, s)
  PROVE  \A p \in Requests : HandlerInv(req[p])'
<1> USE TimesAssumption DEF Secret, Time, NoSecret
<1> DEFINE call == [kind |-> kind, rep |-> r, secret |-> s, arrived |-> clock]
<1>0. /\ TypeOK /\ \A p \in Requests : HandlerInv(req[p])
      /\ clock' = clock /\ retiredAt' = retiredAt /\ clock \in Nat /\ minted \in Secret
      /\ cache[r] \in CacheEntry
  BY DEF IInv, Arrive, TypeOK
<1>1. call \in Call
  BY <1>0 DEF Call
<1>2. CASE CacheHit(r, s)
  <2>1. cache[r].expiresAt \in Time /\ cache[r].until \in Time
    BY <1>0 DEF CacheEntry
  <2>2. /\ clock < cache[r].expiresAt /\ clock < cache[r].until /\ cache[r].secret = s
        /\ s # NoSecret
    BY <1>2 DEF CacheHit
  <2>3. retiredAt[s] # Never => cache[r].until <= retiredAt[s] + CacheTTL
    BY <2>2 DEF IInv, EntryInv
  <2>4. retiredAt[s] \in Time \cup {Never, Unborn}
    BY <1>0 DEF TypeOK
  <2>5. retiredAt'[call.secret] # Never => call.arrived < retiredAt'[call.secret] + CacheTTL
    BY <1>0, <2>1, <2>2, <2>3, <2>4 DEF Never, Unborn
  <2>6. Authenticated(q, call, cache[r].expiresAt, FALSE)
    BY <1>2 DEF Arrive
  <2>7. call.secret \in 1..minted /\ call.arrived <= clock /\ call.arrived < cache[r].expiresAt
    BY <1>0, <2>2
  <2> HIDE DEF call
  <2> QED
    BY <1>0, <1>1, <2>1, <2>5, <2>6, <2>7, AuthenticatedAllInv
<1>3. CASE ~CacheHit(r, s)
  <2>1. req' = [req EXCEPT ![q] = Working("get", call, 0, clock, NoSnapshot)]
    BY <1>3 DEF Arrive
  <2>2. req'[q] = Working("get", call, 0, clock, NoSnapshot)
    BY <1>0, <2>1 DEF TypeOK
  <2>3. minted' = minted
    BY <1>3 DEF Arrive
  <2>4. HandlerInv(req[q])'
    BY <1>0, <2>2, <2>3 DEF Working, HandlerInv, SnapshotInv, Authenticates
  <2> QED
    BY <1>0, <2>1, <2>4, MovedOnly
<1> QED
  BY <1>2, <1>3

LEMMA GetInv ==
  ASSUME IInv, TypeOK', Evolves, NEW q \in Requests, Get(q)
  PROVE  \A p \in Requests : HandlerInv(req[p])'
<1> USE TimesAssumption DEF Secret, Time, NoSecret
<1> DEFINE h == req[q]
<1>0. /\ TypeOK /\ \A p \in Requests : HandlerInv(req[p])
      /\ clock' = clock /\ retiredAt' = retiredAt /\ minted' = minted
      /\ h.pc = "get" /\ h \in Handler /\ minted \in Secret /\ item \in Item
  BY DEF IInv, Get, TypeOK
<1>1. req'[q] = Working("got", h.call, h.attempt, h.at, ReadItem)
  BY <1>0 DEF Get, TypeOK
<1>2. /\ h.call.secret \in 1..minted /\ h.call.arrived <= clock
      /\ h.call.arrived <= h.at /\ h.at <= clock
  BY <1>0 DEF HandlerInv
<1>3. CASE item.state = "stored" /\ ~item.revoked
  <2>1. /\ item.current \in 1..minted /\ LiveAt(item.current, h.at)
        /\ item.pending # NoSecret => item.current < item.pending /\ item.pending <= minted
    BY <1>3 DEF IInv, ItemInv, LiveAt, Never, Unborn
  <2> QED
    <3>1. SnapshotInv(req[q])'
      BY <1>0, <1>1, <1>3, <2>1 DEF ReadItem, Working, SnapshotInv, LiveAt
    <3>2. HandlerInv(req[q])'
      BY <1>0, <1>1, <1>2, <3>1 DEF Working, HandlerInv, Authenticates
    <3> QED
      BY <1>0, <3>2, MovedOnly DEF Get
<1>4. CASE ~(item.state = "stored" /\ ~item.revoked)
  <2>1. SnapshotInv(req[q])'
    BY <1>0, <1>1, <1>4 DEF ReadItem, NoSnapshot, Working, SnapshotInv
  <2>2. HandlerInv(req[q])'
    BY <1>0, <1>1, <1>2, <2>1 DEF Working, HandlerInv, Authenticates
  <2> QED
    BY <1>0, <2>2, MovedOnly DEF Get
<1> QED
  BY <1>3, <1>4

LEMMA CompareInv ==
  ASSUME IInv, TypeOK', Evolves, NEW q \in Requests, Compare(q)
  PROVE  \A p \in Requests : HandlerInv(req[p])'
<1> USE TimesAssumption DEF Secret, Time, NoSecret
<1> DEFINE h == req[q]
<1>0. /\ TypeOK /\ \A p \in Requests : HandlerInv(req[p])
      /\ clock' = clock /\ retiredAt' = retiredAt
      /\ h.pc = "got" /\ h \in Handler /\ minted \in Secret /\ clock \in Nat
      /\ minted' \in Secret /\ minted <= minted'
  BY DEF IInv, Compare, TypeOK, Evolves
<1>1. /\ h.call.secret \in 1..minted /\ h.call.arrived <= clock
      /\ h.call.arrived <= h.at /\ h.at <= clock /\ SnapshotInv(h)
  BY <1>0 DEF HandlerInv
<1>2. h.call \in Call /\ h.snap \in Snapshot /\ h.at \in Time
  BY <1>0 DEF Handler, HandlerRecord
<1>3. CASE req' = [req EXCEPT ![q] = Idle]
  BY <1>0, <1>3, IdledInv
<1>4. CASE /\ h.snap.found /\ MatchesCurrent(h)
           /\ Authenticated(q, h.call, h.snap.expiresAt, h.attempt > 0)
  <2>1. LiveAt(h.call.secret, h.at)
    BY <1>0, <1>1, <1>4 DEF SnapshotInv, MatchesCurrent
  <2>2. retiredAt[h.call.secret] \in Time \cup {Never, Unborn}
    BY <1>0, <1>1 DEF TypeOK
  <2>3. h.call.arrived \in Nat
    BY <1>2 DEF Call
  <2>4. retiredAt'[h.call.secret] # Never =>
            h.call.arrived < retiredAt'[h.call.secret] + CacheTTL
    BY <1>0, <1>1, <1>2, <2>1, <2>2, <2>3 DEF LiveAt, Never, Unborn
  <2>5. h.snap.expiresAt \in Time /\ h.call.arrived < h.snap.expiresAt
    BY <1>0, <1>1, <1>2, <1>4, <2>3 DEF Snapshot, MatchesCurrent
  <2>6. (h.attempt > 0) \in BOOLEAN
    OBVIOUS
  <2> HIDE DEF h
  <2> QED
    BY <1>0, <1>1, <1>2, <1>4, <2>4, <2>5, <2>6, AuthenticatedAllInv
<1>5. CASE /\ minted' = minted
           /\ req' = [req EXCEPT ![q] = Working("flag", h.call, 0, 0, NoSnapshot)]
  <2>1. req'[q] = Working("flag", h.call, 0, 0, NoSnapshot)
    BY <1>0, <1>5 DEF TypeOK
  <2>2. HandlerInv(req[q])'
    BY <1>0, <1>1, <1>5, <2>1 DEF Working, HandlerInv, SnapshotInv, Authenticates
  <2> QED
    BY <1>0, <1>5, <2>2, MovedOnly
<1>6. CASE /\ h.snap.found /\ MatchesPending(h) /\ minted' = minted
           /\ req' = [req EXCEPT ![q] =
                         Working("promote", h.call, 0, clock, PromotionOf(h.snap))]
  <2>1. req'[q] = Working("promote", h.call, 0, clock, PromotionOf(h.snap))
    BY <1>0, <1>6 DEF TypeOK
  <2>2. h.snap.pending = h.call.secret /\ h.snap.current \in 1..(h.call.secret - 1)
    BY <1>0, <1>1, <1>2, <1>6 DEF MatchesPending, SnapshotInv, Snapshot
  <2>3. HandlerInv(req[q])'
    BY <1>0, <1>1, <1>6, <2>1, <2>2
       DEF Working, PromotionOf, HandlerInv, SnapshotInv, Authenticates
  <2> QED
    BY <1>0, <1>6, <2>3, MovedOnly
<1> QED
  BY <1>3, <1>4, <1>5, <1>6 DEF Compare

LEMMA PromoteInv ==
  ASSUME IInv, TypeOK', Evolves, NEW q \in Requests, Promote(q)
  PROVE  \A p \in Requests : HandlerInv(req[p])'
<1> USE TimesAssumption DEF Secret, Time, NoSecret
<1> DEFINE h == req[q]
<1>0. /\ TypeOK /\ \A p \in Requests : HandlerInv(req[p])
      /\ clock' = clock /\ h.pc = "promote" /\ h \in Handler
      /\ minted \in Secret /\ clock \in Nat
  BY DEF IInv, Promote, TypeOK
<1>1. /\ h.call.secret \in 1..minted /\ h.call.arrived <= clock
      /\ h.call.arrived <= h.at /\ h.at <= clock
      /\ h.snap.pending = h.call.secret /\ h.snap.current \in 1..(h.call.secret - 1)
  BY <1>0 DEF HandlerInv
<1>2. h.call \in Call /\ h.snap \in Snapshot /\ h.at \in Time
  BY <1>0 DEF Handler, HandlerRecord
<1>3. CASE PromoteHolds(h) /\ Authenticated(q, h.call, h.snap.pendingExpiresAt, TRUE)
  <2>1. /\ retiredAt[h.call.secret] = Never /\ item.current # h.call.secret
        /\ item.current \in Secret
    <3>1. item.state = "stored" /\ ~item.revoked /\ item.pending = h.call.secret
      BY <1>1, <1>3 DEF PromoteHolds
    <3>2. item.current \in Secret /\ item.pending \in Secret /\ item.pending # NoSecret
      <4>1. item \in Item
        BY <1>0 DEF TypeOK
      <4>2. item.current \in Secret /\ item.pending \in Secret
        BY <4>1 DEF Item
      <4> QED
        BY <4>2, <1>1, <3>1
    <3> QED
      BY <3>1, <3>2 DEF IInv, ItemInv
  <2>2. retiredAt' = Retire({item.current})
    BY <1>3 DEF Promote
  <2>3. retiredAt'[h.call.secret] = Never
    BY <1>0, <1>1, <2>1, <2>2 DEF Retire
  <2>4. /\ h.snap.pendingExpiresAt \in Time /\ h.call.arrived < h.snap.pendingExpiresAt
    BY <1>1, <1>2, <1>3 DEF PromoteHolds, Snapshot, Call
  <2>5. retiredAt'[h.call.secret] # Never =>
            h.call.arrived < retiredAt'[h.call.secret] + CacheTTL
    BY <2>3
  <2> DEFINE promoted == TRUE
  <2>6. promoted \in BOOLEAN /\ Authenticated(q, h.call, h.snap.pendingExpiresAt, promoted)
    BY <1>3
  <2> HIDE DEF h, promoted
  <2> QED
    BY <1>0, <1>1, <1>2, <2>4, <2>5, <2>6, AuthenticatedAllInv
<1>4. CASE /\ minted' = minted
           /\ req' = [req EXCEPT ![q] = Working("get", h.call, 1, clock, NoSnapshot)]
  <2>1. req'[q] = Working("get", h.call, 1, clock, NoSnapshot)
    BY <1>0, <1>4 DEF TypeOK
  <2>2. HandlerInv(req[q])'
    BY <1>0, <1>1, <1>4, <2>1 DEF Working, HandlerInv, SnapshotInv, Authenticates
  <2> QED
    BY <1>0, <1>4, <2>2, MovedOnly
<1>5. CASE req' = [req EXCEPT ![q].retried = TRUE]
  BY <1>0, <1>5, RetriedInv
<1> QED
  BY <1>3, <1>4, <1>5 DEF Promote

LEMMA HandlerInvStep ==
  ASSUME IInv, TypeOK', Evolves, [Next]_vars
  PROVE  \A p \in Requests : HandlerInv(req[p])'
<1>0. TypeOK /\ \A p \in Requests : HandlerInv(req[p])
  BY DEF IInv
<1>1. CASE req' = req
  BY <1>0, <1>1, StillInv
<1>2. ASSUME NEW q \in Requests, NEW r \in Replicas, NEW kind \in {"verify", "renew"},
             NEW s \in 1..minted, Arrive(q, r, kind, s)
      PROVE  \A p \in Requests : HandlerInv(req[p])'
  BY <1>2, ArriveInv
<1>3. ASSUME NEW q \in Requests, HandlerStep(q)
      PROVE  \A p \in Requests : HandlerInv(req[p])'
  <2>1. CASE req' = [req EXCEPT ![q] = Idle]
    BY <1>0, <2>1, IdledInv
  <2>2. CASE req' = [req EXCEPT ![q].retried = TRUE]
    BY <1>0, <2>2, RetriedInv
  <2>3. Get(q) \/ Compare(q) \/ Promote(q) \/ req' = [req EXCEPT ![q] = Idle]
        \/ req' = [req EXCEPT ![q].retried = TRUE]
    BY <1>3 DEF HandlerStep, Stage, Flag, Fail, Reply
  <2> QED
    BY <2>1, <2>2, <2>3, GetInv, CompareInv, PromoteInv
<1>4. ASSUME NEW r \in Replicas, Restart(r)
      PROVE  \A p \in Requests : HandlerInv(req[p])'
  <2> SUFFICES ASSUME NEW p \in Requests
               PROVE  HandlerInv(req[p])'
    OBVIOUS
  <2>1. req'[p] = Idle \/ req'[p] = req[p]
    BY <1>4 DEF Restart
  <2> QED
    BY <1>0, <2>1, IdleInv, HandlerFrame
<1> QED
  BY <1>1, <1>2, <1>3, <1>4
     DEF Next, vars, Issue, Revoke, Forget, Evict, Purge, Tick

LEMMA EntryFrame ==
  ASSUME TypeOK, TypeOK', Evolves, NEW r \in Replicas, EntryInv(cache[r]), cache'[r] = cache[r]
  PROVE  EntryInv(cache[r])'
<1> USE TimesAssumption DEF Secret, Time, NoSecret
<1>1. /\ cache[r] \in CacheEntry /\ minted \in Secret /\ minted' \in Secret
      /\ minted <= minted' /\ clock \in Nat /\ clock' \in Nat /\ clock <= clock'
  BY DEF TypeOK, Evolves
<1> SUFFICES ASSUME cache[r].secret # NoSecret PROVE EntryInv(cache[r])'
  BY DEF EntryInv
<1>2. /\ cache[r].secret \in 1..MaxSecret /\ cache[r].until \in Nat
      /\ cache[r].secret <= minted'
  BY <1>1 DEF CacheEntry, EntryInv
<1>3. retiredAt'[cache[r].secret] \in Time \cup {Never, Unborn}
  BY <1>2 DEF TypeOK
<1>4. LET s == cache[r].secret
      IN  /\ retiredAt'[s] # Unborn
          /\ retiredAt'[s] # Never => cache[r].until <= retiredAt'[s] + CacheTTL
  <2> DEFINE s == cache[r].secret
  <2>1. /\ retiredAt[s] # Unborn
        /\ retiredAt[s] # Never => cache[r].until <= retiredAt[s] + CacheTTL
        /\ cache[r].until <= clock + CacheTTL
    BY DEF EntryInv
  <2>2. \/ retiredAt'[s] = retiredAt[s]
        \/ retiredAt'[s] = Never
        \/ retiredAt'[s] = clock
    BY <1>2 DEF Evolves
  <2> QED
    BY <1>1, <1>2, <2>1, <2>2 DEF Never, Unborn
<1> QED
  BY <1>1, <1>2, <1>4 DEF EntryInv

LEMMA CachedInv ==
  ASSUME IInv, TypeOK', Evolves, NEW q \in Requests, Compare(q),
         req[q].snap.found, NEW r \in Replicas, cache'[r] = Cached(req[q])
  PROVE  EntryInv(cache[r])'
<1> USE TimesAssumption DEF Secret, Time, NoSecret
<1> DEFINE h == req[q]
<1>1. /\ h.pc = "got" /\ h \in Handler /\ retiredAt' = retiredAt /\ clock' = clock
      /\ minted <= minted' /\ minted' \in Nat /\ minted \in Secret /\ clock \in Nat
      /\ HandlerInv(h)
  BY DEF IInv, TypeOK, Compare, Evolves
<1>2. h.snap \in Snapshot /\ h.at \in Nat
  BY <1>1 DEF Handler, HandlerRecord
<1>3. h.snap.current \in 1..minted /\ LiveAt(h.snap.current, h.at) /\ h.at <= clock
  BY <1>1 DEF HandlerInv, SnapshotInv
<1>4. /\ Cached(h).secret = h.snap.current /\ Cached(h).until \in Nat
      /\ Cached(h).until <= h.at + CacheTTL
  BY <1>2 DEF Cached, Snapshot
<1>5. retiredAt[h.snap.current] \in Time \cup {Never, Unborn}
  BY <1>1, <1>3 DEF IInv, TypeOK
<1>6. /\ Cached(h).secret <= minted' /\ Cached(h).until <= clock' + CacheTTL
      /\ retiredAt'[Cached(h).secret] # Unborn
      /\ retiredAt'[Cached(h).secret] # Never =>
             Cached(h).until <= retiredAt'[Cached(h).secret] + CacheTTL
  BY <1>1, <1>2, <1>3, <1>4, <1>5 DEF LiveAt, Never, Unborn
<1> QED
  BY <1>6 DEF EntryInv

\* A step changes a replica's entry only by dropping it or by caching a record.
LEMMA CacheSteps ==
  ASSUME TypeOK, [Next]_vars, NEW r \in Replicas
  PROVE  \/ cache'[r] = cache[r]
         \/ cache'[r] = NoEntry
         \/ \E q \in Requests : /\ Compare(q) /\ req[q].snap.found
                                /\ cache'[r] = Cached(req[q])
<1>1. cache \in [Replicas -> CacheEntry]
  BY DEF TypeOK
<1>2. ASSUME NEW q \in Requests, NEW s \in Replicas, NEW kind \in {"verify", "renew"},
             NEW n \in 1..minted, Arrive(q, s, kind, n)
      PROVE  cache'[r] = cache[r] \/ cache'[r] = NoEntry
  BY <1>1, <1>2 DEF Arrive
<1>3. ASSUME NEW q \in Requests, Compare(q)
      PROVE  \/ cache'[r] = cache[r] \/ cache'[r] = NoEntry
             \/ req[q].snap.found /\ cache'[r] = Cached(req[q])
  BY <1>1, <1>3 DEF Compare
<1>4. ASSUME NEW s \in Replicas, Forget(s) \/ Evict(s) \/ Restart(s)
      PROVE  cache'[r] = cache[r] \/ cache'[r] = NoEntry
  BY <1>1, <1>4 DEF Forget, Evict, Restart
<1>5. \/ cache' = cache
      \/ \E q \in Requests, s \in Replicas, kind \in {"verify", "renew"}, n \in 1..minted :
             Arrive(q, s, kind, n)
      \/ \E q \in Requests : Compare(q)
      \/ \E s \in Replicas : Forget(s) \/ Evict(s) \/ Restart(s)
  BY DEF Next, HandlerStep, Get, Promote, Stage, Flag, Fail, Reply, Issue, Revoke, Purge,
         Tick, vars
<1> QED
  BY <1>2, <1>3, <1>4, <1>5

LEMMA EntryInvStep ==
  ASSUME IInv, TypeOK', Evolves, [Next]_vars
  PROVE  \A r \in Replicas : EntryInv(cache[r])'
<1> SUFFICES ASSUME NEW r \in Replicas PROVE EntryInv(cache[r])'
  OBVIOUS
<1>0. TypeOK /\ EntryInv(cache[r])
  BY DEF IInv
<1>1. CASE cache'[r] = cache[r]
  BY <1>0, <1>1, EntryFrame
<1>2. CASE cache'[r] = NoEntry
  BY <1>2 DEF NoEntry, EntryInv, NoSecret
<1>3. ASSUME NEW q \in Requests, Compare(q), req[q].snap.found, cache'[r] = Cached(req[q])
      PROVE  EntryInv(cache[r])'
  BY <1>3, CachedInv
<1> QED
  BY <1>0, <1>1, <1>2, <1>3, CacheSteps

-----------------------------------------------------------------------------
(* Where a step takes the item and a handler: the moves the two relations    *)
(* Succeeds and Expires depend on                                            *)

SameSecrets == /\ item'.current = item.current /\ item'.expiresAt = item.expiresAt
               /\ item'.pending = item.pending
               /\ item'.pendingExpiresAt = item.pendingExpiresAt
IssuesSecret == /\ item'.current = minted + 1 /\ item'.expiresAt = clock + Lifetime
                /\ item'.pending = NoSecret
PromotesSecret(q) == /\ req[q].pc = "promote" /\ PromoteHolds(req[q])
                     /\ item'.current = req[q].snap.pending
                     /\ item'.expiresAt = req[q].snap.pendingExpiresAt
                     /\ item'.pending = NoSecret
StagesSecret(q) == /\ req[q].pc = "stage" /\ StageHolds(req[q])
                   /\ item'.current = item.current /\ item'.expiresAt = item.expiresAt
                   /\ item'.pending = req[q].fresh
                   /\ item'.pendingExpiresAt = req[q].at + Lifetime

LEMMA ItemMoves ==
  ASSUME TypeOK, [Next]_vars
  PROVE  \/ SameSecrets
         \/ item'.current = NoSecret /\ item'.pending = NoSecret
         \/ IssuesSecret
         \/ \E q \in Requests : PromotesSecret(q) \/ StagesSecret(q)
<1>0. item \in Item
  BY DEF TypeOK
<1>1. ASSUME NEW q \in Requests, Promote(q)
      PROVE  SameSecrets \/ PromotesSecret(q)
  BY <1>0, <1>1 DEF Promote, PromotedItem, SameSecrets, PromotesSecret
<1>2. ASSUME NEW q \in Requests, Stage(q)
      PROVE  SameSecrets \/ StagesSecret(q)
  BY <1>0, <1>2 DEF Stage, StagedItem, SameSecrets, StagesSecret, Item
<1>3. ASSUME NEW q \in Requests, Flag(q)
      PROVE  SameSecrets
  BY <1>0, <1>3 DEF Flag, FlaggedItem, SameSecrets, Item
<1>4. CASE Issue
  BY <1>4 DEF Issue, NoItem, IssuesSecret
<1>5. ASSUME NEW r \in Replicas, Revoke(r)
      PROVE  SameSecrets
  BY <1>0, <1>5 DEF Revoke, SameSecrets, Item
<1>6. CASE Purge
  BY <1>6 DEF Purge, NoItem
<1>7. CASE item' = item
  BY <1>7 DEF SameSecrets
<1>8. \/ item' = item
      \/ \E q \in Requests : Promote(q) \/ Stage(q) \/ Flag(q)
      \/ \E r \in Replicas : Revoke(r)
      \/ Issue \/ Purge
  BY DEF Next, HandlerStep, Arrive, Get, Compare, Fail, Reply, Forget, Evict, Restart,
         Tick, vars
<1> QED
  BY <1>1, <1>2, <1>3, <1>4, <1>5, <1>6, <1>7, <1>8

SameHandler(p) ==
    /\ req'[p].pc = req[p].pc /\ req'[p].call = req[p].call /\ req'[p].at = req[p].at
    /\ req'[p].snap = req[p].snap /\ req'[p].fresh = req[p].fresh
    /\ req'[p].expiresAt = req[p].expiresAt
Reads(p) == req'[p].pc = "got" /\ req'[p].snap = ReadItem
Chooses(p) == /\ req[p].pc = "got" /\ req'[p].pc = "promote"
              /\ req'[p].snap = PromotionOf(req[p].snap)
Mints(p) == /\ minted < MaxSecret
            /\ req'[p].pc = "stage" /\ req'[p].fresh = minted + 1 /\ req'[p].at = clock
            /\ Expires(req'[p].call.secret, req'[p].expiresAt)
            /\ req'[p].expiresAt - clock <= RenewWindow
            /\ \A q \in Requests \ {p} : req'[q] = req[q]
Quiet(p) == req'[p].pc \notin {"got", "promote", "stage"}
HandlerMove(p) == SameHandler(p) \/ Quiet(p) \/ Reads(p) \/ Chooses(p) \/ Mints(p)

LEMMA AuthenticatedMoves ==
  ASSUME TypeOK, NEW q \in Requests, NEW call, NEW e, NEW promoted,
         Authenticated(q, call, e, promoted), Expires(call.secret, e) \/ promoted,
         NEW p \in Requests
  PROVE  HandlerMove(p)
<1> USE DEF HandlerMove
<1>0. req \in [Requests -> Handler]
  BY DEF TypeOK
<1>1. CASE p # q
  <2>1. req'[p] = req[p]
    BY <1>0, <1>1 DEF Authenticated
  <2> QED
    BY <2>1 DEF SameHandler
<1>2. CASE p = q
  <2>1. CASE req' = [req EXCEPT ![q] = Accepted(call, e)]
    BY <1>0, <1>2, <2>1 DEF Accepted, Quiet
  <2>2. CASE req' = [req EXCEPT ![q] = Idle]
    BY <1>0, <1>2, <2>2 DEF Idle, Working, Quiet
  <2>3. CASE /\ RenewalDue(e, promoted) /\ minted < MaxSecret
             /\ req' = [req EXCEPT ![q] = Staging(call, e)]
    <3>1. req'[p] = Staging(call, e) /\ \A x \in Requests \ {p} : req'[x] = req[x]
      BY <1>0, <1>2, <2>3
    <3>2. Expires(call.secret, e) /\ e - clock <= RenewWindow
      BY <2>3 DEF RenewalDue
    <3>3. /\ req'[p].pc = "stage" /\ req'[p].fresh = minted + 1 /\ req'[p].at = clock
          /\ req'[p].call = call /\ req'[p].expiresAt = e
      BY <3>1 DEF Staging
    <3>4. Expires(req'[p].call.secret, req'[p].expiresAt) /\ req'[p].expiresAt - clock <= RenewWindow
      BY <3>2, <3>3
    <3> QED
      BY <2>3, <3>1, <3>3, <3>4 DEF Mints
  <2> QED
    BY <2>1, <2>2, <2>3 DEF Authenticated
<1> QED
  BY <1>1, <1>2

LEMMA HandlerMoves ==
  ASSUME TypeOK, [Next]_vars, NEW p \in Requests
  PROVE  HandlerMove(p)
<1> USE DEF HandlerMove
<1>0. req \in [Requests -> Handler] /\ req[p] \in Handler
  BY DEF TypeOK
<1>1. CASE req'[p] = req[p]
  BY <1>1 DEF SameHandler
<1>2. CASE req'[p] = Idle
  BY <1>2 DEF Idle, Working, Quiet
<1>3. CASE req' = [req EXCEPT ![p].retried = TRUE]
  BY <1>0, <1>3 DEF SameHandler, Handler, HandlerRecord
<1>4. ASSUME NEW q \in Requests, NEW r \in Replicas, NEW kind \in {"verify", "renew"},
             NEW s \in 1..minted, Arrive(q, r, kind, s)
      PROVE  HandlerMove(p)
  <2> DEFINE call == [kind |-> kind, rep |-> r, secret |-> s, arrived |-> clock]
  <2>1. CASE CacheHit(r, s)
    <3>1. Expires(call.secret, cache[r].expiresAt)
      BY <2>1 DEF CacheHit, Expires
    <3>2. Authenticated(q, call, cache[r].expiresAt, FALSE)
      BY <1>4, <2>1 DEF Arrive
    <3> HIDE DEF call
    <3> QED
      BY <3>1, <3>2, AuthenticatedMoves
  <2>2. CASE ~CacheHit(r, s)
    <3>1. req' = [req EXCEPT ![q] = Working("get", call, 0, clock, NoSnapshot)]
      BY <1>4, <2>2 DEF Arrive
    <3>2. CASE p # q
      BY <1>0, <1>1, <3>1, <3>2
    <3>3. CASE p = q
      BY <1>0, <3>1, <3>3 DEF Working, Quiet
    <3> QED
      BY <3>2, <3>3
  <2> QED
    BY <2>1, <2>2
<1>5. ASSUME NEW q \in Requests, Compare(q)
      PROVE  HandlerMove(p)
  <2> DEFINE h == req[q]
  <2>1. CASE /\ MatchesCurrent(h)
             /\ Authenticated(q, h.call, h.snap.expiresAt, h.attempt > 0)
    <3>1. Expires(h.call.secret, h.snap.expiresAt)
      BY <1>5, <2>1 DEF Compare, MatchesCurrent, Expires
    <3> HIDE DEF h
    <3> QED
      BY <2>1, <3>1, AuthenticatedMoves
  <2>2. CASE req' = [req EXCEPT ![q] = Idle]
    BY <1>0, <1>1, <1>2, <2>2
  <2>3. CASE req' = [req EXCEPT ![q] = Working("flag", h.call, 0, 0, NoSnapshot)]
    BY <1>0, <1>1, <2>3 DEF Working, Quiet
  <2>4. CASE req' = [req EXCEPT ![q] =
                        Working("promote", h.call, 0, clock, PromotionOf(h.snap))]
    BY <1>0, <1>1, <1>5, <2>4 DEF Working, Compare, Chooses
  <2> QED
    BY <1>5, <2>1, <2>2, <2>3, <2>4 DEF Compare
<1>6. ASSUME NEW q \in Requests, Promote(q)
      PROVE  HandlerMove(p)
  <2> DEFINE h == req[q]
             promoted == TRUE
  <2>1. CASE Authenticated(q, h.call, h.snap.pendingExpiresAt, promoted)
    <3>1. promoted
      OBVIOUS
    <3> HIDE DEF h, promoted
    <3> QED
      BY <2>1, <3>1, AuthenticatedMoves
  <2>2. CASE req' = [req EXCEPT ![q] = Working("get", h.call, 1, clock, NoSnapshot)]
    BY <1>0, <1>1, <2>2 DEF Working, Quiet
  <2>3. CASE req' = [req EXCEPT ![q].retried = TRUE]
    BY <1>0, <1>1, <1>3, <2>3
  <2> QED
    BY <1>6, <2>1, <2>2, <2>3 DEF Promote
<1>7. ASSUME NEW q \in Requests, Get(q)
      PROVE  HandlerMove(p)
  BY <1>0, <1>1, <1>7 DEF Get, Working, Reads
<1>8. ASSUME NEW q \in Requests, Stage(q) \/ Flag(q) \/ Fail(q) \/ Reply(q)
      PROVE  HandlerMove(p)
  BY <1>0, <1>1, <1>2, <1>3, <1>8 DEF Stage, Flag, Fail, Reply
<1>9. ASSUME NEW r \in Replicas, Restart(r)
      PROVE  HandlerMove(p)
  BY <1>1, <1>2, <1>9 DEF Restart
<1>10. \/ req' = req
       \/ \E q \in Requests, r \in Replicas, kind \in {"verify", "renew"}, s \in 1..minted :
              Arrive(q, r, kind, s)
       \/ \E q \in Requests : HandlerStep(q)
       \/ \E r \in Replicas : Restart(r)
  BY DEF Next, Issue, Revoke, Forget, Evict, Purge, Tick, vars
<1> QED
  BY <1>1, <1>4, <1>5, <1>6, <1>7, <1>8, <1>9, <1>10 DEF HandlerStep

LEMMA SucceedsMinted ==
  ASSUME IInv, NEW f \in 1..MaxSecret, NEW c \in Secret, Succeeds(f, c)
  PROVE  f <= minted
<1> USE TimesAssumption DEF Secret, NoSecret
<1>1. TypeOK /\ ItemInv /\ minted \in Nat /\ item \in Item
  BY DEF IInv, TypeOK
<1>2. CASE item.pending = f
  BY <1>1, <1>2 DEF ItemInv
<1>3. ASSUME NEW q \in Requests, req[q].pc \in {"got", "promote"}, req[q].snap.pending = f
      PROVE  f <= minted
  BY <1>1, <1>3 DEF IInv, HandlerInv, SnapshotInv
<1>4. ASSUME NEW q \in Requests, req[q].pc = "stage", req[q].fresh = f
      PROVE  f <= minted
  BY <1>1, <1>4 DEF IInv, HandlerInv
<1> QED
  BY <1>2, <1>3, <1>4 DEF Succeeds

\* The only new predecessor a step creates is that of the secret it mints.
LEMMA SucceedsStep ==
  ASSUME IInv, TypeOK', [Next]_vars, NEW f \in 1..MaxSecret, NEW c \in Secret,
         Succeeds(f, c)'
  PROVE  \/ Succeeds(f, c)
         \/ \E p \in Requests : Mints(p) /\ f = minted + 1 /\ c = req'[p].call.secret
<1> USE TimesAssumption DEF Secret, NoSecret
<1>0. TypeOK /\ ItemInv /\ \A q \in Requests : HandlerInv(req[q])
  BY DEF IInv
<1>1. CASE item'.pending = f /\ item'.current = c
  <2>1. CASE SameSecrets
    BY <1>1, <2>1 DEF SameSecrets, Succeeds
  <2>2. ASSUME NEW q \in Requests, StagesSecret(q)
        PROVE  Succeeds(f, c)
    BY <1>1, <2>2 DEF StagesSecret, StageHolds, Succeeds
  <2>3. SameSecrets \/ \E q \in Requests : StagesSecret(q)
    BY <1>0, <1>1, ItemMoves DEF IssuesSecret, PromotesSecret
  <2> QED
    BY <2>1, <2>2, <2>3
<1>2. ASSUME NEW p \in Requests,
             \/ /\ req'[p].pc \in {"got", "promote"}
                /\ req'[p].snap.pending = f /\ req'[p].snap.current = c
             \/ req'[p].pc = "stage" /\ req'[p].fresh = f /\ req'[p].call.secret = c
      PROVE  \/ Succeeds(f, c)
             \/ Mints(p) /\ f = minted + 1 /\ c = req'[p].call.secret
  <2>1. CASE SameHandler(p)
    BY <1>2, <2>1 DEF SameHandler, Succeeds
  <2>2. CASE Reads(p)
    <3>1. ReadItem.pending = f /\ ReadItem.current = c
      BY <1>2, <2>2 DEF Reads
    <3>2. item.pending = f /\ item.current = c
      BY <3>1 DEF ReadItem, NoSnapshot
    <3> QED
      BY <3>2 DEF Succeeds
  <2>3. CASE Chooses(p)
    BY <1>2, <2>3 DEF Chooses, PromotionOf, Succeeds
  <2>4. CASE Mints(p)
    BY <1>2, <2>4 DEF Mints
  <2>5. ~Quiet(p)
    BY <1>2 DEF Quiet
  <2> QED
    BY <1>0, <2>1, <2>2, <2>3, <2>4, <2>5, HandlerMoves DEF HandlerMove
<1>3. \/ item'.pending = f /\ item'.current = c
      \/ \E p \in Requests :
             \/ /\ req'[p].pc \in {"got", "promote"}
                /\ req'[p].snap.pending = f /\ req'[p].snap.current = c
             \/ req'[p].pc = "stage" /\ req'[p].fresh = f /\ req'[p].call.secret = c
  BY DEF Succeeds
<1> QED
  BY <1>1, <1>2, <1>3

LEMMA OnePredecessorStep ==
  ASSUME IInv, TypeOK', [Next]_vars
  PROVE  OnePredecessor'
<1> USE TimesAssumption DEF Secret, NoSecret
<1> SUFFICES ASSUME NEW f \in 1..MaxSecret, NEW c \in Secret, NEW d \in Secret,
                    Succeeds(f, c)', Succeeds(f, d)'
             PROVE  c = d
  BY DEF OnePredecessor
<1>0. minted \in Nat /\ OnePredecessor
  BY DEF IInv, TypeOK
<1>1. CASE f <= minted
  <2>1. Succeeds(f, c) /\ Succeeds(f, d)
    BY <1>0, <1>1, SucceedsStep
  <2> QED
    BY <1>0, <2>1 DEF OnePredecessor
<1>2. CASE ~(f <= minted)
  <2>1. ~Succeeds(f, c) /\ ~Succeeds(f, d)
    BY <1>2, SucceedsMinted
  <2>2. PICK p \in Requests : Mints(p) /\ c = req'[p].call.secret
    BY <2>1, SucceedsStep
  <2>3. PICK q \in Requests : Mints(q) /\ d = req'[q].call.secret
    BY <2>1, SucceedsStep
  <2>4. p = q
    <3>1. ASSUME p # q PROVE FALSE
      <4>1. req[q].pc = "stage" /\ req[q].fresh = minted + 1
        BY <2>2, <2>3, <3>1 DEF Mints
      <4> QED
        BY <1>0, <4>1 DEF IInv, HandlerInv
    <3> QED
      BY <3>1
  <2> QED
    BY <2>2, <2>3, <2>4
<1> QED
  BY <1>1, <1>2

LEMMA ExpiresMinted ==
  ASSUME IInv, NEW s \in 1..MaxSecret, NEW e \in Time, Expires(s, e)
  PROVE  s <= minted
<1> USE TimesAssumption DEF Secret, NoSecret
<1>1. TypeOK /\ ItemInv /\ minted \in Nat /\ item \in Item
  BY DEF IInv, TypeOK
<1>2. CASE item.current = s \/ item.pending = s
  BY <1>1, <1>2 DEF ItemInv
<1>3. ASSUME NEW r \in Replicas, cache[r].secret = s
      PROVE  s <= minted
  BY <1>1, <1>3 DEF IInv, EntryInv
<1>4. ASSUME NEW q \in Requests,
             \/ req[q].pc = "got" /\ req[q].snap.current = s
             \/ req[q].pc \in {"got", "promote"} /\ req[q].snap.pending = s
             \/ req[q].pc = "stage" /\ (req[q].call.secret = s \/ req[q].fresh = s)
      PROVE  s <= minted
  BY <1>1, <1>4 DEF IInv, HandlerInv, SnapshotInv
<1> QED
  BY <1>2, <1>3, <1>4 DEF Expires

\* What req[p] contributes to Expires.
HandlerExpires(p, s, e) ==
    \/ req[p].pc = "got" /\ req[p].snap.current = s /\ req[p].snap.expiresAt = e
    \/ /\ req[p].pc \in {"got", "promote"}
       /\ req[p].snap.pending = s /\ req[p].snap.pendingExpiresAt = e
    \/ req[p].pc = "stage" /\ req[p].call.secret = s /\ req[p].expiresAt = e
    \/ req[p].pc = "stage" /\ req[p].fresh = s /\ req[p].at + Lifetime = e

LEMMA HandlerExpiresStep ==
  ASSUME IInv, TypeOK', [Next]_vars, NEW s \in 1..MaxSecret, NEW e \in Time,
         NEW p \in Requests, HandlerExpires(p, s, e)'
  PROVE  Expires(s, e) \/ (s = minted + 1 /\ e = clock + Lifetime)
<1> USE TimesAssumption DEF Secret, NoSecret, HandlerExpires
<1>0. TypeOK
  BY DEF IInv
<1>1. CASE SameHandler(p)
  BY <1>1 DEF SameHandler, Expires
<1>2. CASE Reads(p)
  <2>1. \/ ReadItem.current = s /\ ReadItem.expiresAt = e
        \/ ReadItem.pending = s /\ ReadItem.pendingExpiresAt = e
    BY <1>2 DEF Reads
  <2>2. \/ item.current = s /\ item.expiresAt = e
        \/ item.pending = s /\ item.pendingExpiresAt = e
    BY <2>1 DEF ReadItem, NoSnapshot
  <2> QED
    BY <2>2 DEF Expires
<1>3. CASE Chooses(p)
  BY <1>3 DEF Chooses, PromotionOf, Expires
<1>4. CASE Mints(p)
  BY <1>4 DEF Mints
<1>5. ~Quiet(p)
  BY DEF Quiet
<1> QED
  BY <1>0, <1>1, <1>2, <1>3, <1>4, <1>5, HandlerMoves DEF HandlerMove

\* The only new expiry a step creates is that of the secret it mints or issues.
LEMMA ExpiresStep ==
  ASSUME IInv, TypeOK', [Next]_vars, NEW s \in 1..MaxSecret, NEW e \in Time,
         Expires(s, e)'
  PROVE  Expires(s, e) \/ (s = minted + 1 /\ e = clock + Lifetime)
<1> USE TimesAssumption DEF Secret, NoSecret
<1>0. TypeOK
  BY DEF IInv
<1>1. CASE \/ item'.current = s /\ item'.expiresAt = e
           \/ item'.pending = s /\ item'.pendingExpiresAt = e
  <2>1. CASE SameSecrets
    BY <1>1, <2>1 DEF SameSecrets, Expires
  <2>2. ASSUME NEW q \in Requests, PromotesSecret(q) \/ StagesSecret(q)
        PROVE  Expires(s, e)
    BY <1>1, <2>2 DEF PromotesSecret, StagesSecret, Expires
  <2>3. CASE IssuesSecret
    BY <1>1, <2>3 DEF IssuesSecret
  <2> QED
    BY <1>0, <1>1, <2>1, <2>2, <2>3, ItemMoves
<1>2. ASSUME NEW r \in Replicas, cache'[r].secret = s, cache'[r].expiresAt = e
      PROVE  Expires(s, e)
  <2>1. CASE cache'[r] = cache[r]
    BY <1>2, <2>1 DEF Expires
  <2>2. cache'[r] # NoEntry
    BY <1>2 DEF NoEntry
  <2>3. ASSUME NEW q \in Requests, Compare(q), cache'[r] = Cached(req[q])
        PROVE  Expires(s, e)
    BY <1>2, <2>3 DEF Compare, Cached, Expires
  <2> QED
    BY <1>0, <2>1, <2>2, <2>3, CacheSteps
<1>3. ASSUME NEW p \in Requests, HandlerExpires(p, s, e)'
      PROVE  Expires(s, e) \/ (s = minted + 1 /\ e = clock + Lifetime)
  BY <1>3, HandlerExpiresStep
<1>4. \/ item'.current = s /\ item'.expiresAt = e
      \/ item'.pending = s /\ item'.pendingExpiresAt = e
      \/ \E r \in Replicas : cache'[r].secret = s /\ cache'[r].expiresAt = e
      \/ \E p \in Requests : HandlerExpires(p, s, e)'
  BY DEF Expires, HandlerExpires
<1> QED
  BY <1>1, <1>2, <1>3, <1>4

LEMMA OneExpiryStep ==
  ASSUME IInv, TypeOK', [Next]_vars
  PROVE  OneExpiry'
<1> USE TimesAssumption
<1> SUFFICES ASSUME NEW s \in 1..MaxSecret, NEW e \in Time, NEW g \in Time,
                    Expires(s, e)', Expires(s, g)'
             PROVE  e = g
  BY DEF OneExpiry
<1>0. minted \in Nat /\ OneExpiry
  BY DEF IInv, TypeOK, Secret
<1>1. CASE s <= minted
  <2>1. Expires(s, e) /\ Expires(s, g)
    BY <1>0, <1>1, ExpiresStep
  <2> QED
    BY <1>0, <2>1 DEF OneExpiry
<1>2. CASE ~(s <= minted)
  <2>1. ~Expires(s, e) /\ ~Expires(s, g)
    BY <1>2, ExpiresMinted
  <2> QED
    BY <2>1, ExpiresStep
<1> QED
  BY <1>1, <1>2

-----------------------------------------------------------------------------
(* The purge time, the inductive invariant and the theorems *)

\* A staging that the store lets through renews a secret near its expiry.
LEMMA StagedExpiry ==
  ASSUME IInv, NEW q \in Requests, StagesSecret(q)
  PROVE  /\ req[q].at \in Nat /\ req[q].at <= clock /\ item.expiresAt \in Nat
         /\ item.expiresAt - req[q].at <= RenewWindow
<1> DEFINE h == req[q]
<1>1. TypeOK /\ h \in Handler /\ item \in Item /\ HandlerInv(h) /\ h.pc = "stage"
  BY DEF IInv, TypeOK, StagesSecret
<1>2. /\ h.at \in Nat /\ h.expiresAt \in Time /\ item.expiresAt \in Time
      /\ item.current = h.call.secret
  BY <1>1 DEF Handler, HandlerRecord, Item, Time, StagesSecret, StageHolds
<1>3. /\ h.call.secret \in 1..MaxSecret /\ h.at <= clock /\ h.expiresAt - h.at <= RenewWindow
  BY <1>1, TimesAssumption DEF HandlerInv, IInv, TypeOK, Secret
<1>4. Expires(h.call.secret, h.expiresAt) /\ Expires(h.call.secret, item.expiresAt)
  BY <1>1, <1>2 DEF Expires
<1>5. h.expiresAt = item.expiresAt
  BY <1>2, <1>3, <1>4 DEF IInv, OneExpiry
<1> QED
  BY <1>2, <1>3, <1>5 DEF Time

LEMMA PurgeStep ==
  ASSUME IInv, TypeOK', [Next]_vars
  PROVE  PurgeOutlivesSecrets'
<1> USE TimesAssumption DEF NoSecret, Time
<1>0. TypeOK /\ PurgeOutlivesSecrets /\ item \in Item /\ clock \in Nat
  BY DEF IInv, TypeOK
<1>1. ASSUME NEW q \in Requests, Promote(q)
      PROVE  PurgeOutlivesSecrets'
  <2>1. req[q] \in Handler /\ req[q].snap.pendingExpiresAt \in Nat
    BY <1>0 DEF TypeOK, Handler, HandlerRecord, Snapshot
  <2> QED
    BY <1>0, <1>1, <2>1 DEF Promote, PromotedItem, PurgeOutlivesSecrets
<1>2. ASSUME NEW q \in Requests, Stage(q)
      PROVE  PurgeOutlivesSecrets'
  <2>1. CASE StageHolds(req[q])
    <3>1. item' = StagedItem(req[q])
      BY <1>2, <2>1 DEF Stage
    <3>2. StagesSecret(q)
      BY <1>0, <1>2, <2>1, <3>1 DEF Stage, StagedItem, StagesSecret, Item
    <3>3. /\ req[q].at \in Nat /\ item.expiresAt \in Nat
          /\ item.expiresAt - req[q].at <= RenewWindow
      BY <3>2, StagedExpiry
    <3>4. /\ item'.expiresAt = item.expiresAt
          /\ item'.pendingExpiresAt = req[q].at + Lifetime
          /\ item'.purgeAt = req[q].at + Lifetime + PurgeGrace
      BY <1>0, <3>1 DEF StagedItem, Item
    <3> QED
      BY <3>3, <3>4 DEF PurgeOutlivesSecrets
  <2>2. CASE ~StageHolds(req[q])
    BY <1>0, <1>2, <2>2 DEF Stage, PurgeOutlivesSecrets
  <2> QED
    BY <2>1, <2>2
<1>3. ASSUME NEW q \in Requests, Flag(q)
      PROVE  PurgeOutlivesSecrets'
  BY <1>0, <1>3 DEF Flag, FlaggedItem, PurgeOutlivesSecrets, Item
<1>4. CASE Issue
  BY <1>0, <1>4 DEF Issue, NoItem, PurgeOutlivesSecrets
<1>5. ASSUME NEW r \in Replicas, Revoke(r)
      PROVE  PurgeOutlivesSecrets'
  BY <1>0, <1>5 DEF Revoke, PurgeOutlivesSecrets, Item
<1>6. CASE Purge
  BY <1>6 DEF Purge, NoItem, PurgeOutlivesSecrets
<1>7. CASE item' = item
  BY <1>0, <1>7 DEF PurgeOutlivesSecrets
<1>8. \/ item' = item
      \/ \E q \in Requests : Promote(q) \/ Stage(q) \/ Flag(q)
      \/ \E r \in Replicas : Revoke(r)
      \/ Issue \/ Purge
  BY DEF Next, HandlerStep, Arrive, Get, Compare, Fail, Reply, Forget, Evict, Restart,
         Tick, vars
<1> QED
  BY <1>1, <1>2, <1>3, <1>4, <1>5, <1>6, <1>7, <1>8

LEMMA InitInv == Init => IInv
<1> SUFFICES ASSUME Init PROVE IInv
  OBVIOUS
<1>1. TypeOK
  BY InitType
<1>2. ItemInv /\ PurgeOutlivesSecrets
  BY DEF Init, NoItem, ItemInv, PurgeOutlivesSecrets
<1>3. \A q \in Requests : req[q] = Idle /\ req[q].pc = "idle"
  BY DEF Init, Idle, Working
<1>4. \A q \in Requests : HandlerInv(req[q])
  BY <1>3 DEF HandlerInv, SnapshotInv, Authenticates
<1>5. \A r \in Replicas : cache[r].secret = NoSecret
  BY DEF Init, NoEntry
<1>6. \A r \in Replicas : EntryInv(cache[r])
  BY <1>5 DEF EntryInv
<1>7. item.current = NoSecret /\ item.pending = NoSecret
  BY DEF Init, NoItem
<1>8. OnePredecessor
  BY <1>3, <1>7 DEF OnePredecessor, Succeeds, NoSecret
<1>9. OneExpiry
  BY <1>3, <1>5, <1>7 DEF OneExpiry, Expires, NoSecret
<1> QED
  BY <1>1, <1>2, <1>4, <1>6, <1>8, <1>9 DEF IInv

LEMMA NextInv == IInv /\ [Next]_vars => IInv'
<1> SUFFICES ASSUME IInv, [Next]_vars PROVE IInv'
  OBVIOUS
<1>1. TypeOK
  BY DEF IInv
<1>2. TypeOK' /\ Evolves
  BY <1>1, NextType, StepEvolves
<1>3. ItemInv' /\ PurgeOutlivesSecrets' /\ OnePredecessor' /\ OneExpiry'
  BY <1>2, ItemInvStep, PurgeStep, OnePredecessorStep, OneExpiryStep
<1>4. (\A q \in Requests : HandlerInv(req[q])') /\ (\A r \in Replicas : EntryInv(cache[r])')
  BY <1>2, HandlerInvStep, EntryInvStep
<1> QED
  BY <1>2, <1>3, <1>4 DEF IInv

\* The strengthening behind every theorem below is an invariant of DeviceTokens.
THEOREM InductiveInvariant == Spec => []IInv
  BY InitInv, NextInv, PTL DEF Spec

(***************************************************************************)
(* A request that arrives CacheTTL after its secret stopped being live, or *)
(* after the secret's expiry, is never accepted, whatever the caches hold  *)
(* and whatever reads are in flight (deviceTokens.js 57-76).               *)
(***************************************************************************)
THEOREM StaleNeverAccepted == Spec => []NoStaleAcceptance
<1>1. IInv => NoStaleAcceptance
  BY DEF IInv, HandlerInv, NoStaleAcceptance
<1> QED
  BY <1>1, InductiveInvariant, PTL

\* The item outlives every secret it holds (deviceTokens.js 11).
THEOREM PurgeIsLate == Spec => []PurgeOutlivesSecrets
<1>1. IInv => PurgeOutlivesSecrets
  BY DEF IInv
<1> QED
  BY <1>1, InductiveInvariant, PTL

(***************************************************************************)
(* A rotation makes the pending secret current and records the very secret *)
(* it replaces, although promote writes previousHash from a record that    *)
(* may be stale (deviceTokenStore.js 74-83).                               *)
(***************************************************************************)
LEMMA RotationStep ==
  ASSUME IInv, [Next]_vars, Rotates
  PROVE  /\ item'.current = item.pending /\ item'.current > item.current
         /\ item'.previous = item.current
<1> USE DEF Rotates
<1>0. TypeOK /\ ItemInv /\ item \in Item
  BY DEF IInv, TypeOK
<1>1. PICK q \in Requests : Promote(q)
  <2>1. ~Issue
    BY <1>0 DEF Issue, ItemInv
  <2>2. ASSUME NEW q \in Requests, Stage(q) \/ Flag(q) PROVE item'.current = item.current
    BY <1>0, <2>2 DEF Stage, StagedItem, Flag, FlaggedItem, Item
  <2>3. ASSUME NEW r \in Replicas, Revoke(r) PROVE item'.current = item.current
    BY <1>0, <2>3 DEF Revoke, Item
  <2>4. ~Purge
    BY DEF Purge, NoItem
  <2>5. \/ item' = item
        \/ \E q \in Requests : Promote(q) \/ Stage(q) \/ Flag(q)
        \/ \E r \in Replicas : Revoke(r)
        \/ Issue \/ Purge
    BY DEF Next, HandlerStep, Arrive, Get, Compare, Fail, Reply, Forget, Evict, Restart,
           Tick, vars
  <2> QED
    BY <2>1, <2>2, <2>3, <2>4, <2>5
<1>2. PromoteHolds(req[q]) /\ item' = PromotedItem(req[q]) /\ req[q].pc = "promote"
  BY <1>1 DEF Promote
<1>3. /\ item'.current = item.pending /\ item'.previous = item.current
      /\ item.current \in 1..(item.pending - 1) /\ item.pending \in Int
  BY <1>0, <1>2, PromotedPredecessor, TimesAssumption DEF PromotedItem, Item, Secret
<1> QED
  BY <1>3

THEOREM RotationForward == Spec => RotationMovesForward
<1>1. IInv /\ [Next]_vars =>
          [Rotates => /\ item'.current = item.pending
                      /\ item'.current > item.current
                      /\ item'.previous = item.current]_vars
  BY RotationStep
<1> QED
  BY <1>1, InductiveInvariant, PTL DEF Spec, RotationMovesForward

(***************************************************************************)
(* Once revoked, a device stays revoked with the secrets it had, whatever  *)
(* stagings and promotions are on their way (deviceTokenStore.js 64-84).   *)
(***************************************************************************)
LEMMA RevokedStep ==
  ASSUME IInv, [Next]_vars, item.revoked, item'.state = "stored"
  PROVE  /\ item'.revoked
         /\ item'.current = item.current /\ item'.pending = item.pending
<1>0. TypeOK /\ ItemInv /\ item \in Item
  BY DEF IInv, TypeOK
<1>1. ASSUME NEW q \in Requests, Promote(q) \/ Stage(q) PROVE item' = item
  BY <1>1 DEF Promote, PromoteHolds, Stage, StageHolds
<1>2. ASSUME NEW q \in Requests, Flag(q)
      PROVE  item'.revoked = item.revoked /\ item'.current = item.current
             /\ item'.pending = item.pending
  BY <1>0, <1>2 DEF Flag, FlaggedItem, Item
<1>3. ASSUME NEW r \in Replicas, Revoke(r)
      PROVE  item'.revoked /\ item'.current = item.current /\ item'.pending = item.pending
  BY <1>0, <1>3 DEF Revoke, Item
<1>4. ~Issue /\ ~Purge
  BY <1>0 DEF Issue, ItemInv, Purge, NoItem
<1>5. \/ item' = item
      \/ \E q \in Requests : Promote(q) \/ Stage(q) \/ Flag(q)
      \/ \E r \in Replicas : Revoke(r)
      \/ Issue \/ Purge
  BY DEF Next, HandlerStep, Arrive, Get, Compare, Fail, Reply, Forget, Evict, Restart,
         Tick, vars
<1> QED
  BY <1>1, <1>2, <1>3, <1>4, <1>5

THEOREM RevocationFinal == Spec => RevocationIsFinal
<1>1. IInv /\ [Next]_vars =>
          [(item.revoked /\ item'.state = "stored") =>
               /\ item'.revoked
               /\ item'.current = item.current /\ item'.pending = item.pending]_vars
  BY RevokedStep
<1> QED
  BY <1>1, InductiveInvariant, PTL DEF Spec, RevocationIsFinal

(***************************************************************************)
(* No renewal, however late its write and however old the record it went   *)
(* by, replaces a token that has more than RenewWindow left                *)
(* (deviceTokens.js 151).                                                  *)
(***************************************************************************)
THEOREM RenewalIsDue == Spec => NoEarlyRenewal
<1>1. ASSUME IInv, [Next]_vars, item'.pending \notin {item.pending, NoSecret}
      PROVE  item.expiresAt - clock <= RenewWindow
  <2>1. TypeOK /\ clock \in Nat
    BY <1>1 DEF IInv, TypeOK, Time
  <2>2. PICK q \in Requests : StagesSecret(q)
    BY <1>1, <2>1, ItemMoves DEF SameSecrets, IssuesSecret, PromotesSecret
  <2>3. /\ req[q].at \in Nat /\ req[q].at <= clock /\ item.expiresAt \in Nat
        /\ item.expiresAt - req[q].at <= RenewWindow
    BY <1>1, <2>2, StagedExpiry
  <2> QED
    BY <2>1, <2>3, TimesAssumption
<1>2. IInv /\ [Next]_vars =>
          [(item'.pending \notin {item.pending, NoSecret}) =>
               item.expiresAt - clock <= RenewWindow]_vars
  BY <1>1
<1> QED
  BY <1>2, InductiveInvariant, PTL DEF Spec, NoEarlyRenewal

(***************************************************************************)
(* CollectorRenewal: a device's own renewals never lock it out; the token  *)
(* on disk, and the one the running Collector holds, are accepted by the   *)
(* server.                                                                 *)
(***************************************************************************)

-----------------------------------------------------------------------------
(* The inductive invariant.                                                *)

\* The last day on which a run was complete.
LastGood == IF good THEN day ELSE day - bad - 1

Reading == {"catchUp", "unmark", "post", "waiting", "answered", "replace"}
Answered == {"answered", "replace"}
Replaced == {"restart", "finish"}
Locking == {"prepare", "stopped", "written", "rollback"}

\* Tokens are drawn in order, and the client's file only moves on.
OrderInv ==
    /\ file <= drawn /\ server.current <= drawn /\ server.pending <= drawn
    /\ server.pending # NoToken => server.current < server.pending
    /\ collector.held <= file
    /\ \A t \in stragglers : t <= file

Newer(t) == file < t /\ t <= drawn

\* The renewer works on the file it read; its answer is newer.
RenewerInv ==
    /\ renewal.pc \in Reading => renewal.token = file
    /\ renewal.pc \in Answered =>
        renewal.answer \in {NotDue, Unauthorized} \/ Newer(renewal.answer)
    /\ renewal.pc = "replace" => Newer(renewal.answer)
    /\ renewal.pc \in Replaced => renewal.answer = file

\* The installer holds the lock alone and puts back what it found.
InstallerInv ==
    installer.pc \in Locking =>
        renewal.pc = "idle" /\ installer.given = file /\ installer.before = file

Live == collector.running => collector.held = file

\* A Collector behind the file is remembered by the marker, and no request with the
\* file's token was ever sent beside it.
LagInv ==
    /\ renewal.pc \in {"catchUp", "replace", "restart"} => marker
    /\ ~marker => Live
    /\ renewal.pc \in {"unmark", "post", "waiting", "answered", "replace", "finish"} => Live
    /\ file \in stragglers => Live

\* The file's token is the current one, good for the window after the last complete
\* run, or the pending one, as old as that run at most.
FileInv ==
    \/ file = server.current /\ server.expiresAt > LastGood + WindowDays
    \/ /\ file = server.pending /\ file # server.current
       /\ server.pendingExpiresAt >= LastGood + TokenDays

\* A running Collector behind the file holds the token before it.
HeldInv ==
    collector.running /\ collector.held # file =>
        /\ file = server.pending /\ collector.held = server.current
        /\ server.expiresAt > LastGood + WindowDays

\* What the server answered still stands when the run goes on.
AnswerInv ==
    /\ renewal.pc \in Answered /\ renewal.answer \in Token =>
        /\ file = server.current /\ server.pending = renewal.answer
        /\ server.pendingExpiresAt = day + TokenDays
    /\ renewal.pc = "answered" /\ renewal.answer = NotDue =>
        file = server.current /\ server.expiresAt > day + WindowDays
    /\ renewal.pc \in Replaced =>
        \/ file = server.current /\ server.expiresAt = day + TokenDays
        \/ file = server.pending /\ file # server.current /\ server.pendingExpiresAt = day + TokenDays

ServedInv == displaced \/ (FileInv /\ HeldInv /\ AnswerInv)

ClientInv == OrderInv /\ RenewerInv /\ InstallerInv /\ LagInv

CollectorInv == CollectorTypeOK /\ ClientInv /\ ServedInv

-----------------------------------------------------------------------------
(* Types.                                                                  *)

\* The constants, one by one.
LEMMA Times ==
    /\ TokenDays \in Nat /\ WindowDays \in Nat /\ MaxBadDays \in Nat /\ MaxDay \in Nat
    /\ MaxInstalls \in Nat /\ MaxToken \in Nat /\ MaxToken >= 1
    /\ MaxBadDays < WindowDays /\ WindowDays + MaxBadDays + 1 < TokenDays
BY DaysAssumption

\* The fields of the record, the service and the two processes.
LEMMA Fields ==
    ASSUME CollectorTypeOK
    PROVE  /\ day \in Nat /\ bad \in Nat /\ good \in BOOLEAN /\ drawn \in Nat /\ file \in Nat
           /\ file # NoToken
           /\ server.current \in Nat /\ server.pending \in Nat
           /\ server.expiresAt \in Nat /\ server.pendingExpiresAt \in Nat
           /\ collector.running \in BOOLEAN /\ collector.enabled \in BOOLEAN
           /\ collector.held \in Nat
           /\ renewal.token \in Token \cup {NoToken} /\ renewal.answer \in Answer \cup {NoToken}
           /\ \A t \in stragglers : t \in Nat
BY Times DEF CollectorTypeOK, Record, Service, Renewal, Answer, Token, NoToken

\* The service keeps its type, stopped or started.
LEMMA ServiceTypes ==
    ASSUME CollectorTypeOK
    PROVE  /\ StartedFrom(file) \in Service
           /\ [collector EXCEPT !.running = FALSE] \in Service
           /\ [collector EXCEPT !.running = FALSE, !.enabled = FALSE] \in Service
<1>1. collector \in Service /\ file \in Token
    BY DEF CollectorTypeOK
<1>2. StartedFrom(file) \in Service
    BY <1>1 DEF StartedFrom, Service
<1>3. [collector EXCEPT !.running = FALSE] \in Service
    BY <1>1 DEF Service
<1>4. [collector EXCEPT !.running = FALSE, !.enabled = FALSE] \in Service
    BY <1>1 DEF Service
<1> QED
    BY <1>2, <1>3, <1>4

Steps == {"idle", "catchUp", "unmark", "post", "waiting", "answered", "replace", "restart", "finish"}

\* The renewer keeps its type from step to step.
LEMMA RenewalTypes ==
    ASSUME CollectorTypeOK
    PROVE  /\ NoRenewal \in Renewal
           /\ \A pc \in Steps : RenewerAt(pc) \in Renewal
           /\ \A pc \in Steps : [pc |-> pc, token |-> file, answer |-> NoToken] \in Renewal
           /\ \A answer \in Answer :
                [renewal EXCEPT !.pc = "answered", !.answer = answer] \in Renewal
<1>1. renewal \in Renewal /\ file \in Token
    BY DEF CollectorTypeOK
<1>2. NoRenewal \in Renewal
    BY DEF NoRenewal, Renewal
<1>3. \A pc \in Steps : RenewerAt(pc) \in Renewal
    BY <1>1 DEF RenewerAt, Renewal, Steps
<1>4. \A pc \in Steps : [pc |-> pc, token |-> file, answer |-> NoToken] \in Renewal
    BY <1>1 DEF Renewal, Steps
<1>5. \A answer \in Answer : [renewal EXCEPT !.pc = "answered", !.answer = answer] \in Renewal
    BY <1>1 DEF Renewal
<1> QED
    BY <1>2, <1>3, <1>4, <1>5

\* The installer keeps its type from step to step.
LEMMA InstallerTypes ==
    ASSUME CollectorTypeOK
    PROVE  /\ NoInstaller \in Installer
           /\ [NoInstaller EXCEPT !.pc = "read", !.given = file] \in Installer
           /\ [pc |-> "prepare", given |-> file, before |-> file,
               service |-> Found(collector.running, collector.enabled)] \in Installer
           /\ \A pc \in Locking : [installer EXCEPT !.pc = pc] \in Installer
<1>1. /\ installer \in Installer /\ file \in Token
      /\ collector.running \in BOOLEAN /\ collector.enabled \in BOOLEAN
    BY Fields DEF CollectorTypeOK
<1>2. NoInstaller \in Installer
    BY DEF NoInstaller, Installer, Found
<1>3. [NoInstaller EXCEPT !.pc = "read", !.given = file] \in Installer
    BY <1>1 DEF NoInstaller, Installer, Found
<1>4. [pc |-> "prepare", given |-> file, before |-> file,
       service |-> Found(collector.running, collector.enabled)] \in Installer
    BY <1>1 DEF Installer, Found
<1>5. \A pc \in Locking : [installer EXCEPT !.pc = pc] \in Installer
    BY <1>1 DEF Installer, Locking
<1> QED
    BY <1>2, <1>3, <1>4, <1>5

\* What a request may do to the device's record.
Promotes(t) ==
    /\ t = server.pending /\ server.pendingExpiresAt > day
    /\ server' = [current |-> t, expiresAt |-> server.pendingExpiresAt,
                  pending |-> NoToken, pendingExpiresAt |-> 0]

Draws(t) ==
    /\ t = server.current /\ server.expiresAt > day
    /\ drawn < MaxToken /\ drawn' = drawn + 1
    /\ server' = [server EXCEPT !.pending = drawn', !.pendingExpiresAt = day + TokenDays]

\* A use of t promotes it or changes nothing.
LEMMA Uses ==
    ASSUME NEW t, server' = Promoted(t)
    PROVE  \/ Promotes(t) /\ ~IsCurrent(t)
           \/ server' = server /\ (IsPending(t) => IsCurrent(t))
BY DEF Promoted, IsPending, IsCurrent, Promotes

\* A renewal request promotes its token, changes nothing, or mints a replacement.
LEMMA Serves ==
    ASSUME NEW t, NEW answer, Serve(t, answer)
    PROVE  \/ /\ Promotes(t) /\ ~IsCurrent(t) /\ drawn' = drawn /\ answer = NotDue
           \/ /\ server' = server /\ drawn' = drawn
              /\ \/ answer = NotDue /\ IsCurrent(t) /\ ~Due(t)
                 \/ answer = Unauthorized
           \/ Draws(t) /\ answer = drawn'
<1>1. CASE Due(t) /\ drawn < MaxToken
    BY <1>1 DEF Serve, Due, IsCurrent, Draws
<1>2. CASE ~Due(t)
    <2>1. server' = Promoted(t) /\ drawn' = drawn
          /\ answer = IF Accepts(t) THEN NotDue ELSE Unauthorized
        BY <1>2 DEF Serve
    <2>2. CASE Promotes(t) /\ ~IsCurrent(t)
        BY <2>1, <2>2 DEF Promotes, Accepts, IsPending
    <2>3. CASE server' = server /\ (IsPending(t) => IsCurrent(t))
        BY <1>2, <2>1, <2>3 DEF Accepts
    <2> QED
        BY <2>1, <2>2, <2>3, Uses
<1> QED
    BY <1>1, <1>2 DEF Serve

\* The record keeps its type.
LEMMA RecordTypes ==
    ASSUME CollectorTypeOK
    PROVE  /\ \A t \in Token : Promotes(t) => server' \in Record
           /\ \A t : Draws(t) => server' \in Record /\ drawn' \in Token
<1>1. server \in Record /\ drawn \in Token /\ day \in Nat
    BY Fields DEF CollectorTypeOK
<1>2. \A t \in Token : Promotes(t) => server' \in Record
    BY <1>1 DEF Promotes, Record
<1>3. \A t : Draws(t) => drawn' \in Token
    BY <1>1, Times DEF Draws, Token
<1>4. day + TokenDays \in Nat
    BY <1>1, Times
<1>5. \A t : Draws(t) => server' \in Record
    BY <1>1, <1>3, <1>4 DEF Draws, Record
<1> QED
    BY <1>2, <1>3, <1>5

\* The same of a request's answer.
LEMMA ServeTypes ==
    ASSUME CollectorTypeOK, NEW t \in Token, NEW answer, Serve(t, answer)
    PROVE  server' \in Record /\ drawn' \in Token /\ answer \in Answer
<1>1. CASE Promotes(t) /\ drawn' = drawn /\ answer = NotDue
    BY <1>1, RecordTypes DEF CollectorTypeOK, Answer
<1>2. CASE server' = server /\ drawn' = drawn /\ answer \in {NotDue, Unauthorized}
    BY <1>2 DEF CollectorTypeOK, Answer
<1>3. CASE Draws(t) /\ answer = drawn'
    BY <1>3, RecordTypes DEF Answer
<1> QED
    BY <1>1, <1>2, <1>3, Serves

\* Every action keeps the types.
LEMMA TypesKept == ASSUME CollectorTypeOK, ClientInv, CollectorNext PROVE CollectorTypeOK'
<1> USE DEF days, record, clientFiles, install, wire
<1>1. /\ file \in Token /\ file # NoToken /\ renewal.token \in Token \cup {NoToken}
      /\ collector.held \in Token
    BY Fields DEF CollectorTypeOK, Service, Token, NoToken
<1>2. CASE Deliver
    <2>1. server' \in Record
        BY <1>1, <1>2, Uses, RecordTypes DEF Deliver, CollectorTypeOK
    <2> QED
        BY <1>2, <2>1 DEF Deliver, CollectorTypeOK
<1>3. CASE CollectorDies \/ CollectorStarts \/ CollectorReloads
    <2>1. collector' \in Service
        BY <1>3, ServiceTypes DEF CollectorDies, CollectorStarts, CollectorReloads
    <2> QED
        BY <1>3, <2>1 DEF CollectorDies, CollectorStarts, CollectorReloads, CollectorTypeOK
<1>4. CASE RenewStart
    <2>1. renewal' \in Renewal
        BY <1>4, RenewalTypes DEF RenewStart, Steps
    <2> QED
        BY <1>4, <2>1 DEF RenewStart, CollectorTypeOK
<1>5. CASE RenewCatchUp \/ RenewGoLive
    <2>1. collector' \in Service /\ renewal' \in Renewal
        BY <1>5, ServiceTypes, RenewalTypes
           DEF RenewCatchUp, RenewGoLive, RenewRestart, RestartSucceeds, Steps
    <2> QED
        BY <1>5, <2>1 DEF RenewCatchUp, RenewGoLive, RenewRestart, CollectorTypeOK
<1>6. CASE RenewRestartFails
    <2>1. collector' \in Service
        BY <1>6, ServiceTypes DEF RenewRestartFails, RestartFails, CollectorTypeOK
    <2> QED
        BY <1>6, <2>1, RenewalTypes DEF RenewRestartFails, RenewExit, CollectorTypeOK
<1>7. CASE RenewUnmark \/ RenewPost \/ RenewMark
    <2>1. renewal' \in Renewal
        BY <1>7, RenewalTypes DEF RenewUnmark, RenewPost, RenewMark, Steps
    <2> QED
        BY <1>7, <2>1 DEF RenewUnmark, RenewPost, RenewMark, CollectorTypeOK
<1>8. CASE ServeRenewal
    <2>1. renewal.token \in Token
        BY <1>1, <1>8 DEF ServeRenewal, ClientInv, RenewerInv, Reading
    <2>2. PICK answer \in Answer : /\ Serve(renewal.token, answer)
                                   /\ renewal' = [renewal EXCEPT !.pc = "answered", !.answer = answer]
        BY <1>8 DEF ServeRenewal
    <2>3. renewal' \in Renewal /\ server' \in Record /\ drawn' \in Token
        BY <2>1, <2>2, RenewalTypes, ServeTypes
    <2> QED
        BY <1>8, <2>3 DEF ServeRenewal, CollectorTypeOK
<1>9. CASE RenewGivesUp
    <2>1. stragglers' \subseteq Token
        BY <1>1, <1>9 DEF RenewGivesUp, Abandoned, CollectorTypeOK, ClientInv, RenewerInv, Reading
    <2> QED
        BY <1>9, <2>1, RenewalTypes DEF RenewGivesUp, RenewExit, CollectorTypeOK
<1>10. CASE RenewReject \/ RenewNotDue \/ RenewFinish
    BY <1>10, RenewalTypes DEF RenewReject, RenewNotDue, RenewFinish, RenewExit, CollectorTypeOK
<1>11. CASE RenewReplace
    <2>1. renewal' \in Renewal
        BY <1>11, RenewalTypes DEF RenewReplace, Steps
    <2>2. renewal.answer > file /\ renewal.answer \in Answer \cup {NoToken}
        BY <1>11, Fields DEF RenewReplace, ClientInv, RenewerInv, Newer
    <2>3. file' \in Token
        BY <1>1, <1>11, <2>2 DEF RenewReplace, Answer, NotDue, Unauthorized, NoToken, Token
    <2> QED
        BY <1>11, <2>1, <2>3 DEF RenewReplace, CollectorTypeOK
<1>12. CASE ServeStraggler \/ StragglerLost
    <2>1. PICK t \in stragglers :
            /\ stragglers' = stragglers \ {t}
            /\ (server' = server /\ drawn' = drawn) \/ \E answer \in Answer : Serve(t, answer)
        BY <1>12 DEF ServeStraggler, StragglerLost
    <2>2. server' \in Record /\ drawn' \in Token
        BY <2>1, ServeTypes DEF CollectorTypeOK
    <2>3. displaced' \in BOOLEAN
        BY <1>12 DEF ServeStraggler, StragglerLost, CollectorTypeOK
    <2> QED
        BY <1>12, <2>1, <2>2, <2>3 DEF ServeStraggler, StragglerLost, CollectorTypeOK
<1>13. CASE InstallRead \/ InstallLock \/ InstallGivesUp
    <2>1. installer' \in Installer
        BY <1>13, InstallerTypes DEF InstallRead, InstallLock, InstallGivesUp, Reread
    <2>2. installs' \in 0..MaxInstalls
        BY <1>13, Times DEF InstallRead, InstallLock, InstallGivesUp, CollectorTypeOK
    <2> QED
        BY <1>13, <2>1, <2>2 DEF InstallRead, InstallLock, InstallGivesUp, CollectorTypeOK
<1>14. CASE InstallStop \/ InstallFails
    <2>1. collector' \in Service
        BY <1>14, ServiceTypes DEF InstallStop, InstallFails, CollectorTypeOK
    <2>2. installer' \in Installer
        BY <1>14, InstallerTypes DEF InstallStop, InstallFails, Locking
    <2> QED
        BY <1>14, <2>1, <2>2 DEF InstallStop, InstallFails, CollectorTypeOK
<1>15. CASE InstallWrite
    <2>1. installer' \in Installer
        BY <1>15, InstallerTypes DEF InstallWrite, Locking
    <2>2. file' \in Token
        BY <1>1, <1>15 DEF InstallWrite, ClientInv, InstallerInv, Locking
    <2> QED
        BY <1>15, <2>1, <2>2 DEF InstallWrite, CollectorTypeOK
<1>16. CASE InstallStart
    <2>1. collector' \in Service
        BY <1>1, <1>16 DEF InstallStart, Service
    <2> QED
        BY <1>16, <2>1, InstallerTypes DEF InstallStart, CollectorTypeOK
<1>17. CASE InstallRollback
    <2>1. file' \in Token /\ installer.before \in Token
        BY <1>1, <1>17 DEF InstallRollback, ClientInv, InstallerInv, Locking
    <2>2. installer.service.running \in BOOLEAN /\ installer.service.enabled \in BOOLEAN
        BY DEF CollectorTypeOK, Installer
    <2>3. collector' \in Service
        BY <1>1, <1>17, <2>1, <2>2 DEF InstallRollback, Service
    <2> QED
        BY <1>17, <2>1, <2>3, InstallerTypes DEF InstallRollback, CollectorTypeOK
<1>18. CASE NextDay
    <2>0. day < MaxDay /\ day \in 0..MaxDay /\ day' = day + 1 /\ good' = FALSE
        BY <1>18 DEF NextDay, CollectorTypeOK
    <2>1. day' \in 0..MaxDay
        BY <2>0, Times
    <2>2. bad \in 0..MaxBadDays /\ bad' = IF good THEN 0 ELSE bad + 1
        BY <1>18 DEF NextDay, CollectorTypeOK
    <2>3. ~good => bad < MaxBadDays
        BY <1>18 DEF NextDay
    <2>4. bad' \in 0..MaxBadDays
        BY <2>2, <2>3, Times
    <2> QED
        BY <1>18, <2>0, <2>1, <2>4 DEF NextDay, CollectorTypeOK
<1> QED
    BY <1>2, <1>3, <1>4, <1>5, <1>6, <1>7, <1>8, <1>9, <1>10, <1>11, <1>12, <1>13, <1>14,
       <1>15, <1>16, <1>17, <1>18 DEF CollectorNext, Renewing, Installing

-----------------------------------------------------------------------------
(* The client's side.                                                      *)

\* Files, processes and service stay in step, action by action.
LEMMA ClientKept == ASSUME CollectorTypeOK, ClientInv, CollectorNext PROVE ClientInv'
<1> USE DEF days, record, clientFiles, install, wire, NoToken, NotDue, Unauthorized
<1> USE DEF ClientInv, OrderInv, RenewerInv, Newer, InstallerInv, LagInv, Live,
            Reading, Answered, Replaced, Locking
<1>1. /\ collector \in Service /\ renewal \in Renewal /\ installer \in Installer
      /\ server \in Record /\ marker \in BOOLEAN
    BY DEF CollectorTypeOK
<1>2. CASE Deliver
    <2>1. UNCHANGED <<days, drawn, clientFiles, collector, renewal, install, wire>>
        BY <1>2 DEF Deliver
    <2>2. CASE Promotes(collector.held)
        BY <2>1, <2>2, Fields DEF Promotes
    <2>3. CASE server' = server
        BY <2>1, <2>3
    <2> QED
        BY <1>2, <2>2, <2>3, Uses DEF Deliver
<1>3. CASE CollectorDies
    BY <1>1, <1>3, Fields DEF Service, CollectorDies
<1>4. CASE CollectorStarts
    BY <1>1, <1>4, Fields DEF CollectorStarts, StartedFrom
<1>5. CASE CollectorReloads
    BY <1>1, <1>5, Fields DEF CollectorReloads, StartedFrom
<1>6. CASE RenewStart
    BY <1>1, <1>6, Fields DEF RenewStart, LockFree
<1>7. CASE RenewCatchUp
    BY <1>1, <1>7, Fields
       DEF Renewal, RenewCatchUp, RenewRestart, RestartSucceeds, StartedFrom, RenewerAt
<1>8. CASE RenewGoLive
    BY <1>1, <1>8, Fields
       DEF Renewal, RenewGoLive, RenewRestart, RestartSucceeds, StartedFrom, RenewerAt
<1>9. CASE RenewRestartFails
    BY <1>1, <1>9, Fields DEF Service, RenewRestartFails, RestartFails, RenewExit, NoRenewal
<1>10. CASE RenewUnmark
    BY <1>1, <1>10, Fields DEF Renewal, RenewUnmark, RenewerAt
<1>11. CASE RenewPost
    BY <1>1, <1>11, Fields DEF Renewal, RenewPost, RenewerAt
<1>12. CASE RenewReject
    BY <1>1, <1>12, Fields DEF RenewReject, RenewExit, NoRenewal
<1>13. CASE RenewNotDue
    BY <1>1, <1>13, Fields DEF RenewNotDue, RenewExit, NoRenewal
<1>14. CASE RenewMark
    BY <1>1, <1>14, Fields DEF Renewal, RenewMark, RenewerAt, Token
<1>15. CASE RenewFinish
    BY <1>1, <1>15, Fields DEF RenewFinish, RenewExit, NoRenewal
<1>16. CASE StragglerLost
    BY <1>1, <1>16, Fields DEF StragglerLost
<1>17. CASE InstallRead
    BY <1>1, <1>17, Fields DEF InstallRead, NoInstaller, Found
<1>18. CASE InstallLock
    BY <1>1, <1>18, Fields DEF InstallLock, LockFree, Reread, Found
<1>19. CASE InstallGivesUp
    BY <1>1, <1>19, Fields DEF InstallGivesUp, NoInstaller, Found
<1>20. CASE InstallStop
    BY <1>1, <1>20, Fields DEF Service, Installer, InstallStop
<1>21. CASE InstallWrite
    BY <1>1, <1>21, Fields DEF Installer, InstallWrite
<1>22. CASE InstallStart
    BY <1>1, <1>22, Fields DEF InstallStart, NoInstaller, Found
<1>23. CASE InstallFails
    BY <1>1, <1>23, Fields DEF Service, Installer, InstallFails, StartedFrom
<1>24. CASE InstallRollback
    BY <1>1, <1>24, Fields DEF InstallRollback, NoInstaller, Found
<1>25. CASE NextDay
    BY <1>1, <1>25, Fields, Times DEF NextDay
<1>26. CASE ServeRenewal
    <2>1. PICK answer \in Answer : /\ Serve(renewal.token, answer)
                                   /\ renewal' = [renewal EXCEPT !.pc = "answered", !.answer = answer]
                                   /\ renewal.pc = "waiting"
        BY <1>26 DEF ServeRenewal
    <2>2. /\ renewal'.pc = "answered" /\ renewal'.answer = answer /\ renewal'.token = file
          /\ renewal.token = file
        BY <1>1, <2>1 DEF Renewal
    <2>3. /\ file <= drawn' /\ server'.current <= drawn' /\ server'.pending <= drawn'
          /\ server'.pending # NoToken => server'.current < server'.pending
          /\ answer \in {NotDue, Unauthorized} \/ (file < answer /\ answer <= drawn')
        <3>1. CASE Promotes(file) /\ drawn' = drawn /\ answer = NotDue
            BY <3>1, Fields DEF Promotes
        <3>2. CASE server' = server /\ drawn' = drawn /\ answer \in {NotDue, Unauthorized}
            BY <3>2, Fields
        <3>3. CASE Draws(file) /\ answer = drawn'
            BY <1>1, <3>3, Fields DEF Draws, Record
        <3> QED
            BY <2>1, <2>2, <3>1, <3>2, <3>3, Serves
    <2> QED
        BY <1>26, <2>1, <2>2, <2>3 DEF ServeRenewal
<1>27. CASE RenewGivesUp
    <2>1. \A t \in stragglers' : t \in stragglers \/ (t = renewal.token /\ renewal.pc = "waiting")
        BY <1>27 DEF RenewGivesUp, Abandoned
    <2>2. renewal'.pc = "idle"
        BY <1>27 DEF RenewGivesUp, RenewExit, NoRenewal
    <2>3. UNCHANGED <<days, record, clientFiles, collector, install>>
        BY <1>27 DEF RenewGivesUp
    <2>4. \A t \in stragglers' : t <= file /\ (t = file => Live)
        BY <2>1, Fields
    <2>5. OrderInv'
        BY <2>3, <2>4
    <2>6. RenewerInv' /\ InstallerInv'
        BY <2>2, <2>3
    <2>7. LagInv'
        BY <2>2, <2>3, <2>4
    <2> QED
        BY <2>5, <2>6, <2>7
<1>28. CASE RenewReplace
    <2>1. /\ renewal.pc = "replace" /\ renewal'.pc = "restart" /\ renewal'.answer = file'
          /\ file < file' /\ file' <= drawn /\ renewal.answer = file' /\ marker /\ marker' = marker
        BY <1>1, <1>28 DEF RenewReplace, RenewerAt, Renewal
    <2>2. UNCHANGED <<days, record, collector, install, wire>>
        BY <1>28 DEF RenewReplace
    <2>3. file' \in Nat /\ \A t \in stragglers : t < file'
        BY <2>1, Fields DEF Answer, Token
    <2>4. OrderInv' /\ RenewerInv'
        BY <2>1, <2>2, <2>3, Fields
    <2>5. InstallerInv' /\ LagInv'
        BY <2>1, <2>2, <2>3
    <2> QED
        BY <2>4, <2>5
<1>29. CASE ServeStraggler
    <2>1. PICK t \in stragglers, answer \in Answer : Serve(t, answer) /\ stragglers' = stragglers \ {t}
        BY <1>29 DEF ServeStraggler
    <2>2. /\ drawn' \in Nat /\ drawn <= drawn'
          /\ server'.current <= drawn' /\ server'.pending <= drawn'
          /\ server'.pending # NoToken => server'.current < server'.pending
        <3>1. CASE Promotes(t) /\ drawn' = drawn
            BY <2>1, <3>1, Fields DEF Promotes
        <3>2. CASE server' = server /\ drawn' = drawn
            BY <3>2, Fields
        <3>3. CASE Draws(t)
            BY <1>1, <3>3, Fields DEF Draws, Record
        <3> QED
            BY <2>1, <3>1, <3>2, <3>3, Serves
    <2>3. UNCHANGED <<days, clientFiles, collector, renewal, install>>
        BY <1>29 DEF ServeStraggler
    <2>4. OrderInv'
        <3>1. file' <= drawn' /\ collector'.held <= file' /\ \A u \in stragglers' : u <= file'
            BY <2>1, <2>2, <2>3, Fields
        <3> QED
            BY <2>2, <3>1
    <2>5. RenewerInv' /\ InstallerInv'
        <3>1. \A u \in Nat : Newer(u) => Newer(u)'
            BY <2>2, <2>3, Fields
        <3>2. renewal.answer > file => renewal.answer \in Nat
            BY Fields DEF Answer, Token
        <3> QED
            BY <2>3, <3>1, <3>2
    <2>6. LagInv'
        BY <2>1, <2>3
    <2> QED
        BY <2>4, <2>5, <2>6
<1> QED
    BY <1>2, <1>3, <1>4, <1>5, <1>6, <1>7, <1>8, <1>9, <1>10, <1>11, <1>12, <1>13, <1>14, <1>15,
       <1>16, <1>17, <1>18, <1>19, <1>20, <1>21, <1>22, <1>23, <1>24, <1>25, <1>26, <1>27, <1>28, <1>29
       DEF CollectorNext, Renewing, Installing

-----------------------------------------------------------------------------
(* The server's side.                                                      *)

\* The last complete run is never far: MaxBadDays incomplete days at most lie between.
LEMMA LastGoodIsRecent ==
    ASSUME CollectorTypeOK
    PROVE  /\ LastGood \in Int /\ LastGood <= day /\ day <= LastGood + MaxBadDays + 1
BY Fields, Times DEF LastGood, CollectorTypeOK

\* As long as no late request displaced an unused replacement, the server accepts what
\* the client holds, action by action.
LEMMA ServedKept == ASSUME CollectorInv, CollectorNext PROVE ServedInv'
<1> USE DEF days, record, clientFiles, install, wire, NoToken, NotDue, Unauthorized, Token
<1> USE DEF CollectorInv, ServedInv, FileInv, HeldInv, AnswerInv, LastGood,
            ClientInv, OrderInv, RenewerInv, Newer, InstallerInv, LagInv, Live,
            Reading, Answered, Replaced, Locking
<1>1. /\ collector \in Service /\ renewal \in Renewal /\ installer \in Installer
      /\ server \in Record /\ marker \in BOOLEAN /\ displaced \in BOOLEAN
    BY DEF CollectorTypeOK
<1>2. CASE Deliver
    <2>1. UNCHANGED <<days, drawn, clientFiles, collector, renewal, install, wire>> /\ collector.running
        BY <1>2 DEF Deliver
    <2>2. CASE Promotes(collector.held)
        BY <1>1, <2>1, <2>2, Fields, Times DEF Promotes
    <2>3. CASE server' = server
        BY <2>1, <2>3
    <2> QED
        BY <1>2, <2>2, <2>3, Uses DEF Deliver
<1>3. CASE CollectorDies
    BY <1>1, <1>3, Fields
       DEF Service, CollectorDies
<1>4. CASE CollectorStarts
    BY <1>1, <1>4, Fields
       DEF CollectorStarts, StartedFrom
<1>5. CASE CollectorReloads
    BY <1>1, <1>5, Fields
       DEF CollectorReloads, StartedFrom
<1>6. CASE RenewStart
    BY <1>1, <1>6, Fields
       DEF RenewStart, LockFree
<1>7. CASE RenewCatchUp
    BY <1>1, <1>7, Fields
       DEF Renewal, RenewCatchUp, RenewRestart, RestartSucceeds, StartedFrom, RenewerAt
<1>8. CASE RenewGoLive
    BY <1>1, <1>8, Fields
       DEF Renewal, RenewGoLive, RenewRestart, RestartSucceeds, StartedFrom, RenewerAt
<1>9. CASE RenewRestartFails
    BY <1>1, <1>9, Fields
       DEF Service, RenewRestartFails, RestartFails, RenewExit, NoRenewal
<1>10. CASE RenewUnmark
    BY <1>1, <1>10, Fields
       DEF Renewal, RenewUnmark, RenewerAt
<1>11. CASE RenewPost
    BY <1>1, <1>11, Fields
       DEF Renewal, RenewPost, RenewerAt
<1>12. CASE RenewGivesUp
    BY <1>1, <1>12, Fields
       DEF RenewGivesUp, RenewExit, NoRenewal
<1>13. CASE RenewReject
    BY <1>1, <1>13, Fields
       DEF RenewReject, RenewExit, NoRenewal
<1>14. CASE RenewNotDue
    BY <1>1, <1>14, Fields, Times
       DEF RenewNotDue, RenewExit, NoRenewal
<1>15. CASE RenewMark
    BY <1>1, <1>15, Fields
       DEF Renewal, RenewMark, RenewerAt
<1>16. CASE RenewReplace
    <2>1. /\ renewal.pc = "replace" /\ renewal'.pc = "restart" /\ renewal'.answer = renewal.answer
          /\ file' = renewal.answer /\ file < file'
        BY <1>1, <1>16 DEF RenewReplace, RenewerAt, Renewal
    <2>2. UNCHANGED <<days, record, collector, install, wire>>
        BY <1>16 DEF RenewReplace
    <2>3. renewal.answer \in Token
        BY <2>1, Fields DEF Answer
    <2>4. ~displaced => /\ file = server.current /\ server.expiresAt > LastGood + WindowDays
                        /\ server.pending = file' /\ server.pendingExpiresAt = day + TokenDays
                        /\ (collector.running => collector.held = file)
        BY <2>1, <2>3, Fields
    <2>5. LastGood' = LastGood
        BY <2>2
    <2> QED
        BY <2>1, <2>2, <2>4, <2>5, Fields, LastGoodIsRecent, Times
<1>17. CASE RenewFinish
    BY <1>1, <1>17, Fields, Times
       DEF RenewFinish, RenewExit, NoRenewal
<1>18. CASE StragglerLost
    BY <1>1, <1>18, Fields
       DEF StragglerLost
<1>19. CASE InstallRead
    BY <1>1, <1>19, Fields
       DEF InstallRead, NoInstaller, Found
<1>20. CASE InstallLock
    BY <1>1, <1>20, Fields
       DEF InstallLock, LockFree, Reread, Found
<1>21. CASE InstallGivesUp
    BY <1>1, <1>21, Fields
       DEF InstallGivesUp, NoInstaller, Found
<1>22. CASE InstallStop
    BY <1>1, <1>22, Fields
       DEF Service, Installer, InstallStop
<1>23. CASE InstallWrite
    BY <1>1, <1>23, Fields
       DEF Installer, InstallWrite
<1>24. CASE InstallStart
    BY <1>1, <1>24, Fields
       DEF InstallStart, NoInstaller, Found
<1>25. CASE InstallFails
    BY <1>1, <1>25, Fields
       DEF Service, Installer, InstallFails, StartedFrom
<1>26. CASE InstallRollback
    BY <1>1, <1>26, Fields
       DEF InstallRollback, NoInstaller, Found
<1>27. CASE NextDay
    BY <1>1, <1>27, Fields, Times
       DEF NextDay
<1>28. CASE ServeRenewal
    <2>1. PICK answer \in Answer : /\ Serve(renewal.token, answer)
                                   /\ renewal' = [renewal EXCEPT !.pc = "answered", !.answer = answer]
                                   /\ renewal.pc = "waiting"
        BY <1>28 DEF ServeRenewal
    <2>2. /\ renewal'.pc = "answered" /\ renewal'.answer = answer
          /\ renewal.token = file /\ Live
        BY <1>1, <2>1 DEF Renewal
    <2>3. UNCHANGED <<days, clientFiles, collector, install, wire>>
        BY <1>28 DEF ServeRenewal
    <2>4. CASE Promotes(file) /\ answer = NotDue
        BY <1>1, <2>2, <2>3, <2>4, Fields, Times, LastGoodIsRecent DEF Promotes
    <2>5. CASE server' = server /\ answer = NotDue /\ IsCurrent(file) /\ ~Due(file)
        <3>1. UNCHANGED LastGood
            BY <2>3
        <3>2. file = server.current /\ server.expiresAt > day + WindowDays
            BY <2>5, Fields, Times DEF Due, IsCurrent
        <3> QED
            BY <2>2, <2>3, <2>5, <3>1, <3>2, Fields, Times, LastGoodIsRecent
    <2>6. CASE server' = server /\ answer = Unauthorized
        BY <1>1, <2>2, <2>3, <2>6, Fields
    <2>7. CASE Draws(file) /\ answer = drawn'
        BY <1>1, <2>2, <2>3, <2>7, Fields DEF Draws, Record
    <2> QED
        BY <2>1, <2>2, <2>4, <2>5, <2>6, <2>7, Serves
<1>29. CASE ServeStraggler
    <2>1. PICK t \in stragglers, answer \in Answer :
            /\ Serve(t, answer)
            /\ displaced' = (displaced \/ /\ drawn' # drawn
                                          /\ server.pending \in {file, renewal.answer} \cap Token)
        BY <1>29 DEF ServeStraggler
    <2>2. UNCHANGED <<days, clientFiles, collector, renewal, install>>
        BY <1>29 DEF ServeStraggler
    <2>3. CASE Promotes(t) /\ drawn' = drawn
        <3>1. ~displaced => file = t /\ file # server.current /\ Live
            <4>1. t \in Nat /\ t # NoToken /\ t <= file /\ t = server.pending
                BY <2>1, <2>3, Fields DEF Promotes, CollectorTypeOK
            <4>2. ~displaced => file = t /\ file # server.current
                BY <4>1, Fields
            <4> QED
                BY <2>1, <4>2
        <3>2. /\ server'.current = t /\ server'.expiresAt = server.pendingExpiresAt
              /\ server'.pending = NoToken
            BY <2>3 DEF Promotes
        <3>3. (displaced' <=> displaced) /\ UNCHANGED LastGood
            BY <1>1, <2>1, <2>2, <2>3
        <3> QED
            BY <1>1, <2>2, <3>1, <3>2, <3>3, Fields, Times, LastGoodIsRecent
    <2>4. CASE server' = server /\ drawn' = drawn
        BY <1>1, <2>1, <2>2, <2>4
    <2>5. CASE Draws(t)
        <3>1. ~displaced' => ~displaced /\ server.pending \notin {file, renewal.answer} \cap Token
            <4>1. drawn' # drawn
                BY <2>5, Fields DEF Draws
            <4> QED
                BY <1>1, <2>1, <4>1
        <3>2. /\ server'.current = server.current /\ server'.expiresAt = server.expiresAt
              /\ server'.pending = drawn + 1 /\ drawn \in Nat
            BY <1>1, <2>5, Fields DEF Draws, Record
        <3>3. ~displaced' => file = server.current
            BY <3>1, Fields DEF CollectorTypeOK
        <3>4. UNCHANGED LastGood
            BY <2>2
        <3> QED
            BY <1>1, <2>2, <3>1, <3>2, <3>3, <3>4, Fields, LastGoodIsRecent
    <2> QED
        BY <2>1, <2>3, <2>4, <2>5, Serves
<1> QED
    BY <1>2, <1>3, <1>4, <1>5, <1>6, <1>7, <1>8, <1>9, <1>10, <1>11, <1>12, <1>13, <1>14, <1>15,
       <1>16, <1>17, <1>18, <1>19, <1>20, <1>21, <1>22, <1>23, <1>24, <1>25, <1>26, <1>27, <1>28, <1>29
       DEF CollectorNext, Renewing, Installing

-----------------------------------------------------------------------------
(* The invariant, and what follows from it.                                *)

\* A device just installed has a token of its own and a whole lifetime ahead.
LEMMA InitEstablishes == CollectorInit => CollectorInv
<1> SUFFICES ASSUME CollectorInit PROVE CollectorInv
    OBVIOUS
<1>1. CollectorTypeOK
    <2>1. /\ server \in Record /\ collector \in Service /\ file \in Token /\ drawn \in Token
          /\ stragglers \subseteq Token
        BY Times DEF CollectorInit, Record, Service, Token, NoToken
    <2>2. renewal \in Renewal /\ installer \in Installer
        BY DEF CollectorInit, NoRenewal, Renewal, NoInstaller, Installer, Found
    <2>3. day \in 0..MaxDay /\ installs \in 0..MaxInstalls /\ bad \in 0..MaxBadDays
        BY Times DEF CollectorInit
    <2> QED
        BY <2>1, <2>2, <2>3 DEF CollectorTypeOK, CollectorInit
<1>2. ClientInv
    BY Times DEF CollectorInit, ClientInv, OrderInv, RenewerInv, InstallerInv, LagInv, Live, NoToken,
                 NoRenewal, NoInstaller, Reading, Answered, Replaced, Locking
<1>3. ServedInv
    BY Times
       DEF CollectorInit, ServedInv, FileInv, HeldInv, AnswerInv, LastGood, NoRenewal, Answered, Replaced
<1> QED
    BY <1>1, <1>2, <1>3 DEF CollectorInv

\* Every step, and a step that changes nothing, keeps it.
LEMMA NextKeeps == CollectorInv /\ [CollectorNext]_collectorVars => CollectorInv'
<1>1. ASSUME CollectorInv, CollectorNext PROVE CollectorInv'
    BY <1>1, TypesKept, ClientKept, ServedKept DEF CollectorInv
<1>2. ASSUME CollectorInv, UNCHANGED collectorVars PROVE CollectorInv'
    <2>1. UNCHANGED <<day, server, drawn, file, marker, collector, renewal, installer,
                      installs, stragglers, good, bad, displaced>>
        BY <1>2 DEF collectorVars
    <2>2. CollectorTypeOK'
        BY <1>2, <2>1 DEF CollectorInv, CollectorTypeOK
    <2>3. ClientInv'
        BY <1>2, <2>1
           DEF CollectorInv, ClientInv, OrderInv, RenewerInv, Newer, InstallerInv, LagInv, Live
    <2>4. ServedInv'
        BY <1>2, <2>1 DEF CollectorInv, ServedInv, FileInv, HeldInv, AnswerInv, LastGood
    <2> QED
        BY <2>2, <2>3, <2>4 DEF CollectorInv
<1> QED
    BY <1>1, <1>2

-----------------------------------------------------------------------------
(* The theorems.                                                           *)

\* The inductive invariant: the client's token is the current one or the unused pending
\* one, and good for as long as runs can fail.
THEOREM CollectorInvariant == CollectorSpec => []CollectorInv
BY InitEstablishes, NextKeeps, PTL DEF CollectorSpec

\* Tokens, files, service and processes keep their types, and the incomplete days their
\* bound.
THEOREM CollectorTyped == CollectorSpec => []CollectorTypeOK
<1>1. CollectorInv => CollectorTypeOK
    BY DEF CollectorInv
<1> QED
    BY <1>1, CollectorInvariant, PTL

\* The token on disk is one the server takes, whatever dies, fails or is lost, unless a
\* late request displaced an unused replacement (install.py 776-826).
THEOREM NeverLockedOut == CollectorSpec => []FileAccepted
<1>1. CollectorInv => FileAccepted
    <2> SUFFICES ASSUME CollectorInv, ~displaced PROVE Accepts(file)
        BY DEF FileAccepted
    <2>1. CollectorTypeOK /\ FileInv
        BY DEF CollectorInv, ServedInv
    <2> QED
        BY <2>1, Fields, Times, LastGoodIsRecent DEF FileInv, Accepts, IsCurrent, IsPending
<1> QED
    BY <1>1, CollectorInvariant, PTL

\* The token that the running Collector holds is one the server takes, though restarts
\* fail and the file has moved on (install.py 811-815).
THEOREM AlwaysServed == CollectorSpec => []CollectorServed
<1>1. CollectorInv => CollectorServed
    <2> SUFFICES ASSUME CollectorInv, ~displaced, collector.running PROVE Accepts(collector.held)
        BY DEF CollectorServed
    <2>1. CollectorTypeOK /\ FileInv /\ HeldInv
        BY DEF CollectorInv, ServedInv
    <2>2. CASE collector.held = file
        BY <2>1, <2>2, Fields, Times, LastGoodIsRecent
           DEF FileInv, Accepts, IsCurrent, IsPending
    <2>3. CASE collector.held # file
        BY <2>1, <2>3, Fields, Times, LastGoodIsRecent DEF HeldInv, Accepts, IsCurrent
    <2> QED
        BY <2>2, <2>3
<1> QED
    BY <1>1, CollectorInvariant, PTL
=============================================================================
