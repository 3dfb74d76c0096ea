---------------------------- MODULE DeviceTokens ----------------------------
(***************************************************************************)
(* Device tokens of the ingestion endpoint: deviceTokens.js (the service   *)
(* every replica runs) over deviceTokenStore.js (conditional writes to one *)
(* DynamoDB item).  Items of different devices are independent, so the     *)
(* module follows one (owner, id) pair.                                    *)
(*                                                                         *)
(* A secret is the number of its minting; comparing hashes is comparing    *)
(* numbers.  Request slots stand for concurrent HTTP requests.  A handler  *)
(* is split at its awaits: what the code does between two awaits is one    *)
(* action, what DynamoDB does with a command is another.                   *)
(***************************************************************************)
EXTENDS Integers, FiniteSets

CONSTANTS
    Replicas,       \* server processes, each with its own record cache
    Requests,       \* slots for requests in flight, over all replicas
    NoReplica,      \* the replica of an unused slot
    Lifetime,       \* LIFETIME_MS, in ticks
    RenewWindow,    \* RENEW_WINDOW_MS
    CacheTTL,       \* the 10 s a cached record may be used
    PurgeGrace,     \* the 7 days purgeFor adds
    MaxClock,       \* bound: the clock stops here
    MaxSecret       \* bound: secrets minted in one behaviour

ASSUME TimesAssumption ==
    /\ Lifetime \in Nat /\ RenewWindow \in Nat
    /\ CacheTTL \in Nat \ {0} /\ PurgeGrace \in Nat \ {0}
    /\ RenewWindow < Lifetime
    /\ MaxClock \in Nat /\ MaxSecret \in Nat
    /\ NoReplica \notin Replicas

VARIABLES
    clock,          \* now(), the same at every replica
    item,           \* the DynamoDB item of the device
    minted,         \* number of secrets drawn so far
    cache,          \* replica -> cached record
    req,            \* slot -> handler state
    revoking,       \* replicas between store.revoke and cache.delete
    retiredAt       \* history: secret -> when it stopped being live in the store,
                    \* by promotion, replacement, revocation or purge

vars == <<clock, item, minted, cache, req, revoking, retiredAt>>

Time == Nat
Secret == 0..MaxSecret
NoSecret == 0       \* an absent attribute; minted secrets are 1, 2, ...
Never == -1         \* a secret the store still holds
Unborn == -2        \* a secret the store has not held yet

(***************************************************************************)
(* The item.  issued: the item was put; purged: DynamoDB's TTL removed it. *)
(* Name, platform and the display times (createdAt, renewedAt, lastSeenAt) *)
(* play no part in authentication and are left out.                        *)
(***************************************************************************)
Item == [state : {"unissued", "stored", "purged"},
         current : Secret, expiresAt : Time,
         pending : Secret, pendingExpiresAt : Time,
         previous : Secret, purgeAt : Time,
         revoked : BOOLEAN, reused : BOOLEAN]

NoItem(state) ==
    [state |-> state, current |-> NoSecret, expiresAt |-> 0,
     pending |-> NoSecret, pendingExpiresAt |-> 0, previous |-> NoSecret,
     purgeAt |-> 0, revoked |-> FALSE, reused |-> FALSE]

\* What a handler keeps of the record it read; blank when there was no record
\* to go on with (absent or revoked).
Snapshot == [found : BOOLEAN, current : Secret, expiresAt : Time,
             pending : Secret, pendingExpiresAt : Time,
             previous : Secret, reused : BOOLEAN]
NoSnapshot ==
    [found |-> FALSE, current |-> NoSecret, expiresAt |-> 0, pending |-> NoSecret,
     pendingExpiresAt |-> 0, previous |-> NoSecret, reused |-> FALSE]
\* The part the promotion of a pending secret needs.
PromotionOf(snap) ==
    [found |-> TRUE, current |-> snap.current, expiresAt |-> 0, pending |-> snap.pending,
     pendingExpiresAt |-> snap.pendingExpiresAt, previous |-> NoSecret, reused |-> FALSE]
ReadItem ==
    IF item.state = "stored" /\ ~item.revoked
    THEN [found |-> TRUE, current |-> item.current, expiresAt |-> item.expiresAt,
          pending |-> item.pending, pendingExpiresAt |-> item.pendingExpiresAt,
          previous |-> item.previous, reused |-> item.reused]
    ELSE NoSnapshot

\* What a replica keeps of a record it read: the part authenticate compares.
CacheEntry == [secret : Secret, expiresAt : Time, until : Time]
NoEntry == [secret |-> NoSecret, expiresAt |-> 0, until |-> 0]

(***************************************************************************)
(* A handler: the call it serves and how far it is.  at is readStarted     *)
(* while the read is out ("get", "got") and the handler's own now() in a   *)
(* conditional write.  attempt counts the turns of the loop, retried the   *)
(* SDK's second try of a write; fresh is the secret a renewal minted.      *)
(***************************************************************************)
Call == [kind : {"verify", "renew"}, rep : Replicas, secret : Secret, arrived : Time]
NoCall == [kind |-> "verify", rep |-> NoReplica, secret |-> NoSecret, arrived |-> 0]

HandlerRecord ==
    [pc : {"idle", "get", "got", "flag", "promote", "stage", "accepted"},
     call : Call \cup {NoCall}, attempt : 0..1, at : Time, snap : Snapshot,
     fresh : Secret, expiresAt : Time, retried : BOOLEAN]
Handler == {h \in HandlerRecord : h.pc # "idle" => h.call \in Call}

Working(pc, call, attempt, at, snap) ==
    [pc |-> pc, call |-> call, attempt |-> attempt, at |-> at, snap |-> snap,
     fresh |-> NoSecret, expiresAt |-> 0, retried |-> FALSE]

Idle == Working("idle", NoCall, 0, 0, NoSnapshot)

TypeOK ==
    /\ clock \in Time
    /\ item \in Item
    /\ minted \in Secret
    /\ cache \in [Replicas -> CacheEntry]
    /\ req \in [Requests -> Handler]
    /\ revoking \subseteq Replicas
    /\ retiredAt \in [1..MaxSecret -> Time \cup {Never, Unborn}]

Init ==
    /\ clock = 0
    /\ item = NoItem("unissued")
    /\ minted = 0
    /\ cache = [r \in Replicas |-> NoEntry]
    /\ req = [q \in Requests |-> Idle]
    /\ revoking = {}
    /\ retiredAt = [s \in 1..MaxSecret |-> Unborn]

-----------------------------------------------------------------------------
(* The store's conditional writes *)

\* revokedAt = if_not_exists(revokedAt, :at), for an item that exists.
RevokeHolds == item.state = "stored"

\* Faulty: staging does not look at revokedAt.
StageHoldsRevoked(h) ==
    item.state = "stored" /\ item.current = h.call.secret /\ item.expiresAt > h.at

\* Faulty: staging does not compare secretHash.
StageHoldsAnyCurrent(h) ==
    item.state = "stored" /\ ~item.revoked /\ item.expiresAt > h.at

\* store.stage: only while the verified current token is still active.
StageHolds(h) ==
    /\ item.state = "stored" /\ ~item.revoked
    /\ item.current = h.call.secret
    /\ item.expiresAt > h.at

\* Faulty: staging leaves the purge time of the current token.
StagedItemKeepsPurge(h) ==
    [item EXCEPT !.pending = h.fresh, !.pendingExpiresAt = h.at + Lifetime]

StagedItem(h) ==
    [item EXCEPT !.pending = h.fresh,
                 !.pendingExpiresAt = h.at + Lifetime,
                 !.purgeAt = h.at + Lifetime + PurgeGrace]

\* store.promote: only the pending token the handler read, still unexpired.
PromoteHolds(h) ==
    /\ item.state = "stored" /\ ~item.revoked
    /\ item.pending = h.snap.pending
    /\ item.pendingExpiresAt = h.snap.pendingExpiresAt
    /\ item.pendingExpiresAt > h.at

\* Faulty: promotion does not record the secret it replaces.
PromotedItemKeepsPrevious(h) ==
    [item EXCEPT !.current = h.snap.pending, !.expiresAt = h.snap.pendingExpiresAt,
                 !.pending = NoSecret, !.pendingExpiresAt = 0,
                 !.purgeAt = h.snap.pendingExpiresAt + PurgeGrace]

PromotedItem(h) ==
    [state |-> item.state,
     current |-> h.snap.pending, expiresAt |-> h.snap.pendingExpiresAt,
     pending |-> NoSecret, pendingExpiresAt |-> 0, previous |-> h.snap.current,
     purgeAt |-> h.snap.pendingExpiresAt + PurgeGrace,
     revoked |-> item.revoked, reused |-> item.reused]

\* store.flagReuse: the first reuse only.
FlaggedItem == [item EXCEPT !.reused = item.reused \/ item.state = "stored"]

Retire(S) == [s \in 1..MaxSecret |->
                 IF s \in S /\ retiredAt[s] = Never THEN clock ELSE retiredAt[s]]

-----------------------------------------------------------------------------
(* The handler *)

CacheHit(r, s) ==
    /\ cache[r].until > clock
    /\ cache[r].secret = s
    /\ cache[r].expiresAt > clock

MatchesCurrent(h) == h.snap.current = h.call.secret /\ h.snap.expiresAt > clock
MatchesPending(h) == h.snap.pending = h.call.secret /\ h.snap.pendingExpiresAt > clock

\* Whether a renewal mints: not on a promotion, and only near the expiry.
RenewalDue(expiresAt, promoted) == ~promoted /\ expiresAt - clock <= RenewWindow

(***************************************************************************)
(* authenticate returned an identity.  verify is done.  renew is refused   *)
(* by its rate limit (admit), or answers renewed: false, or mints a secret *)
(* and goes on to store.stage.                                             *)
(***************************************************************************)
Accepted(call, expiresAt) ==
    [pc |-> "accepted", call |-> call, attempt |-> 0, at |-> 0, snap |-> NoSnapshot,
     fresh |-> NoSecret, expiresAt |-> expiresAt, retried |-> FALSE]

Staging(call, expiresAt) ==
    [pc |-> "stage", call |-> call, attempt |-> 0, at |-> clock, snap |-> NoSnapshot,
     fresh |-> minted + 1, expiresAt |-> expiresAt, retried |-> FALSE]

Authenticated(q, call, expiresAt, promoted) ==
    \/ /\ call.kind = "verify" \/ ~RenewalDue(expiresAt, promoted)
       /\ req' = [req EXCEPT ![q] = Accepted(call, expiresAt)]
       /\ UNCHANGED minted
    \/ /\ call.kind = "renew"
       /\ req' = [req EXCEPT ![q] = Idle]
       /\ UNCHANGED minted
    \/ /\ call.kind = "renew" /\ RenewalDue(expiresAt, promoted)
       /\ minted < MaxSecret
       /\ minted' = minted + 1
       /\ req' = [req EXCEPT ![q] = Staging(call, expiresAt)]

\* Faulty: the 10 s are counted from the end of the read.
CachedFromReadEnd(h) ==
    LET limit == clock + CacheTTL
    IN  [secret |-> h.snap.current, expiresAt |-> h.snap.expiresAt,
         until |-> IF limit < h.snap.expiresAt THEN limit ELSE h.snap.expiresAt]

\* cache.set: counted from the start of the read, and never past the expiry.
Cached(h) ==
    LET limit == h.at + CacheTTL
    IN  [secret |-> h.snap.current, expiresAt |-> h.snap.expiresAt,
         until |-> IF limit < h.snap.expiresAt THEN limit ELSE h.snap.expiresAt]

\* A request presents secret s at replica r.
Arrive(q, r, kind, s) ==
    LET call == [kind |-> kind, rep |-> r, secret |-> s, arrived |-> clock]
    IN  /\ req[q].pc = "idle"
        /\ retiredAt[s] # Unborn
        /\ IF CacheHit(r, s)
           THEN Authenticated(q, call, cache[r].expiresAt, FALSE) /\ UNCHANGED cache
           ELSE /\ req' = [req EXCEPT ![q] = Working("get", call, 0, clock, NoSnapshot)]
                /\ cache' = [cache EXCEPT ![r] =
                                IF cache[r].until <= clock THEN NoEntry ELSE cache[r]]
                /\ UNCHANGED minted
        /\ UNCHANGED <<clock, item, revoking, retiredAt>>

\* DynamoDB serves the consistent read.
Get(q) ==
    /\ req[q].pc = "get"
    /\ req' = [req EXCEPT ![q] = Working("got", req[q].call, req[q].attempt, req[q].at,
                                      ReadItem)]
    /\ UNCHANGED <<clock, item, minted, cache, revoking, retiredAt>>

\* The turn of the loop that follows the read.
Compare(q) ==
    LET h == req[q]
        r == h.call.rep
    IN  /\ h.pc = "got"
        /\ \/ /\ ~h.snap.found
              /\ cache' = [cache EXCEPT ![r] = NoEntry]
              /\ req' = [req EXCEPT ![q] = Idle]
              /\ UNCHANGED minted
           \/ /\ h.snap.found /\ MatchesCurrent(h)
              /\ cache' = [cache EXCEPT ![r] = Cached(h)]
              /\ Authenticated(q, h.call, h.snap.expiresAt, h.attempt > 0)
           \/ /\ h.snap.found /\ ~MatchesCurrent(h)
              /\ h.attempt > 0 \/ ~MatchesPending(h)
              /\ req' = [req EXCEPT ![q] =
                     IF ~h.snap.reused /\ h.snap.previous = h.call.secret
                     THEN Working("flag", h.call, 0, 0, NoSnapshot)
                     ELSE Idle]
              /\ UNCHANGED <<cache, minted>>
           \/ /\ h.snap.found /\ ~MatchesCurrent(h) /\ MatchesPending(h) /\ h.attempt = 0
              /\ cache' = [cache EXCEPT ![r] = NoEntry]
              /\ req' = [req EXCEPT ![q] = 
                     Working("promote", h.call, 0, clock, PromotionOf(h.snap))]
              /\ UNCHANGED minted
        /\ UNCHANGED <<clock, item, revoking, retiredAt>>

(***************************************************************************)
(* A conditional write.  Its answer reaches the handler, or is lost and    *)
(* the SDK sends the same command once more (maxAttempts: 2); Fail covers  *)
(* the answer that never comes.                                            *)
(***************************************************************************)
Promote(q) ==
    LET h == req[q]
        applied == PromoteHolds(h)
    IN  /\ h.pc = "promote"
        /\ item' = IF applied THEN PromotedItem(h) ELSE item
        /\ retiredAt' = IF applied THEN Retire({item.current}) ELSE retiredAt
        /\ \/ /\ applied
              /\ Authenticated(q, h.call, h.snap.pendingExpiresAt, TRUE)
           \/ /\ ~applied
              /\ req' = [req EXCEPT ![q] = 
                     Working("get", h.call, 1, clock, NoSnapshot)]
              /\ UNCHANGED minted
           \/ /\ ~h.retried
              /\ req' = [req EXCEPT ![q].retried = TRUE]
              /\ UNCHANGED minted
        /\ UNCHANGED <<clock, cache, revoking>>

Stage(q) ==
    LET h == req[q]
        applied == StageHolds(h)
    IN  /\ h.pc = "stage"
        /\ item' = IF applied THEN StagedItem(h) ELSE item
        /\ retiredAt' = IF applied
                        THEN [Retire({item.pending}) EXCEPT ![h.fresh] = Never]
                        ELSE retiredAt
        /\ \/ req' = [req EXCEPT ![q] = Idle]
           \/ /\ ~h.retried
              /\ req' = [req EXCEPT ![q].retried = TRUE]
        /\ UNCHANGED <<clock, minted, cache, revoking>>

Flag(q) ==
    /\ req[q].pc = "flag"
    /\ item' = FlaggedItem
    /\ req' = [req EXCEPT ![q] = Idle]
    /\ UNCHANGED <<clock, minted, cache, revoking, retiredAt>>

\* The store times out or the handler is aborted: 503, and nothing further.
Fail(q) ==
    /\ req[q].pc \in {"get", "flag", "promote", "stage"}
    /\ req' = [req EXCEPT ![q] = Idle]
    /\ UNCHANGED <<clock, item, minted, cache, revoking, retiredAt>>

\* The answer of an accepted request leaves the replica.
Reply(q) ==
    /\ req[q].pc = "accepted"
    /\ req' = [req EXCEPT ![q] = Idle]
    /\ UNCHANGED <<clock, item, minted, cache, revoking, retiredAt>>

-----------------------------------------------------------------------------
(* Owner, replica and environment *)

\* issue: a fresh device with its first secret.
Issue ==
    /\ item.state = "unissued" /\ minted < MaxSecret
    /\ minted' = minted + 1
    /\ item' = [NoItem("stored") EXCEPT !.current = minted + 1,
                   !.expiresAt = clock + Lifetime,
                   !.purgeAt = clock + Lifetime + PurgeGrace]
    /\ retiredAt' = [retiredAt EXCEPT ![minted + 1] = Never]
    /\ UNCHANGED <<clock, cache, req, revoking>>

\* revoke, first half: the store's update; its answer may be lost (503).
\* Bound: one revocation under way at a time (a repeated one changes no field).
Revoke(r) ==
    /\ RevokeHolds /\ revoking = {}
    /\ item' = [item EXCEPT !.revoked = TRUE]
    /\ retiredAt' = Retire({item.current, item.pending})
    /\ \/ revoking' = revoking \cup {r}
       \/ UNCHANGED revoking
    /\ UNCHANGED <<clock, minted, cache, req>>

\* revoke, second half: only the replica that served it forgets the record.
Forget(r) ==
    /\ r \in revoking
    /\ revoking' = revoking \ {r}
    /\ cache' = [cache EXCEPT ![r] = NoEntry]
    /\ UNCHANGED <<clock, item, minted, req, retiredAt>>

\* The oldest of 2048 entries makes room for another device's.
Evict(r) ==
    /\ cache[r] # NoEntry
    /\ cache' = [cache EXCEPT ![r] = NoEntry]
    /\ UNCHANGED <<clock, item, minted, req, revoking, retiredAt>>

\* A replica dies with its cache and its requests and is replaced.
Restart(r) ==
    /\ cache' = [cache EXCEPT ![r] = NoEntry]
    /\ req' = [q \in Requests |-> IF req[q].call.rep = r THEN Idle ELSE req[q]]
    /\ revoking' = revoking \ {r}
    /\ UNCHANGED <<clock, item, minted, retiredAt>>

\* DynamoDB's TTL deletes the item some time after purgeAt.
Purge ==
    /\ item.state = "stored" /\ item.purgeAt <= clock
    /\ item' = NoItem("purged")
    /\ retiredAt' = Retire({item.current, item.pending})
    /\ UNCHANGED <<clock, minted, cache, req, revoking>>

Tick ==
    /\ clock < MaxClock
    /\ clock' = clock + 1
    /\ UNCHANGED <<item, minted, cache, req, revoking, retiredAt>>

HandlerStep(q) ==
    Get(q) \/ Compare(q) \/ Promote(q) \/ Stage(q) \/ Flag(q) \/ Fail(q) \/ Reply(q)

Next ==
    \/ Issue
    \/ \E q \in Requests, r \in Replicas, kind \in {"verify", "renew"}, s \in 1..minted :
           Arrive(q, r, kind, s)
    \/ \E q \in Requests : HandlerStep(q)
    \/ \E r \in Replicas : Revoke(r) \/ Forget(r) \/ Evict(r) \/ Restart(r)
    \/ Purge
    \/ Tick

Spec == Init /\ [][Next]_vars

-----------------------------------------------------------------------------
(* Properties *)

(***************************************************************************)
(* The answer a replica gives from its cache is at most CacheTTL behind    *)
(* the store: a request that arrives CacheTTL or later after its secret    *)
(* was superseded, replaced or revoked is never accepted, at any replica   *)
(* and whatever reads were in flight; nor is one that arrives at or after  *)
(* the secret's expiry (deviceTokens.js 57-76).                            *)
(***************************************************************************)
Authenticates(h) == h.pc \in {"accepted", "stage"}

NoStaleAcceptance ==
    \A q \in Requests : Authenticates(req[q]) =>
        LET h == req[q]
        IN  /\ h.call.arrived < h.expiresAt
            /\ retiredAt[h.call.secret] # Never => h.call.arrived < retiredAt[h.call.secret] + CacheTTL

(***************************************************************************)
(* However many replicas, stale reads and repeated writes are at work, the *)
(* current secret is only ever replaced by the pending one, that one is a  *)
(* later one, and previousHash records the very secret it replaces         *)
(* (promote does not compare secretHash, deviceTokenStore.js 74-83).       *)
(***************************************************************************)
Rotates == item.current # NoSecret /\ item'.current \notin {item.current, NoSecret}

RotationMovesForward ==
    [][Rotates => /\ item'.current = item.pending
                  /\ item'.current > item.current
                  /\ item'.previous = item.current]_vars

(***************************************************************************)
(* A revoked device stays revoked and its credentials are never rotated    *)
(* again, although a stage or a promotion may be on its way when the owner *)
(* revokes (deviceTokenStore.js 64-84).                                    *)
(***************************************************************************)
RevocationIsFinal ==
    [][(item.revoked /\ item'.state = "stored") =>
           /\ item'.revoked
           /\ item'.current = item.current /\ item'.pending = item.pending]_vars

(***************************************************************************)
(* A renewal never replaces a token that has more than RenewWindow left,   *)
(* even when the handler decided on a cached record (deviceTokens.js 151). *)
(***************************************************************************)
NoEarlyRenewal ==
    [][(item'.pending \notin {item.pending, NoSecret}) =>
           item.expiresAt - clock <= RenewWindow]_vars

(***************************************************************************)
(* DynamoDB's TTL never removes an item that still holds an unexpired      *)
(* secret: purgeAt follows every staging, restaging and promotion, in any  *)
(* order of their writes (deviceTokens.js 11, deviceTokenStore.js 68, 78). *)
(***************************************************************************)
PurgeOutlivesSecrets ==
    item.state = "stored" =>
        /\ item.purgeAt > item.expiresAt
        /\ item.pending # NoSecret => item.purgeAt > item.pendingExpiresAt

=============================================================================
