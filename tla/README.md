# Verification of the usage dashboard

TLA+ models of the parts of this repository in which several processes, requests
or retries meet, the TLC runs that check them on small instances, and TLAPS
proofs that hold for every value of the constants. Paths are relative to `src/`.

## Inventory

The program is a dashboard server (`dashboard/server`, Node, several replicas), a
web client (`dashboard/web`), a Collector installed on each device
(`dashboard/collector`), and AWS services around them (DynamoDB, ClickHouse,
Bedrock, Cognito).

| Component | State | Operations | What is hard | Correct when |
|---|---|---|---|---|
| Device tokens: `deviceTokens.js`, `deviceTokenStore.js` | one DynamoDB item per device (current, pending and previous hash, expiries, purge time, revocation); a record cache per replica | issue, verify, renew, promote, stage, revoke, flag reuse, TTL purge | replicas cannot invalidate each other's caches; reads race writes; the SDK repeats writes | a retired secret dies within 10 s everywhere; rotation only moves forward; revocation is final |
| Query budget: `capacity.js` 26-73 | active count, queue | acquire, release, abort, timeout | hand-over against timers and aborts | no slot lost or doubled, nobody waits beside a free slot, FIFO |
| Result cache: `capacity.js` 112-200 | map of entries, byte total | get, load, expiry, eviction, deadline, sweep | a deadline covers queueing and loading; failures at every await | one load per key, bytes exact, every load ends and frees its slot |
| Daily insights: `insights.js`, `insightsStore.js` | lease and result item per period | scheduler tick, acquire lease, collect, model call, put result | pods race; a worker outlives its lease; each attempt costs money | one worker per lease and attempt, bounded calls, the period settles |
| Collector renewal: `dashboard/collector/install.py` | token file, restart marker, the service's token in memory, a lock file | renew, install, restart | the replacement is a one-time secret; any step may die; two owners of the file | the device never locks itself out |
| Ingestion gateway: `collectorRoutes.js` | requests in flight, last-seen writes under way, rate windows | deliver, renew, mint, abort | slow bodies; an answer sent while the work still runs; full tables | the second verification counts, rates hold, capacity returns |
| Factor cache: `factorCache.js` | settled values, pending lookups with subscribers | get, leave, settle | the last subscriber cancels while another arrives | no live subscriber is cancelled |
| OIDC sessions: `auth.js`, `SessionBoundary.jsx` | the browser's cookies; refreshes and revocations in flight, remembered outcomes; the page's expiries | sign in, renew, sign out, answer | renewals racing a sign-out; cookies stored in the order answers arrive; an unreachable provider | a session ends with its refresh session and soon after a revocation, only a reason signs out, no page waits for ever |
| Chat: `chat.js`, `useChatStream.js` | the conversation, hops and quota of a turn; the page's messages; slots | ask, stop, model call, tool call, deadline | a turn abandoned by the page still runs; model and database may hang | each tool call is answered once, answers stand under their question, slots return |
| Counter queries: `queries.js`, `clientMetrics.js` | raw samples and their hourly roll-up | snapshot, series, comparison, client pages | windows that cut an hour, restarts, late inserts, two temporalities | the figure is the growth recorded in the window, the chart adds up to it but for a cut minute bucket |
| Alerts: `alerting.js`, `freshness.js` | alert state | tick | overlapping ticks, lost webhooks | messages alternate |
| Prices: `priceCatalog.js`, `pricingDiscovery.js` | layers, version, discovery queue | refresh, observe | refresh while responses are cached | failures keep the old layer |
| Web client: `useApi.js`, `RefreshContext.jsx`, `pages/Clients.jsx` | in-flight request, shown selection, refresh cycle | select, tick, render, answer | answers in another order; one panel asks with the bounds another one answered | the shown data belongs to the selection |
| Cognito sync: `group_sync.py` | none kept | reconcile | administrators' edits during a pass | converges |
| Other queries, pricing, rendering, schema, infra, scripts, site | none at run time | - | - | table tests |

How they interact: a Collector delivers with its token through the ingestion
routes, which call `verify` twice around the body; its daily `renew` calls the
same service. Dashboard requests pass the result cache, whose loads run under a
budget and query ClickHouse under another one. The insights scheduler of every
pod shares only the two DynamoDB items. The pages poll through `useApi`, behind the
session that `auth.js` keeps in the browser's cookies; every token and cost figure they
show is computed by the counter queries, and the chat runs SQL over the same tables.

## Modules

| Module | Models | Runs on |
|---|---|---|
| `DeviceTokens` | service and store of one device, several replicas and requests | `MCDeviceTokens` (symmetry of replicas and of request slots) |
| `QueuedBudget` | `createQueuedBudget`; also the abstract specification of the cache's admission | itself |
| `ResultCache` | `createResultCache`, composed with the budget through `Budget == INSTANCE QueuedBudget` | itself |
| `ResultCacheProofs` | theorems about `ResultCache`, and through `QueuedBudgetProofs` about its use of the budget | TLAPS |
| `InsightsLease` | scheduler, generation and lease of one period | itself |
| `QueuedBudgetProofs` | theorems about `QueuedBudget` | TLAPS |
| `Ingest` | the ingestion gateway of one replica, over what `DeviceTokens` promises about `verify` | itself |
| `IngestProofs` | theorems about `Ingest` | TLAPS |
| `CollectorRenewal` | `install.py renew` and a rerun of `install`, the service, and the server's token rule in one step | itself |
| `DeviceProofs` | theorems about `DeviceTokens` and `CollectorRenewal` | TLAPS |
| `Counters` | exporter, raw table, hourly roll-up, and the queries over them: `incFlat`, `incBucket`, their raw forms, the comparison of periods, the client pages | itself |
| `ChatTurn` | one tab's questions and the handler's turns | itself |
| `AssistantProofs` | theorems about `ChatTurn` and `InsightsLease` | TLAPS |
| `AuthSessions` | one browser's requests, its page, and the server's renewal and sign-out | itself |
| `AuthSessionsProofs` | theorems about `AuthSessions` | TLAPS |
| `ApiHook` | `useApi` twice, as overview and details, with the refresh cycle | itself |
| `PagesProofs` | theorems about `Counters` and `ApiHook` | TLAPS |
| `SumTheorems` | induction, and sums over finite sets, for the other proofs | TLAPS |

Definitions whose comment begins with "Faulty:" are broken variants of the one that
follows. `PROJECT.json` pairs each property with the variant that violates it; no
specification uses them.

### DeviceTokens

`item` is the DynamoDB item, `cache` each replica's entry for it, `req` the handlers
in flight. Handlers are cut at their awaits: `Arrive` runs to the first store call,
`Get` is DynamoDB serving the consistent read, `Compare` the turn of the loop in
`authenticate` after it, `Promote`, `Stage` and `Flag` conditional writes with their
answer. An answer may be lost, after which the SDK sends the command once more
(`maxAttempts: 2`) or the handler gives up (`Fail`). `Revoke` and `Forget` are the two
halves of `revoke`; `Restart` drops a replica's memory, `Purge` is the table's TTL,
`Evict` the 2048-entry limit. A hash is the number of its minting, so "later" has a
meaning. All replicas read one clock: the deployment's clock skew is not modelled.
Devices are independent items and caches are keyed by device, so one device is
enough. A write that lands after its handler gave up is the same as a handler that
stays at that write for longer, which the model allows.

### Ingest

`req` are the requests with work under way: `stage` is the await the work is at, `open` says
that the answer is still to be sent. `Arrive` takes a slot; `Accept`, `Upload`, `Forward` and
`Deliver` are the turns of a delivery, `Renewed` the one of a renewal, `Refuse` every error.
`Timeout` and `Close` win the race for the answer and release the slot; the work lingers with
its device, its verification and its aborted signal until its await ends (`Stop`), as the
code checks the signal after each. A renewal given up while it stages or promotes is a write
of `DeviceTokens` that lands late, which is modelled there. `window` is the table of `fixedWindow`,
with the entries that ended left out, as each call drops them first. `recent` is not in the
code: it remembers how long ago the latest `2 * RateLimit` deliveries of a device were
admitted, each up to a window's length, so that `RateHolds` can say of any stretch of time
how many there were. `touching` counts last-seen writes by age. Times are relative to what they measure, so runs are endless and no
clock needs a bound; a tick waits for the timers that are due.

`verify` is one step that relies on `NoStaleAcceptance` of `DeviceTokens`: it may accept only
if the secret had not been retired for `CacheTTL` when it began (`Fresh`), it may refuse at
any time, and its store calls end within `VerifyTime`. The promise is used as it is stated
there; the two modules are not joined by a refinement. Renewals are limited in windows of an
hour, far longer than anything else here: a limit reached is one of the outcomes of `Refuse`.

### QueuedBudget and ResultCache

In the budget one JavaScript call is one action: it has no await between its reads
and writes, and a release resolves the head of the queue in the same call. A caller
may call its release function again (`released`).

In the cache a job is the promise chain of one `get` that starts a load: `Get`,
`Start` (the slot arrives), `LoadEnds` or `LoadFails`, `Catch`, `Finally`. `Deadline`
is the shared deadline of `queryContext.js`, in line or during the load. A value is its
size. `entries` is the Map as a function, and `order` its insertion order, because eviction
takes the oldest settled entries: `MakesRoom` says which set that is instead of walking the
Map, and the lemma `EvictionDefined` proves that exactly one set satisfies it, so that the
action takes the step the code's loop takes.

### InsightsLease

A pod is one `generateDaily` call: `Check` (getResult), `ReadLease` and `Swap`
(acquireLease), `Collect`, `Model`, `Put`. `nowMs` is fixed when the tick starts, as in
the code, so a pod may hold a lease computed from an old clock. `Model` sends the paid
request, and may send it once more before it returns, as the SDK does (`SdkAttempts`,
`insights.js` 133). `Fault` is a crash or a command that gets no answer in 3 s, before or
after it took effect.

### CollectorRenewal

`RenewStart` takes the lock and reads token and marker; `RenewCatchUp` and `RenewUnmark`
finish a restart left behind; then `RenewPost`, `ServeRenewal`, and on a new token
`RenewMark`, `RenewReplace`, `RenewGoLive`, `RenewFinish`. `RenewGivesUp` is a failed or
killed run at any point. A request that was given up may be lost or arrive later
(`ServeStraggler`). `InstallRead` reads the token before the lock, `InstallLock` reads it
again; later steps stop the service, write, start, and roll back. The Collector may
die, is started again by the service manager, and may or may not notice a changed
file while it runs. A tick is a day.

`Serve` is `DeviceTokens`' renew in one step: one device has one renewer, and its
delivery requests can only promote, so what matters here is the order of whole
requests. It is not connected to `DeviceTokens` by a refinement.

### Counters

`Export`, `Restart` and `Insert` fill `raw`; `Merge` is the materialized view. A question
is an operator over the state, evaluated for every window `[from, to)`: `RawIncrement` and
`RollupIncrement` are `incFlat` on its two tables, with `RollupIncrement` splitting the hour
of `from` by its raw samples; `RawBuckets` and `RollupBuckets` are `incBucketed`, with the lag
over buckets; `Snapshot`, `SeriesTotal`, `Compare`, `ClientFigure` and `RawFigure` put the
bounds around them that the endpoints do. `RangeEnd` is the alignment of a past end of an
hourly question to its hour. Time is counted in minutes; a minute bucket is `Minute` of them,
aligned to the clock, so that a window may cut one: `CutAway` is what it then held since
`from`. Each sample is inserted once: duplicated samples are not modelled. The grouping, filters and joins of the SQL do not change how a
series is diffed and are left out. One sample carries its value under both temporalities, so
that each state is asked about both. A figure is only claimed to be exact if the baseline
lies within the lookback (`BaselineInReach`): beyond it the code counts a series from zero,
the trade-off documented at `LOOKBACK_DAYS`.

### ChatTurn

`msgs` and `busy` are the page, `req` one request per question. `Ask` builds the history as
`ask` does, dropping blank and error bubbles and merging adjacent turns; `Stop` aborts the
stream but leaves the server's turn to notice (`ClientGone`). `Admit` takes the slot; then
`Throttled`, `Stream`, `Reply`, `RunTool`, `SkipTool`, `QueryResult`, `HopDone` are the hops,
with no tools offered past the last; `Deadline` and `Abort` end a turn that waits for
anything. `Accepted` is Bedrock's rule for a conversation. The limiter is a nondeterministic
refusal; what a message says is left out.

### AuthSessions

`jar` is the browser's cookies; `exchange` the requests under way, each with the cookies it
was sent with; `grants`, `failures` and `revocations` the server's maps by refresh token. A
`Login` has a refresh token of its own; `died` is when the token was revoked or the access
withdrawn. `Authenticate`, `Renew` and `Logout` are the middleware up to its first await,
`Decide` the provider, which may grant, deny, or answer with what the server refuses: a
rotated refresh token or claims it cannot use (`auth.js` 244-248). `Granted` and `GrantFails`
are the settled promise for all who share it, `Deliver` and `Lose` the answer. The page's timers are `PageRenews` and `PageGivesUp`. A
full table of revocations (16, 1024) behaves as a failed revocation; a remembered success
(60 s) and failure (5 s) share one `Hold`; server and browser read one clock; the statuses 303 and 503 of a sign-out are not
told apart, as both clear the cookies.

### ApiHook

`sel` and `window` are what the user selected and the quantized clock, `cycle` the
`RefreshProvider`, `hook` the refs and state of each `useApi`, `request` the fetches under
way, given up ones included. `Render` is one commit with the effects of both hooks, the
details first, and the render that the state they set causes; `Succeed` and `Fail` are the
promise reactions. A request is for the bounds of a period (`RangeOf`), which two periods may
share (`Alike`): this month, and the calendar's 1st to today. Choosing one while a request for
the other is under way changes nothing in the hook (`Overlooked`, see Findings); `LoadsSettle`
excepts a panel whose hook did that. Two more things the model makes visible are left as they are: when identity
and period change in one commit the details first send a request with the old bounds, which
the next render aborts; and a panel that has yet to note the selection, on hold or with a
request under way, may be emptied by the failure of what it asked for before though the
selection is back at what it shows (`FreshStays` excepts it).

## Runs

| Run | Instance | Shows |
|---|---|---|
| `device_tokens` | 2 replicas, 2 requests, 2 secrets, clock to 3 | `NoStaleAcceptance`: a request that arrives `CacheTTL` after its secret was superseded, replaced or revoked is refused at every replica. `PurgeOutlivesSecrets`; `RotationMovesForward`, `RevocationIsFinal`, `NoEarlyRenewal` as action properties |
| `ingest` | 3 requests, 1 slot, 2 devices, 1 tracked window of 2 ticks, 1 last-seen write, deadline 2 | `ForwardedWhileLive`, `RateHolds`, `CapacityReturns` |
| `queued_budget` | 5 callers, 2 slots, 2 places | `SlotsAccounted`, `WorkConserving`, `NoOvertaking`, `WaitersServed` |
| `result_cache` | 3 keys, 3 jobs, 1 slot, 1 place, 2 entries, 3 bytes | `BytesExact`, `OneLoadPerKey`, `LoadsEnd`, and `BudgetContract`: the cache implements `QueuedBudget` |
| `insights_lease` | 3 pods, 2 attempts, lease of 1 tick, 1 fault | `OneWorker`, `OneWorkerPerAttempt`, `CallsBounded`, `Settles` |
| `collector_renewal` | 10 days, lifetime 5, window 2, 1 bad day in a row, 5 tokens, 2 installer reruns, 2 stragglers | `FileAccepted`, `CollectorServed`, `GoesLive` |
| `counters` | 3 samples of 2 segments, minute buckets of 2, hours of 4 and days of 8 minutes, lookback 8, clock to 9 | `FiguresExact`, `SeriesSumsToSnapshot`, `ObservedMeansMeasured`, over every window, width and fineness of the client pages |
| `counters_compare` | the same samples, hours of 2 and days of 4 minutes | violates `ComparePeriodsAdjoin`, see Findings |
| `chat_turn` | 2 questions, 2 hops, 2 calls a turn, quota 3, 1 slot, 2 messages kept | `ToolCallsAnswered`, `AnswersBelong`, `TurnsEnd` |
| `chat_first_turn` | 4 questions, 4 messages kept | violates `ConversationsAccepted`, see Findings |
| `auth_sessions` | 2 logins, the page and 1 tab, session 2, refresh session 4, provider call 1, clock to 5 | `SessionsRunOut`, `RevokedRunOut`, `SignOutJustified`, `CheckingEnds` |
| `api_hook` | 2 identities, 3 periods of which 2 have the same bounds, 2 selections, 1 window move, 1 tick, 5 requests | `ShownIsSelected`, `FreshStays`, `LoadsSettle` |

The type invariant of a module (`TypeOK`, `CollectorTypeOK`, `LeaseTypeOK`) is a theorem, and
also an invariant of the runs of `Ingest`, `ResultCache`, `ChatTurn` and `ApiHook`. `Counters`
has none of its own: its state is plain sets, typed by `TypeInv` in the proofs.
Deadlock is checked for `DeviceTokens`, `Ingest`, `QueuedBudget`, `ResultCache`, `InsightsLease` and
`CollectorRenewal`. It is not for the other four: their clock, questions or selections are
bounded, so that a behaviour may end with nothing left to do.

Bounds. Two replicas and two requests are enough for one stale cache and one racing
read or write. A third secret, with which a replacement is replaced before its first use,
is beyond this run with two replicas; the proofs remove these bounds. Three requests
behind one slot are one at work and two given up whose work lingers, or one refused; a
deadline of two ticks is longer than a
verification and a cache entry (one each), so that an upload outlasts both; two devices
compete for one tracked window. Five callers fill both slots and the line and leave one
to refuse. Two entries and three bytes make the cache evict for count and for size,
and refuse an oversized value (3 > `MaxEntryBytes`). Three pods race for a lease twice
over; two attempts are the first worker and its successor. The insights clock stops at `IdleClock` unless a lease runs, so every lease can
expire. Ten days hold two full renewals with the worst allowed gaps. Three samples put one
before the window, one in the part of the first hour before `from` and one after it. An hour
is two minute buckets of two minutes, the least in which a window cuts the bucket, the hour and
the day it begins in; ten minutes reach into the third hour
and the second day. One sample at a time on the wire still
lets it arrive after any question was asked. Two questions are one given up
on and the next; the slot they compete for makes the second one wait or be refused. Two
logins are a sign-out, or a withdrawn access, and the one after it, with cookies of both
under way. The refresh session is longer than
a session and a call together, without which it alone would keep the bound of `RevokedRunOut`;
and it ends within the clock, so that `SessionsRunOut` is put to the test too. Three periods are one to
leave for, one to come back to, and one that looks the same to the server. Five requests hold both panels' current and given-up ones at each render.

Fairness. `Ingest`: time passes, timers fire and a verification's store calls end; no
client, upstream or last-seen write is assumed to. `QueuedBudget`: whoever holds a slot releases it, as every caller has the
release in a `finally`; no fairness for timers, aborts or newcomers. `ResultCache`:
promise reactions run, the deadline timer fires, and a loader whose signal is
aborted rejects (the query client honours it); a loader is not assumed to return.
`InsightsLease`: the interval fires and every await ends by its timeout; crashes are not
fair. `CollectorRenewal`: the service manager starts an enabled service, the timer
fires, no process hangs (each command and unit has a timeout), and strong fairness
for the catch-up restart and the removal of the marker: a restart attempted on every
run succeeds eventually. `ChatTurn`: a request arrives, the deadline fires, an abort
is noticed by whatever waits, the page reads its stream; neither model nor database is
assumed to answer. `AuthSessions`: time passes, the page's timers fire, the server's calls
end within their timeout, requests end or are lost; the provider is never assumed to grant
anything. `ApiHook`: React renders and each request ends (`fetch` has a timeout on the
server's side); the user and the timer may stop. `DeviceTokens` and `Counters` state no
liveness and need no fairness.

## Findings

Two runs find the code at odds with what the repository says of it.

- `counters_compare`: for more than four hours, `costByModelCompare` ends the previous
  period at the start of the hour of `from` but begins the current one at `from` itself
  (`queries.js` 1072-1073, 1081-1082), so growth in between is counted in neither, and the
  periods differ in length although line 967 says they do not.
- `chat_first_turn`: `chat.js` 592 keeps the last `MAX_MESSAGES` turns, an even number, of an
  odd number of alternating ones. Once a chat is longer than that, the conversation begins
  with the assistant's turn, which Bedrock refuses, and every later question fails until the
  page is reloaded, the outcome that `useChatStream.js` 119-122 means to rule out.

What the other runs taught about the code:

- `CollectorServed` needs `WindowDays + MaxBadDays + 1 < TokenDays`. The run that first
  uses a replacement mints none (`verified.promoted`), so with a lifetime shorter than
  that a token could expire although every run succeeded. With 30 and 7 days the code
  has ample room. It also needs fewer consecutive bad days than the window has.
- `FileAccepted` has one exception, recorded by `displaced`: a renewal request the
  client gave up on, served only after a later run already stored its replacement,
  displaces that replacement before its first use. The device must then be enrolled
  again. The server's 3 s store limit against a timer that runs daily makes it
  unlikely; nothing excludes it when `renew` is run by hand after a timeout.
- `SeriesSumsToSnapshot` and `LoadsSettle` have exceptions of the code's own. `incBucketedRaw`
  keeps the minute buckets that begin at `from` or later (`queries.js` 508, noted at 840), so a
  `from` inside a bucket takes that bucket off the chart, while the card's snapshot (331-335)
  counts it from `from` on (`CutAway`), although lines 306-308 say that the two always see the
  same boundaries. Zooming takes `from` from a bucket's boundary; a `from` in the page's URL
  need not be on one.
- When the period is changed to one with the same bounds while the request is under way,
  `useApi.js` returns at 131 before it notes the period (138-140). The answer is stored under
  the old one and its numbers, which are right, stay marked stale until the next refresh
  (`Overlooked`), with no request to wait for.
- `CallsBounded` allows two paid requests an attempt: the Bedrock client has `maxAttempts: 2`
  (`insights.js` 133), where `docs/reference/iac.md` 171-173 speaks of one model call.
- `SignOutJustified` counts a refused answer as a reason: a provider that rotates the refresh
  token, or sends claims the server cannot use, signs out a login that stands (`auth.js`
  244-248), as `auth.test.js` 523-531 asserts.

## Proofs

All ten models are proved about, each from the assumption on its constants and nothing else:
for any sets of replicas, requests, devices, callers, keys, jobs, pods, tabs, identities and
periods, any number of samples, selections and refreshes, and any times, sizes and limits. In
`Ingest`, `RateHolds` is proved for any limit of a window, though the run has one of 1. Every
safety invariant and action property of the passing runs is stated by a theorem.

Two assumptions say more than that a constant is a number. `Counters`: a minute bucket is
shorter than an hour (half of one at most, `RangeContext.jsx`), a day and the lookback are made of hours, the lookback is a day or more
(`LOOKBACK_DAYS = 3`, `queries.js` 253), a question answered from raw rows may span an hour
(four, line 312), and a fine bucket is at most an hour. `ApiHook`: there is a selection from
the start, `NoKey`, the code's null, is none, and the periods alike are some of the periods, any
of them.

| Module | Theorem | Property of a run |
|---|---|---|
| `DeviceProofs`, on tokens | `TypeCorrect` | - |
| | `InductiveInvariant` | - |
| | `StaleNeverAccepted` | `NoStaleAcceptance` |
| | `PurgeIsLate` | `PurgeOutlivesSecrets` |
| | `RotationForward` | `RotationMovesForward` |
| | `RevocationFinal` | `RevocationIsFinal` |
| | `RenewalIsDue` | `NoEarlyRenewal` |
| `QueuedBudgetProofs` | `InductiveInvariant`, `TypeCorrect` | - |
| | `SlotsNeitherLostNorDoubled` | `SlotsAccounted` |
| | `NobodyWaitsBesideAFreeSlot` | `WorkConserving` |
| | `ServedInOrder` | `NoOvertaking` |
| `AssistantProofs`, on insights | `LeaseInvariant`, `LeaseTyped` | - |
| | `OnePodWorks` | `OneWorker` |
| | `AttemptsNotShared` | `OneWorkerPerAttempt` |
| | `PaidCallsBounded` | `CallsBounded` |
| `AuthSessionsProofs` | `InductiveInvariant`, `TypeCorrect` | - |
| | `SessionsEnd` | `SessionsRunOut` |
| | `RevocationIsBounded` | `RevokedRunOut` |
| | `OnlyReasonsSignOut` | `SignOutJustified` |
| `DeviceProofs`, on renewal | `CollectorInvariant`, `CollectorTyped` | - |
| | `NeverLockedOut` | `FileAccepted` |
| | `AlwaysServed` | `CollectorServed` |
| `IngestProofs` | `InductiveInvariant` | - |
| | `SlowUploadsExtendNothing` | `ForwardedWhileLive` |
| | `RateLimited` | `RateHolds` |
| | `TypeCorrect` | `TypeOK` |
| | `SlotsCounted` | - |
| `ResultCacheProofs` | `TypeCorrect` | `TypeOK` |
| | `BytesNeverDrift` | `BytesExact` |
| | `LoadsShared` | `OneLoadPerKey` |
| | `BudgetUsedAsAgreed` | `BudgetContract` |
| | `SlotsFollowChains`, `LoadersBounded` | - |
| `AssistantProofs`, on chat | `CallsAnswered` | `ToolCallsAnswered` |
| | `AnswersKept` | `AnswersBelong` |
| | `TypeCorrect` | `TypeOK` |
| | `SlotsCounted` | - |
| `PagesProofs`, on figures | `InductiveInvariant` | - |
| | `ChartsAddUp` | `SeriesSumsToSnapshot` |
| | `FiguresAreExact` | `FiguresExact` |
| | `ObservedIsMeasured` | `ObservedMeansMeasured` |
| `PagesProofs`, on hooks | `HooksStaySound` | - |
| | `HooksTyped` | `TypeOK` |
| | `SelectionIsShown` | `ShownIsSelected` |
| | `NumbersStay` | `FreshStays` |

None of these safety properties is inductive. For `DeviceTokens`, `IInv` adds:

- `ItemInv`: a pending secret is younger than the current one, both were minted, and
  the secrets of a stored, unrevoked item are not retired;
- `HandlerInv`: what a read brought back was live when the read was sent, and the clock
  readings a handler keeps are in order. This is what bounds the age of an acceptance;
- `EntryInv`: a cache entry ends no later than `CacheTTL` after its secret was retired. It
  holds because the code counts the ten seconds from `readStarted`; counted from the end
  of the read (`CachedFromReadEnd`) the invariant and the property fail;
- `OnePredecessor`: everyone who saw a pending secret saw the same current secret beside
  it. `promote` does not compare `secretHash`, so this is what makes `previousHash`
  correct when two replicas race;
- `OneExpiry`: one secret has one expiry wherever it is kept, so that a renewal decided
  on a cached record decides as the store would;
- `PurgeOutlivesSecrets` itself.

For `QueuedBudget` it adds `LineInv`: exactly the waiting callers stand in line, each once.
A release then hands its slot to a caller that held none, and the count of holders stays;
the set of holders is finite although the set of callers need not be.

For `InsightsLease`:

- `ReadInv`: a lease that a pod is about to replace had expired by the pod's own clock when
  it was read, and was not the last attempt;
- `WorkInv`: a pod at work holds the attempt of the running lease, or of one that expired;
- `WinInv`: two pods at work hold different attempts (`OneWorkerPerAttempt`), and a result
  that a repeated command finds is of an attempt that was taken. It follows from the compare in
  the conditional write, and gives `OneWorker` with `WorkInv`;
- `CallInv`: the requests sent, two for each pod that has yet to call the model and one for each
  whose SDK may send again, are no more than twice the attempts taken. The SDK's second request
  is thus paid from the attempt it belongs to.

For `AuthSessions`:

- `OneExpiry`: refresh cookies of one login end together, wherever they are under way;
- `SessionInv`: a session cookie, kept or to be set, ends with every refresh cookie of its
  login, and as `RevokedRunOut` says. The second bound does not use the first: it holds for
  a refresh session of any length;
- `GrantInv`: a grant was asked before its login ended if it was granted, is denied only
  after, and one with an answer the server refuses is on record (`unusable`). This is where the
  call's timeout enters the bound on a session;
- `EndInv`: answers that clear the cookies, and remembered refusals, belong to logins that
  ended, to one the provider answered with what the server refuses, or to a sign-out.

For `CollectorRenewal`, with `LastGood` the last day of a complete run:

- `OrderInv`, `RenewerInv`, `InstallerInv`: what the file, the Collector and late requests hold
  is never newer than the file, the renewer works on the file it read, and the installer, alone
  under the lock, puts back what it found;
- `LagInv`: a Collector behind the file is remembered by the marker, and no request with the
  file's token was sent beside it. This is what the restart before the request is for;
- `FileInv`: the file's token is the current one, good for longer than the window after
  `LastGood`, or the pending one, no older than that;
- `HeldInv`, `AnswerInv`: a Collector behind the file holds the token before it, and what the
  server answered still stands when the run goes on.

The last three hold until a late request displaced a replacement (`displaced`). With the
assumption on the window and the lifetime, `FileInv` gives `FileAccepted`, and with
`HeldInv` `CollectorServed`.

For `Ingest`:

- `FreshInv`: a token that a verification may accept is live, or was retired for less than
  `CacheTTL` and the time the verification has been running. It starts anew with the second
  verification, which is why the upload's length does not enter the bound.

- `RateInv`: `recent` is in order of age; the first delivery counted in an open window is as
  old as that window, and the one `RateLimit` before it is out of reach. At most two windows
  meet in any stretch of a window's length, so at most twice the limit is admitted in it;
- `SlotInv`: the slots in use are those of the open requests. An answer is sent once, so a
  slot is given back once, whoever wins the race for the answer;
- `TouchInv`: the last-seen writes counted by age are as many as are under way, and never
  more than the limit.

For `ResultCache`:

- `CacheInv`: `order` is a strict total order of the entries; an entry still pending counts
  no bytes; `bytes` is the sum of the sizes, within the limits. The sum is the library's fold over a set, whose laws (an element
  added, removed or changed) `SumTheorems` proves by induction over finite sets;
- `OneLoadPerKey` itself, in both directions: a load owns the pending entry of its key, and a
  pending entry has a chain that will settle it;
- `SlotsOfChains`, beside `IInv`: a caller of the budget waits, holds a slot or gave it back
  as the job's chain stands. It is what the refinement needs: each step of the cache maps to
  a step of `QueuedBudget` or changes none of its variables, so that what is proved there
  holds here. `LoadersBounded` uses that: no more loaders run at a time than there are slots,
  whatever the cache's deadline cut short.

For `ChatTurn`:

- `TurnInv`, one request: its conversation alternates roles; in a model call it ends in the
  user's turn and its results match the calls before them; while tools run it ends in the
  assistant's turn, with no more results than calls and a hop left;
- `PageInv`: only the last question's stream is still read, and while it is, the page ends in
  that question and its bubble. A reader that went on after its abort (`ShowTextUnchecked`)
  would write under another question;
- one slot for each turn still running.

`HistoryKeeps` is the lemma `AnswersBelong` rests on. The history is a fold over the
page's messages; an induction over its prefixes shows that dropping blank and error bubbles
and merging neighbours leaves every answer under its question, alternating roles, and the new
question last.

For `Counters`:

- `OrderInv`: samples of a segment are ordered in time as in value, one a minute, and none is
  inserted twice (see Counters). A late sample thus fits between those before and after it;
- `HourInv`: a row of the roll-up is, under both temporalities, the level of its hour's raw
  samples: their maximum or their sum. Whatever order samples arrive in, the view keeps it.

The rest is about the operators, in any such state. The raw rows and the roll-up agree on the
level of a series at the start of an hour, and the hour split at `from` makes up the difference
(`HourLevelSplits`); so each increment is a difference of two levels (`RawIncrementIs`,
`RollupIncrementIs`). A chart whose bars are each the rise from the bar before sums to the
last level less the first, for a minute chart from its first whole bucket on (`ChartTotal`, over the telescoping sum of `SumTheorems`), and the
first bucket of a roll-up chart, a cut hour, fits between its neighbours (`FirstBucketLies`).
A figure of the client pages, which adds a raw part to a roll-up part, falls apart at the label
of the split (`SplitLabels`). `FiguresExact` then needs only that no growth lies before the
lookback, which `BaselineInReach` says.

For `ApiHook`:

- `Sound`: `pendingRequests` is the number of live refreshes; a live request is its hook's
  current one and asks for what the hook will label its answer with; what is shown carries its
  labels, and a hook that waits for another period compares the answer with none;
- `Suits`: a details request under way was sent with the bounds of the period it asked for, or
  of one alike. When
  identity and period change together a request with the old bounds is sent, and the render in
  which the overview's effect empties its data gives it up: this is proved of a whole commit,
  the state a commit ends in being the invariant's (`RenderPage`);
- `Heard`, `Together`: each effect ran for what it depends on, and both ran in the same
  renders, so that the details never show another identity's data than the overview waits for.

A commit is two effects and at most one more pass of the details. `EffectRuns` says what an
effect may change: its hook's data stays, with its labels, or goes. With the first the bounds
stay and the second pass does nothing; with the second it disables the details.

Each action has a lemma per part it can disturb, and the temporal theorems combine
them with PTL. The library's induction theorems take an operator as a parameter, which the
provers cannot instantiate: where a fold is reasoned about, `NatSetInduction` and
`SubsetInduction` of `SumTheorems` state induction for a set in place of the predicate and are proved from
the well-foundedness of `<` and of the strict subset order.

Model-checked only: liveness (`WaitersServed`, `LoadsEnd`, `Settles`, `GoesLive`, `TurnsEnd`,
`CheckingEnds`, `LoadsSettle`, `CapacityReturns`), as fairness and ENABLED are outside the
prover. The two violations under Findings are of course not theorems.

## Not modelled

Of the modelled components:

- device tokens: display fields (`createdAt`, `renewedAt`, `lastSeenAt`), listing and paging of
  devices, token syntax, and rate-limit windows (a refused renewal is a nondeterministic
  outcome);
- ingestion: syntactic checks of requests and configuration, response limits, the limit on
  renewals and mintings, the management routes around `DeviceTokens`, package downloads;
- insights: the aggregation SQL, the check of the model's answer, the 90-day purge, the
  read-only handler with its memo;
- the installer: uninstall, first installation or re-enrolment with another device's token,
  legacy migration, client configuration, and a power loss that undoes a completed rename;
- sessions: sealing of cookies, what the claims say, the login transaction's state and nonce,
  basic authentication, roles, a browser whose clock differs from the server's;
- chat: validation and masking of SQL, prompts, paging of results, the limiter's windows;
- queries: duplicated samples, grouping, filters, joins, the event and session queries, and ClickHouse's client;
- web client: the pages and charts, which render what the hooks hold.

Not modelled at all:

- factor cache: one map of shared promises, whose interleavings its own tests drive;
- alert loop: one loop around a pure plan; price catalogue and discovery: parsing, with the
  previous layer kept on failure;
- HTTP application: routing, cache keys and shutdown around the parts that are modelled, and
  fixed-window limiters;
- metrics and pricing: pure functions over floating-point money; Cognito sync: one sequential
  pass that keeps nothing; infrastructure, schema, scripts, site.

Most of the source lines are in these last groups: queries as SQL text, rendering, parsing
and tables, where a state machine has nothing to say and table tests do. What is modelled is
where several actors, retries or clocks meet.

## Possible extensions

`FactorCache` (a subscriber never waits on a cancelled lookup), `Alerting` with overlapping
ticks; a single-token abstraction of a device that `DeviceTokens` implements and that
`Ingest` and `CollectorRenewal` use.
