------------------------------- MODULE ApiHook -------------------------------
(***************************************************************************)
(* What the dashboard's pages show (web/src/useApi.js, RefreshContext.jsx, *)
(* composed as pages/Clients.jsx does).  A hook loads what the user has    *)
(* selected: an identity (path, filters) and a period.  While a period     *)
(* loads, the numbers of the previous one stay on screen, marked stale; a  *)
(* change of identity clears them.  What a request asks for is a period's  *)
(* range, and two periods may have the same one.  The details panel        *)
(* follows the bounds that the overview's answer reports, and holds while  *)
(* those are stale.                                                        *)
(*                                                                         *)
(* React renders after state changed, and a hook's effect runs when what   *)
(* it depends on differs from the last run; answers may arrive before that *)
(* render, and late answers of requests that were given up arrive too.     *)
(***************************************************************************)
EXTENDS Naturals, FiniteSets

CONSTANTS
    Identities, Periods,
    Alike,              \* periods of one range: "this month" and its days up to today
    MaxSelections,      \* changes of the selection, and visits to the page
    MaxWindow,          \* moves of the quantized window
    MaxTicks,           \* refreshes
    Slots               \* requests under way, those given up included

NoKey == "none"

ASSUME HookAssumption ==
    /\ {MaxSelections, MaxWindow, MaxTicks} \subseteq Nat /\ Slots \in Nat \ {0}
    /\ Identities # {} /\ Periods # {} /\ Alike \subseteq Periods
    /\ NoKey \notin Identities \cup Periods

VARIABLES
    sel,        \* the selection, and how many there were
    window,     \* quantizedNow
    cycle,      \* RefreshProvider: tick, skipNext, pendingRequests
    hook,       \* what each hook knows and shows
    request     \* the requests under way, by slot

hookVars == <<sel, window, cycle, hook, request>>

Hooks == {"overview", "details"}
\* from, to and intervalHours of a period, up to the quantized window.
RangeOf(period) == IF period \in Alike THEN Alike ELSE {period}
Ranges == {RangeOf(p) : p \in Periods}
NoData == [identity |-> NoKey, range |-> {}, window |-> 0]
Data == [identity : Identities, range : Ranges, window : 0..MaxWindow] \cup {NoData}
Free == [hook |-> NoKey, identity |-> NoKey, period |-> NoKey, content |-> NoData,
         retain |-> FALSE, clears |-> FALSE, live |-> FALSE]
Mounted == [data |-> NoData, loading |-> TRUE, error |-> FALSE,
            shownIdentity |-> NoKey, shownPeriod |-> NoKey,
            inflight |-> 0, params |-> <<>>, identity |-> NoKey, period |-> NoKey,
            pendingPeriod |-> FALSE, payload |-> NoData, deps |-> <<>>]

\* No filter, and the default period.
DefaultSelection ==
    [identity |-> CHOOSE i \in Identities : TRUE, period |-> CHOOSE p \in Periods : TRUE, count |-> 0]

TypeOK ==
    /\ sel \in [identity : Identities, period : Periods, count : 0..MaxSelections]
    /\ window \in 0..MaxWindow
    /\ cycle \in [tick : 0..MaxTicks, skipNext : BOOLEAN, pending : Nat]
    /\ DOMAIN hook = Hooks /\ DOMAIN request = 1..Slots
    /\ \A h \in Hooks :
        /\ {hook[h].data, hook[h].payload} \subseteq Data
        /\ {hook[h].identity, hook[h].shownIdentity} \subseteq Identities \cup {NoKey}
        /\ {hook[h].period, hook[h].shownPeriod} \subseteq Periods \cup {NoKey}
        /\ {hook[h].loading, hook[h].error, hook[h].pendingPeriod} \subseteq BOOLEAN
        /\ hook[h].inflight # 0 => request[hook[h].inflight].hook = h /\ request[hook[h].inflight].live
    \* The refresh indicator shows exactly the refreshes under way.
    /\ cycle.pending = Cardinality({n \in 1..Slots : request[n].live /\ request[n].retain})

HookInit ==
    /\ sel = DefaultSelection
    /\ window = 0
    /\ cycle = [tick |-> 0, skipNext |-> FALSE, pending |-> 0]
    /\ hook = [h \in Hooks |-> Mounted]
    /\ request = [n \in 1..Slots |-> Free]

-----------------------------------------------------------------------------
(* Rendering.                                                              *)

\* Computed in render: data of another period of the same view waits for the new one.
Stale(s) ==
    s.data # NoData /\ ~s.loading /\ s.shownIdentity = sel.identity /\ s.shownPeriod # sel.period

\* Faulty: the details do not wait for the overview's new bounds.
InputsWithoutHold(hooks, h) ==
    LET o == hooks["overview"]
    IN IF h = "overview" THEN [enabled |-> TRUE, hold |-> FALSE, bounds |-> NoData]
       ELSE [enabled |-> ~o.loading /\ ~o.error /\ o.data # NoData, hold |-> FALSE,
             bounds |-> [o.data EXCEPT !.identity = NoKey]]

\* What Clients passes to each hook: the details follow the overview's answer.
Inputs(hooks, h) ==
    LET o == hooks["overview"]
    IN IF h = "overview" THEN [enabled |-> TRUE, hold |-> FALSE, bounds |-> NoData]
       ELSE [enabled |-> ~o.loading /\ ~o.error /\ o.data # NoData, hold |-> Stale(o),
             bounds |-> [o.data EXCEPT !.identity = NoKey]]

Deps(hooks, h) == <<sel.identity, sel.period, cycle.tick, Inputs(hooks, h)>>
Rendered == \A h \in Hooks : hook[h].deps = Deps(hook, h)

-----------------------------------------------------------------------------
(* The effect of one hook, on w = [hook, request, pending].                *)

\* Aborting finishes the request for the refresh indicator at once.
Abort(w, h) ==
    LET n == w.hook[h].inflight
    IN IF n = 0 THEN w
       ELSE [hook |-> [w.hook EXCEPT ![h].inflight = 0],
             request |-> [w.request EXCEPT ![n].live = FALSE],
             pending |-> w.pending - (IF w.request[n].retain THEN 1 ELSE 0)]

Disable(w, h) ==
    LET a == Abort(w, h)
    IN [a EXCEPT !.hook[h] = [@ EXCEPT !.params = <<>>, !.identity = NoKey, !.period = NoKey,
                              !.pendingPeriod = FALSE, !.payload = NoData,
                              !.loading = TRUE, !.error = FALSE]]

\* Faulty: whatever the request under way asks for, no other is sent.
DroppedAlways(s, params) == s.inflight # 0

\* A refresh is dropped while a request for the same parameters is under way: and so is
\* the choice of another period of the same range, which the hook then does not note.
Dropped(s, params) == params = s.params /\ s.inflight # 0

\* Faulty: any change of the period waits, even one back to the period on screen.
AwaitsPeriodAlways(s, retain) == retain

\* The data on screen is of another period than the one now asked for.
AwaitsPeriod(s, retain) == retain /\ s.shownPeriod # sel.period

\* The hook's state once it asks for the current selection.
Selected(s, params, retain) ==
    LET asked == [s EXCEPT !.params = params, !.identity = sel.identity, !.period = sel.period]
    IN IF s.identity = sel.identity /\ s.period = sel.period THEN asked
       ELSE IF retain
       THEN [asked EXCEPT !.payload = NoData, !.pendingPeriod = AwaitsPeriod(s, TRUE)]
       ELSE [asked EXCEPT !.payload = NoData, !.pendingPeriod = FALSE, !.data = NoData,
                          !.loading = TRUE, !.error = FALSE,
                          !.shownIdentity = NoKey, !.shownPeriod = NoKey]

Ask(w, h, in, params) ==
    LET s == w.hook[h]
        a == IF params # s.params THEN Abort(w, h) ELSE w
        n == CHOOSE m \in 1..Slots : a.request[m] = Free
        retain == s.identity = sel.identity /\ s.data # NoData
        bounds == IF h = "overview" THEN [range |-> RangeOf(sel.period), window |-> window]
                  ELSE in.bounds
        r == [hook |-> h, identity |-> sel.identity, period |-> sel.period,
              content |-> [identity |-> sel.identity, range |-> bounds.range, window |-> bounds.window],
              retain |-> retain, live |-> TRUE,
              clears |-> ~retain /\ ~(s.identity = sel.identity /\ s.period = sel.period)]
    IN [hook |-> [a.hook EXCEPT ![h] = [Selected(s, params, retain) EXCEPT !.inflight = n]],
        request |-> [a.request EXCEPT ![n] = r],
        pending |-> a.pending + (IF retain THEN 1 ELSE 0)]

Effect(w, h, in) ==
    LET params == <<sel.identity, RangeOf(sel.period), window, in.bounds>>
    IN IF ~in.enabled THEN Disable(w, h)
       ELSE IF in.hold \/ Dropped(w.hook[h], params) THEN w
       ELSE Ask(w, h, in, params)

\* The effect of h, if what it depends on changed, after those that led to v: it sees
\* the selection and the state that were rendered, those of w.
Run(w, v, h) ==
    LET deps == Deps(w.hook, h)
        done == IF w.hook[h].deps = deps THEN v ELSE Effect(v, h, Inputs(w.hook, h))
    IN [done EXCEPT !.hook[h].deps = deps]

\* A render, and the one after it for the state that its effects set: a request that
\* the first sends is not answered before the second.
Render ==
    /\ ~Rendered
    /\ Cardinality({n \in 1..Slots : request[n] = Free}) >= 3
    /\ \E w \in {[hook |-> hook, request |-> request, pending |-> cycle.pending]} :
       \E d \in {Run(w, w, "details")} : \E first \in {Run(w, d, "overview")} :
       \E e \in {Run(first, first, "details")} : \E last \in {Run(first, e, "overview")} :
            /\ hook' = last.hook /\ request' = last.request
            /\ cycle' = [cycle EXCEPT !.pending = last.pending]
    /\ UNCHANGED <<sel, window>>

-----------------------------------------------------------------------------
(* The user, the clock, the server.                                        *)

\* Another filter, or another period.
Select ==
    /\ sel.count < MaxSelections
    /\ \E i \in Identities, p \in Periods :
        /\ <<i, p>> # <<sel.identity, sel.period>>
        /\ sel' = [identity |-> i, period |-> p, count |-> sel.count + 1]
    /\ UNCHANGED <<window, cycle, hook, request>>

\* The page is left, which aborts its requests, and visited again.
Revisit ==
    LET w == Abort(Abort([hook |-> hook, request |-> request, pending |-> cycle.pending],
                         "details"), "overview")
    IN /\ sel.count < MaxSelections
       /\ sel' = [sel EXCEPT !.count = @ + 1]
       /\ hook' = [h \in Hooks |-> Mounted]
       /\ request' = w.request /\ cycle' = [cycle EXCEPT !.pending = w.pending]
       /\ UNCHANGED window

WindowMoves ==
    /\ window < MaxWindow
    /\ window' = window + 1
    /\ UNCHANGED <<sel, cycle, hook, request>>

\* The interval's timer, which skips one turn after a failure.
Timer ==
    /\ cycle.tick < MaxTicks
    /\ cycle' = IF cycle.skipNext THEN [cycle EXCEPT !.skipNext = FALSE]
                ELSE [cycle EXCEPT !.tick = @ + 1]
    /\ UNCHANGED <<sel, window, hook, request>>

\* The refresh button, or a hidden tab shown again.
RefreshNow ==
    /\ cycle.tick < MaxTicks
    /\ cycle' = [cycle EXCEPT !.tick = @ + 1]
    /\ UNCHANGED <<sel, window, hook, request>>

Current(n) == request[n].live /\ hook[request[n].hook].inflight = n

\* Faulty: a request that was aborted is finished again when it ends.
FinishedAgain(n) == cycle.pending - (IF request[n].retain /\ cycle.pending > 0 THEN 1 ELSE 0)

\* A request ends: the indicator no longer counts it, however often it was finished.
Finished(n) == cycle.pending - (IF request[n].live /\ request[n].retain THEN 1 ELSE 0)

\* The answer of the hook's own request is shown; the same payload keeps the data it has.
Succeed(n) ==
    LET r == request[n]
        s == hook[r.hook]
    IN /\ r # Free
       /\ hook' = IF ~Current(n) THEN hook
                  ELSE [hook EXCEPT ![r.hook] =
                    [s EXCEPT !.inflight = 0, !.pendingPeriod = FALSE, !.payload = r.content,
                              !.data = IF r.content = s.payload THEN s.data ELSE r.content,
                              !.loading = FALSE, !.error = FALSE,
                              !.shownIdentity = r.identity, !.shownPeriod = r.period]]
       /\ cycle' = [cycle EXCEPT !.pending = Finished(n)]
       /\ request' = [request EXCEPT ![n] = Free]
       /\ UNCHANGED <<sel, window>>

\* A first load, or the load of a new period, fails: the error takes the data's place.
\* A failed refresh leaves the data and is reported to the refresh cycle.
Fail(n) ==
    LET r == request[n]
        s == hook[r.hook]
        clears == r.clears \/ s.pendingPeriod
        settled == [s EXCEPT !.inflight = 0, !.loading = FALSE]
        emptied == [settled EXCEPT !.pendingPeriod = FALSE, !.data = NoData, !.error = TRUE,
                                   !.shownIdentity = NoKey, !.shownPeriod = NoKey]
    IN /\ r # Free
       /\ hook' = IF ~Current(n) THEN hook
                  ELSE [hook EXCEPT ![r.hook] = IF clears \/ s.data = NoData THEN emptied ELSE settled]
       /\ cycle' = [cycle EXCEPT !.pending = Finished(n),
                                 !.skipNext = @ \/ (Current(n) /\ ~clears)]
       /\ request' = [request EXCEPT ![n] = Free]
       /\ UNCHANGED <<sel, window>>

HookNext ==
    \/ Render \/ Select \/ Revisit \/ WindowMoves \/ Timer \/ RefreshNow
    \/ \E n \in 1..Slots : Succeed(n) \/ Fail(n)

HookSpec == HookInit /\ [][HookNext]_hookVars

\* React renders and every request ends; the user and the timer may stop.
HookFairSpec == HookSpec /\ WF_hookVars(Render) /\ \A n \in 1..Slots : WF_hookVars(Succeed(n) \/ Fail(n))

-----------------------------------------------------------------------------
(* Properties.                                                             *)

Shows(h) == hook[h].data # NoData /\ ~hook[h].loading /\ ~hook[h].error

\* Once rendered, a panel that shows numbers without marking them stale shows those of
\* the selected filters and the selected period's range: the details included, which ask
\* for the bounds of another hook's answer.
ShownIsSelected ==
    Rendered => \A h \in Hooks :
        Shows(h) /\ ~Stale(hook[h]) => /\ hook[h].data.identity = sel.identity
                                 /\ hook[h].data.range = RangeOf(sel.period)

\* Once rendered, numbers of the current selection leave the screen only when the
\* selection changes: not because a refresh failed, nor because the load of another
\* period, chosen and left again, did.  A panel that has yet to note the selection is
\* excepted: on hold, or with a request under way that the selection's own would repeat,
\* it may be emptied by the failure of what it asked for before.
FreshStays ==
    [][\A h \in Hooks :
        /\ Rendered /\ Shows(h) /\ ~Stale(hook[h]) /\ sel' = sel
        /\ hook[h].identity = sel.identity /\ hook[h].period = sel.period
        => hook'[h].data # NoData]_hookVars

\* The page is rendered, the request of h has ended, and the hook has not noted the
\* selected period, because that request was for the same range.
Overlooked(h) ==
    /\ Rendered /\ Inputs(hook, h).enabled /\ ~Inputs(hook, h).hold
    /\ hook[h].inflight = 0
    /\ hook[h].period # sel.period /\ RangeOf(hook[h].period) = RangeOf(sel.period)

Waiting(h) == Inputs(hook, h).enabled /\ (hook[h].loading \/ Stale(hook[h]))

\* A panel that loads, or shows stale numbers, does not stay so: refreshes that are
\* dropped, requests that are given up and the hold leave none waiting, but where its
\* hook, or the overview's that the details follow, overlooked the choice of a period.
LoadsSettle ==
    \A h \in Hooks : Waiting(h) ~> (~Waiting(h) \/ Overlooked(h) \/ Overlooked("overview"))
=============================================================================
