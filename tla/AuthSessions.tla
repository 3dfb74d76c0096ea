---------------------------- MODULE AuthSessions ----------------------------
(***************************************************************************)
(* Renewable OIDC sessions: the server (auth.js) keeps none, a browser's   *)
(* cookies are the session.  A session cookie is good for MaxAge and is    *)
(* renewed with the refresh token in the refresh cookies; sign-out clears  *)
(* both and revokes the token.  Several requests of one browser are under  *)
(* way together, each with the cookies it was sent with, and the cookies   *)
(* they set take effect in the order their answers arrive.  The page       *)
(* (SessionBoundary.jsx) renews its session through /api/session.          *)
(*                                                                         *)
(* A login is one authorization code grant with its own refresh token; the *)
(* identity provider is external.  Time is a clock bounded by MaxNow.      *)
(***************************************************************************)
EXTENDS Integers, FiniteSets, FiniteSetsExt

CONSTANTS
    MaxAge, RefreshMaxAge,  \* SESSION_MAX_AGE_SECONDS, SESSION_REFRESH_MAX_AGE_SECONDS
    Window, Lead,           \* how early the server, and the page, renew a session
    Hold,                   \* how long a failed grant or revocation is remembered
    Timeout,                \* of a call to the provider
    MaxGrants,              \* concurrent grants
    Tabs,                   \* the browser's requests besides the page's own
    Logins, MaxNow

ASSUME AuthAssumption ==
    /\ {MaxAge, RefreshMaxAge, Window, Lead, Hold, Timeout, MaxGrants, Logins, MaxNow} \subseteq Nat
    /\ Lead <= Window

VARIABLES
    now,
    logins,         \* logins so far
    died,           \* login -> when its token was revoked or its access withdrawn
    unusable,       \* logins that stand, but a refresh brought what the server refuses
    jar,            \* the browser's cookies
    grants,         \* refreshes: login -> the grant under way
    failures,       \* refreshFailures: login -> until when, and of what kind
    revocations,    \* revocationResults: login -> until when
    exchange,       \* the requests under way
    page            \* what SessionBoundary knows

vars == <<now, logins, died, unusable, jar, grants, failures, revocations, exchange, page>>

Ids == 1..Logins
Exchanges == Tabs \cup {"page"}
Never == MaxNow + 1
None == [login |-> 0, exp |-> 0]
Outcomes == {"none", "asked", "granted", "unusable", "denied"}
NoGrant == [phase |-> "none", at |-> 0]
NoFailure == [until |-> 0, reauthenticate |-> FALSE]
Idle == [kind |-> "none", phase |-> "idle", session |-> None, refresh |-> None,
         status |-> 0, set |-> "nothing", cookie |-> None]
SignedOut == [expires |-> 0, refreshExpires |-> 0, unauthorized |-> TRUE]
Cookie == [login : 0..Logins, exp : 0..(MaxNow + RefreshMaxAge)]

TypeOK ==
    /\ now \in 0..MaxNow /\ logins \in 0..Logins
    /\ died \in [Ids -> 0..Never] /\ unusable \subseteq Ids
    /\ jar \in [session : Cookie, refresh : Cookie]
    /\ grants \in [Ids -> [phase : Outcomes, at : 0..MaxNow]]
    /\ Cardinality({l \in Ids : grants[l].phase # "none"}) <= MaxGrants
    /\ failures \in [Ids -> [until : 0..(MaxNow + Hold), reauthenticate : BOOLEAN]]
    /\ revocations \in [Ids -> 0..(MaxNow + Hold)]
    /\ exchange \in [Exchanges -> [kind : {"none", "api", "session", "logout"},
                        phase : {"idle", "sent", "renewing", "revoking", "answered"},
                        session : Cookie, refresh : Cookie, status : {0, 200, 401, 503},
                        set : {"nothing", "session", "clear"}, cookie : Cookie]]
    /\ page \in [expires : Nat, refreshExpires : Nat, unauthorized : BOOLEAN]

Init ==
    /\ now = 0 /\ logins = 0
    /\ died = [l \in Ids |-> Never] /\ unusable = {}
    /\ jar = [session |-> None, refresh |-> None]
    /\ grants = [l \in Ids |-> NoGrant]
    /\ failures = [l \in Ids |-> NoFailure]
    /\ revocations = [l \in Ids |-> 0]
    /\ exchange = [x \in Exchanges |-> Idle]
    /\ page = SignedOut

\* What is left of a cookie a moment later.
Kept(cookie) == IF cookie.exp > now + 1 THEN cookie ELSE None

\* Time passes, though not past the timeout of a call to the provider.  The browser
\* drops the cookies, and the server the outcomes, whose time is over.
Tick ==
    /\ now < MaxNow
    /\ \A l \in Ids : grants[l].phase # "none" => now < grants[l].at + Timeout
    /\ now' = now + 1
    /\ jar' = [session |-> Kept(jar.session), refresh |-> Kept(jar.refresh)]
    /\ failures' = [l \in Ids |-> IF failures[l].until > now' THEN failures[l] ELSE NoFailure]
    /\ revocations' = [l \in Ids |-> IF revocations[l] > now' THEN revocations[l] ELSE 0]
    /\ UNCHANGED <<logins, died, unusable, grants, exchange, page>>

-----------------------------------------------------------------------------
(* The browser and the page.                                               *)

Valid(cookie) == cookie.exp > now
EndOf(refresh) == Min({now + MaxAge, refresh.exp})

\* sessionInfo: an expiry the page may renew at only when both cookies are of one login.
RenewableUntil(session, refresh) ==
    IF Valid(refresh) /\ refresh.login = session.login THEN refresh.exp ELSE 0

\* /auth/callback: new cookies of a new login, and a page loaded with them.
Login ==
    LET l == logins + 1
        refresh == [login |-> l, exp |-> now + RefreshMaxAge]
        session == [login |-> l, exp |-> EndOf(refresh)]
    IN /\ page.unauthorized /\ logins < Logins /\ now + RefreshMaxAge <= MaxNow
       /\ logins' = l
       /\ jar' = [session |-> session, refresh |-> refresh]
       /\ page' = [expires |-> session.exp, refreshExpires |-> refresh.exp, unauthorized |-> FALSE]
       /\ exchange' = [exchange EXCEPT !["page"] = Idle]
       /\ UNCHANGED <<now, died, unusable, grants, failures, revocations>>

\* The administrator withdraws the login's access at the provider.
Withdraw(l) ==
    /\ l <= logins /\ died[l] = Never
    /\ died' = [died EXCEPT ![l] = now]
    /\ unusable' = unusable \ {l}
    /\ UNCHANGED <<now, logins, jar, grants, failures, revocations, exchange, page>>

Send(x, kind) ==
    /\ exchange[x].phase = "idle"
    /\ exchange' = [exchange EXCEPT ![x] = [Idle EXCEPT !.kind = kind, !.phase = "sent",
                                    !.session = jar.session, !.refresh = jar.refresh]]

\* A data request of a tab, or the sign-out form.
Browse(x) ==
    /\ Send(x, "api") \/ (~page.unauthorized /\ Send(x, "logout"))
    /\ UNCHANGED <<now, logins, died, unusable, jar, grants, failures, revocations, page>>

Renewable == page.refreshExpires > now
Checking == ~page.unauthorized /\ now >= page.expires

\* SessionBoundary's renew: shortly before the session ends, and again until it is.
PageRenews ==
    /\ ~page.unauthorized /\ Renewable /\ now + Lead >= page.expires
    /\ Send("page", "session")
    /\ UNCHANGED <<now, logins, died, unusable, jar, grants, failures, revocations, page>>

\* Faulty: a page that once could renew its session waits on when it no longer can.
PageGivesUpUnrenewable ==
    /\ Checking /\ page.refreshExpires = 0
    /\ page' = SignedOut
    /\ UNCHANGED <<now, logins, died, unusable, jar, grants, failures, revocations, exchange>>

\* The session ends with nothing to renew it with.
PageGivesUp ==
    /\ Checking /\ ~Renewable
    /\ page' = SignedOut
    /\ UNCHANGED <<now, logins, died, unusable, jar, grants, failures, revocations, exchange>>

\* An answer arrives: its cookies are stored, and the page takes note.
Deliver(x) ==
    LET e == exchange[x]
        cookies == CASE e.set = "nothing" -> jar
                     [] e.set = "session" -> [jar EXCEPT !.session = e.cookie]
                     [] e.set = "clear" -> [session |-> None, refresh |-> None]
        shown == IF e.set = "session" THEN e.cookie ELSE e.session
    IN /\ e.phase = "answered"
       /\ jar' = cookies
       /\ page' = IF e.status = 401 \/ e.kind = "logout"
                  THEN SignedOut
                  ELSE IF ~page.unauthorized /\ e.status = 200 /\ e.kind = "session" /\ shown.exp > now
                  THEN [page EXCEPT !.expires = shown.exp,
                                    !.refreshExpires = RenewableUntil(shown, e.refresh)]
                  ELSE page
       /\ exchange' = [exchange EXCEPT ![x] = Idle]
       /\ UNCHANGED <<now, logins, died, unusable, grants, failures, revocations>>

\* The answer never arrives: the request timed out or the tab was closed.
Lose(x) ==
    /\ exchange[x].phase = "answered"
    /\ exchange' = [exchange EXCEPT ![x] = Idle]
    /\ UNCHANGED <<now, logins, died, unusable, jar, grants, failures, revocations, page>>

-----------------------------------------------------------------------------
(* The server.                                                             *)

\* Once the middleware has decided, the session cookie it read plays no further part.
Answer(x, status, set, cookie) ==
    [exchange[x] EXCEPT !.phase = "answered", !.session = None,
                        !.status = status, !.set = set, !.cookie = cookie]
Becomes(x, e) == exchange' = [exchange EXCEPT ![x] = e]

\* A failed grant, told to a request: access is over, or the provider unavailable.
Refusal(x, reauthenticate) ==
    IF reauthenticate THEN Answer(x, 401, "clear", None) ELSE Answer(x, 503, "nothing", None)

\* The middleware renews without a session, and for the page shortly before its end.
NeedsRenewal(e) ==
    /\ Valid(e.refresh)
    /\ \/ ~Valid(e.session)
       \/ /\ e.kind = "session" /\ e.session.exp < e.refresh.exp
          /\ e.session.exp <= now + Window

\* A request that needs no renewal is answered from its session cookie, and the page
\* is told of that session.
Authenticate(x) ==
    LET e == exchange[x]
    IN /\ e.phase = "sent" /\ e.kind # "logout" /\ ~NeedsRenewal(e)
       /\ Becomes(x, IF Valid(e.session)
                     THEN [Answer(x, 200, "nothing", None) EXCEPT
                             !.session = IF e.kind = "session" THEN e.session ELSE None]
                     ELSE Answer(x, 401, "nothing", None))
       /\ UNCHANGED <<now, logins, died, unusable, jar, grants, failures, revocations, page>>

\* Faulty: with the provider just out of reach, a session is renewed on its refresh
\* cookie alone.
RenewOnCookie(x) ==
    LET e == exchange[x]
        l == e.refresh.login
        joins == Becomes(x, [e EXCEPT !.phase = "renewing", !.session = None])
    IN /\ e.phase = "sent" /\ e.kind # "logout" /\ NeedsRenewal(e)
       /\ IF grants[l].phase # "none" THEN joins /\ UNCHANGED grants
          ELSE IF failures[l].until > now
          THEN UNCHANGED grants /\ Becomes(x, IF failures[l].reauthenticate THEN Refusal(x, TRUE)
                   ELSE Answer(x, 200, "session", [login |-> l, exp |-> EndOf(e.refresh)]))
          ELSE IF Cardinality({k \in Ids : grants[k].phase # "none"}) >= MaxGrants
          THEN Becomes(x, Answer(x, 503, "nothing", None)) /\ UNCHANGED grants
          ELSE joins /\ grants' = [grants EXCEPT ![l] = [phase |-> "asked", at |-> now]]
       /\ UNCHANGED <<now, logins, died, unusable, jar, failures, revocations, page>>

\* renew: join the grant under way, repeat a recent failure, or start a grant.
Renew(x) ==
    LET e == exchange[x]
        l == e.refresh.login
        joins == Becomes(x, [e EXCEPT !.phase = "renewing", !.session = None])
    IN /\ e.phase = "sent" /\ e.kind # "logout" /\ NeedsRenewal(e)
       /\ IF grants[l].phase # "none" THEN joins /\ UNCHANGED grants
          ELSE IF failures[l].until > now
          THEN Becomes(x, Refusal(x, failures[l].reauthenticate)) /\ UNCHANGED grants
          ELSE IF Cardinality({k \in Ids : grants[k].phase # "none"}) >= MaxGrants
          THEN Becomes(x, Answer(x, 503, "nothing", None)) /\ UNCHANGED grants
          ELSE joins /\ grants' = [grants EXCEPT ![l] = [phase |-> "asked", at |-> now]]
       /\ UNCHANGED <<now, logins, died, unusable, jar, failures, revocations, page>>

\* The provider decides a grant; its answer is still to come.  It may grant with another
\* refresh token, or with claims that are no user's of the dashboard any more.
Decide(l) ==
    \E outcome \in IF died[l] = Never THEN {"granted", "unusable"} ELSE {"denied"} :
        /\ grants[l].phase = "asked"
        /\ grants' = [grants EXCEPT ![l].phase = outcome]
        /\ unusable' = IF outcome = "unusable" THEN unusable \cup {l} ELSE unusable
        /\ UNCHANGED <<now, logins, died, jar, failures, revocations, exchange, page>>

\* Every request that waited for the grant of l is answered by answer[x].
Settle(l, answer) ==
    /\ grants' = [grants EXCEPT ![l] = NoGrant]
    /\ exchange' = [x \in Exchanges |->
                        IF exchange[x].phase = "renewing" /\ exchange[x].refresh.login = l
                        THEN answer[x] ELSE exchange[x]]

\* Faulty: a renewed session lasts MaxAge whatever is left of the refresh session.
GrantedFull(l) ==
    LET granted == [x \in Exchanges |-> Answer(x, 200, "session", [login |-> l, exp |-> now + MaxAge])]
    IN /\ grants[l].phase = "granted" /\ now <= grants[l].at + Timeout
       /\ Settle(l, granted)
       /\ UNCHANGED <<now, logins, died, unusable, jar, failures, revocations, page>>

\* The grant's answer: the waiting requests set a session cookie.
Granted(l) ==
    LET granted == [x \in Exchanges |->
                        Answer(x, 200, "session", [login |-> l, exp |-> EndOf(exchange[x].refresh)])]
    IN /\ grants[l].phase = "granted" /\ now <= grants[l].at + Timeout
       /\ \A x \in Exchanges : exchange[x].phase = "renewing" /\ exchange[x].refresh.login = l
                                    => Valid(exchange[x].refresh)
       /\ Settle(l, granted)
       /\ UNCHANGED <<now, logins, died, unusable, jar, failures, revocations, page>>

\* Faulty: an unreachable provider ends the session like a refusal of it.
GrantFailsForGood(l) ==
    LET refused == [x \in Exchanges |-> Refusal(x, TRUE)]
    IN /\ grants[l].phase # "none"
       /\ failures' = [failures EXCEPT ![l] = [until |-> now + Hold, reauthenticate |-> TRUE]]
       /\ Settle(l, refused)
       /\ UNCHANGED <<now, logins, died, unusable, jar, revocations, page>>

\* A denial, an answer the server refuses, one too late for the refresh session, or
\* no answer in time: all but the last end the session for those who waited.
GrantFails(l) ==
    LET spent == \E x \in Exchanges : /\ exchange[x].phase = "renewing"
                                      /\ exchange[x].refresh.login = l /\ ~Valid(exchange[x].refresh)
        over == grants[l].phase \in {"denied", "unusable"} \/ (grants[l].phase = "granted" /\ spent)
    IN /\ grants[l].phase # "none"
       /\ \E reauthenticate \in {FALSE, over} :
            LET refused == [x \in Exchanges |-> Refusal(x, reauthenticate)]
            IN /\ failures' = [failures EXCEPT ![l] =
                                    [until |-> now + Hold, reauthenticate |-> reauthenticate]]
               /\ Settle(l, refused)
       /\ UNCHANGED <<now, logins, died, unusable, jar, revocations, page>>

\* /auth/logout: the answer clears the cookies; a good refresh token is revoked first,
\* unless that was tried just now.
Logout(x) ==
    LET e == exchange[x]
    IN /\ e.phase = "sent" /\ e.kind = "logout"
       /\ IF Valid(e.refresh) /\ revocations[e.refresh.login] <= now
          THEN Becomes(x, [e EXCEPT !.phase = "revoking", !.session = None])
          ELSE Becomes(x, Answer(x, 200, "clear", None))
       /\ UNCHANGED <<now, logins, died, unusable, jar, grants, failures, revocations, page>>

\* The revocation of l lands or not, and ends for all that wait for it: a failure is
\* reported to them, the cookies are cleared either way.
Revoke(l) ==
    \E landed \in BOOLEAN :
        /\ \E x \in Exchanges : exchange[x].phase = "revoking" /\ exchange[x].refresh.login = l
        /\ died' = IF landed THEN [died EXCEPT ![l] = Min({@, now})] ELSE died
        /\ revocations' = [revocations EXCEPT ![l] = now + Hold]
        /\ exchange' = [x \in Exchanges |->
                            IF exchange[x].phase = "revoking" /\ exchange[x].refresh.login = l
                            THEN Answer(x, 200, "clear", None) ELSE exchange[x]]
        /\ unusable' = IF landed THEN unusable \ {l} ELSE unusable
        /\ UNCHANGED <<now, logins, jar, grants, failures, page>>

Next ==
    \/ Tick \/ Login \/ PageRenews \/ PageGivesUp
    \/ \E x \in Tabs : Browse(x)
    \/ \E l \in Ids : Withdraw(l) \/ Decide(l) \/ Granted(l) \/ GrantFails(l) \/ Revoke(l)
    \/ \E x \in Exchanges : \/ Deliver(x) \/ Lose(x)
                            \/ Authenticate(x) \/ Renew(x) \/ Logout(x)

Spec == Init /\ [][Next]_vars

\* Time passes, the page's timers fire, the server works and its calls time out, and
\* an exchange ends; the provider is never assumed to grant anything.
FairSpec ==
    /\ Spec
    /\ WF_vars(Tick) /\ WF_vars(PageGivesUp) /\ WF_vars(PageRenews)
    /\ \A l \in Ids : WF_vars(Granted(l) \/ GrantFails(l)) /\ WF_vars(Revoke(l))
    /\ \A x \in Exchanges : WF_vars(Deliver(x) \/ Lose(x))
                            /\ WF_vars(Authenticate(x) \/ Renew(x) \/ Logout(x))

-----------------------------------------------------------------------------
(* Properties.                                                             *)

\* Where session cookies are: in the browser and in the answers on their way to it.
Sessions == {jar.session} \cup {exchange[x].cookie : x \in Exchanges}

\* No session outlives the refresh session of its login, renewed at the last moment
\* or not.
SessionsRunOut ==
    \A c \in Sessions : c.login # 0 /\ jar.refresh.login = c.login => c.exp <= jar.refresh.exp

\* When its token is revoked or its access withdrawn, a login has sessions for at most
\* one more session's length and one call to the provider: cookies that an answer sets
\* after the sign-out, or after another login, included.
RevokedRunOut ==
    \A c \in Sessions : c.login # 0 => c.exp <= died[c.login] + Timeout + MaxAge

\* A browser loses the cookies of a login whose token is good only to a sign-out, to
\* an answer to a request that carried another login, or after the provider itself
\* answered a refresh with what the server refuses: an unreachable provider ends no
\* session.
SignOutJustified ==
    [][\A l \in Ids \ unusable :
        (jar.refresh.login = l /\ jar'.refresh.login = 0 /\ died[l] = Never /\ jar.refresh.exp > now') =>
            \E x \in Exchanges : /\ exchange[x].phase = "answered" /\ exchange'[x].phase = "idle"
                                 /\ exchange[x].kind = "logout" \/ exchange[x].refresh.login # l]_vars

\* The page never waits for its session for ever: it is renewed, or the page asks
\* the user to sign in, even if the provider is never reached.
CheckingEnds == Checking ~> ~Checking
=============================================================================
