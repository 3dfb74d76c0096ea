------------------------- MODULE AuthSessionsProofs -------------------------
(***************************************************************************)
(* Theorems about AuthSessions, for any number of logins and tabs and any  *)
(* lengths of sessions, timeouts and memories.                             *)
(***************************************************************************)
EXTENDS AuthSessions, FiniteSetTheorems, TLAPS

\* Where refresh cookies are: in the browser and in the requests under way.
Refreshes == {jar.refresh} \cup {exchange[x].refresh : x \in Exchanges}

\* Cookies are of logins that took place, only those end, and an absent one is None.
LoginInv ==
    /\ \A l \in Ids : l > logins => died[l] = Never
    /\ \A r \in Refreshes : r.login \in 0..logins /\ (r.login = 0 => r.exp = 0)
    /\ \A c \in Sessions : c.login \in 0..logins

\* The refresh cookies of one login end at one time: only a login sets them.
OneExpiry == \A r, s \in Refreshes : r.login = s.login => r.exp = s.exp

\* No session cookie outlives its refresh session, or by more than a session and a
\* provider call what ended its login; and no session is longer than MaxAge.
SessionInv ==
    \A c \in Sessions : c.login # 0 =>
        /\ c.exp <= now + MaxAge /\ c.exp <= died[c.login] + Timeout + MaxAge
        /\ \A r \in Refreshes : r.login = c.login => c.exp <= r.exp

\* A grant is asked for a login that took place; one that was granted was asked for
\* before the login ended, one that was denied was so because the login had ended, and
\* the provider's unusable answers are on record.
GrantInv ==
    \A l \in Ids : grants[l].phase # "none" =>
        /\ l <= logins /\ grants[l].at <= now
        /\ grants[l].phase = "granted" => grants[l].at <= died[l]
        /\ grants[l].phase = "denied" => died[l] # Never
        /\ grants[l].phase = "unusable" => l \in unusable \/ died[l] # Never

\* There is a reason to end the sessions of login l: its token or its access ended, the
\* provider answered what the server refuses, or its refresh session is over.
Ended(l) ==
    died[l] # Never \/ l \in unusable \/ \A r \in Refreshes : r.login = l => r.exp <= now

\* Only sign-outs revoke, and another request signs out for a login that has ended.
SignsOutRightly(e) ==
    /\ e.phase = "revoking" => e.kind = "logout"
    /\ e.phase = "answered" /\ e.set = "clear" /\ e.kind # "logout"
        => e.refresh.login \in 1..logins /\ Ended(e.refresh.login)

\* The server signs out, or remembers to, only where a login has ended.
EndInv ==
    /\ \A l \in Ids : failures[l].reauthenticate => l \in 1..logins /\ Ended(l)
    /\ \A x \in Exchanges : SignsOutRightly(exchange[x])

IInv == TypeOK /\ LoginInv /\ OneExpiry /\ SessionInv /\ GrantInv /\ EndInv

-----------------------------------------------------------------------------
(* Facts about times and cookies.                                          *)

\* The sum of the times is what the clocks and cookies are bounded by.
LEMMA Times ==
    /\ MaxAge \in Nat /\ RefreshMaxAge \in Nat /\ Window \in Nat /\ Lead \in Nat /\ Hold \in Nat
    /\ Timeout \in Nat /\ MaxGrants \in Nat /\ Logins \in Nat /\ MaxNow \in Nat
    /\ Never \in Nat
BY AuthAssumption DEF Never

LEMMA NoCookie == None \in Cookie /\ None.login = 0 /\ None.exp = 0
BY Times DEF None, Cookie

\* The earlier of two times.
LEMMA MinOfTwo ==
    ASSUME NEW a \in Nat, NEW b \in Nat
    PROVE  Min({a, b}) \in {a, b} /\ Min({a, b}) <= a /\ Min({a, b}) <= b
<1>1. \E m \in {a, b} : \A k \in {a, b} : m <= k
    OBVIOUS
<1> QED
    BY <1>1 DEF Min

\* The types of what the browser and the requests keep.
LEMMA CookieTypes ==
    ASSUME TypeOK
    PROVE  /\ jar.session \in Cookie /\ jar.refresh \in Cookie
           /\ \A x \in Exchanges : /\ exchange[x].session \in Cookie
                                   /\ exchange[x].refresh \in Cookie
                                   /\ exchange[x].cookie \in Cookie
           /\ \A r \in Refreshes : r \in Cookie
           /\ \A c \in Sessions : c \in Cookie
<1>1. /\ jar.session \in Cookie /\ jar.refresh \in Cookie
      /\ \A x \in Exchanges : /\ exchange[x].session \in Cookie
                              /\ exchange[x].refresh \in Cookie
                              /\ exchange[x].cookie \in Cookie
    BY DEF TypeOK
<1> QED
    BY <1>1 DEF Refreshes, Sessions

\* Cookies are numbers.
LEMMA CookieNumbers ==
    ASSUME NEW c \in Cookie
    PROVE  c.login \in Nat /\ c.exp \in Nat /\ c.login <= Logins /\ c.exp <= MaxNow + RefreshMaxAge
BY Times DEF Cookie

\* A step that brings no cookie into being, ends no login and starts no grant keeps
\* the invariants of cookies and logins.
LEMMA NothingNew ==
    ASSUME IInv, Refreshes' \subseteq Refreshes \cup {None}, Sessions' \subseteq Sessions \cup {None},
           UNCHANGED <<now, logins, died, unusable>>
    PROVE  /\ LoginInv' /\ OneExpiry' /\ SessionInv'
           /\ grants' = grants => GrantInv'
           /\ \A l \in 1..logins : Ended(l) => Ended(l)'
<1>1. /\ \A r \in Refreshes' : r \in Refreshes \/ r = None
      /\ \A c \in Sessions' : c \in Sessions \/ c = None
    OBVIOUS
<1>2. LoginInv'
    <2>1. logins \in Nat
        BY Times DEF IInv, TypeOK
    <2> QED
        BY <1>1, <2>1, NoCookie DEF IInv, LoginInv
<1>3. OneExpiry'
    BY <1>1, NoCookie DEF IInv, LoginInv, OneExpiry
<1>4. SessionInv'
    BY <1>1, NoCookie DEF IInv, SessionInv
<1>5. grants' = grants => GrantInv'
    BY DEF IInv, GrantInv
<1>6. \A l \in 1..logins : Ended(l) => Ended(l)'
    BY <1>1, NoCookie DEF Ended
<1> QED
    BY <1>2, <1>3, <1>4, <1>5, <1>6

\* A request under way, as TypeOK has it.
Kinds == {"none", "api", "session", "logout"}
Phases == {"idle", "sent", "renewing", "revoking", "answered"}
Statuses == {0, 200, 401, 503}
Sets == {"nothing", "session", "clear"}
Request == [kind : Kinds, phase : Phases, session : Cookie, refresh : Cookie,
            status : Statuses, set : Sets, cookie : Cookie]

\* What an answer keeps of its request.
LEMMA AnswerFields ==
    ASSUME NEW x \in Exchanges, exchange[x] \in Request,
           NEW status \in Statuses, NEW set \in Sets, NEW cookie \in Cookie
    PROVE  LET a == Answer(x, status, set, cookie)
           IN /\ a \in Request
              /\ a.phase = "answered" /\ a.set = set /\ a.cookie = cookie
              /\ a.kind = exchange[x].kind /\ a.refresh = exchange[x].refresh
<1> DEFINE a == Answer(x, status, set, cookie)
<1>1. "answered" \in Phases
    BY DEF Phases
<1>2. a \in Request
    BY <1>1, NoCookie DEF Answer, Request
<1>3. /\ a.phase = "answered" /\ a.set = set /\ a.cookie = cookie
      /\ a.kind = exchange[x].kind /\ a.refresh = exchange[x].refresh
    BY DEF Answer, Request
<1> QED
    BY <1>2, <1>3

LEMMA IdleRequest ==
    /\ Idle \in Request /\ Idle.phase = "idle" /\ Idle.refresh = None /\ Idle.cookie = None
BY NoCookie DEF Idle, Request, Kinds, Phases, Statuses, Sets

\* A login in 1..logins is one of Ids.
LEMMA LoginIds ==
    ASSUME TypeOK
    PROVE  logins \in 0..Logins /\ 1..logins \subseteq Ids /\ now \in 0..MaxNow
BY Times DEF TypeOK, Ids

\* What has ended stays so, and no request begins to sign out wrongly.
LEMMA EndKeeps ==
    ASSUME IInv, logins <= logins', logins' \in Nat,
           \A k \in 1..logins : Ended(k) => Ended(k)',
           \A k \in Ids : failures'[k].reauthenticate => k \in 1..logins /\ Ended(k),
           \A x \in Exchanges : exchange'[x] = exchange[x] \/ SignsOutRightly(exchange'[x])
    PROVE  EndInv'
<1>1. 1..logins \subseteq 1..logins'
    BY LoginIds DEF IInv
<1>2. \A x \in Exchanges : SignsOutRightly(exchange'[x])
    BY DEF IInv, EndInv
<1>3. \A x \in Exchanges : exchange'[x].phase = "revoking" => exchange'[x].kind = "logout"
    BY <1>2 DEF SignsOutRightly
<1>4. ASSUME NEW x \in Exchanges, exchange'[x].phase = "answered", exchange'[x].set = "clear",
             exchange'[x].kind # "logout"
      PROVE  \E k \in 1..logins : k = exchange'[x].refresh.login /\ Ended(k)'
    BY <1>2, <1>4 DEF SignsOutRightly
<1>5. \A k \in Ids : failures'[k].reauthenticate => k \in 1..logins' /\ Ended(k)'
    BY <1>1
<1> QED
    BY <1>1, <1>3, <1>4, <1>5 DEF EndInv, SignsOutRightly, Ended

\* A step of one request that creates no cookie keeps the invariant.
LEMMA RequestMoves ==
    ASSUME IInv, NEW x \in Exchanges, NEW e \in Request,
           exchange' = [exchange EXCEPT ![x] = e],
           e.refresh \in Refreshes \cup {None}, e.cookie \in Sessions \cup {None},
           jar' \in [session : Cookie, refresh : Cookie],
           jar'.session \in Sessions \cup {None}, jar'.refresh \in Refreshes \cup {None},
           grants' \in [Ids -> [phase : Outcomes, at : 0..MaxNow]],
           Cardinality({l \in Ids : grants'[l].phase # "none"}) <= MaxGrants, GrantInv',
           page' \in [expires : Nat, refreshExpires : Nat, unauthorized : BOOLEAN],
           UNCHANGED <<now, logins, died, unusable, failures, revocations>>,
           SignsOutRightly(e)
    PROVE  IInv'
<1>1. /\ exchange' \in [Exchanges -> Request] /\ exchange'[x] = e
      /\ \A y \in Exchanges : y # x => exchange'[y] = exchange[y]
    BY DEF IInv, TypeOK, Request, Kinds, Phases, Statuses, Sets
<1>2. TypeOK'
    BY <1>1 DEF IInv, TypeOK, Request, Kinds, Phases, Statuses, Sets
<1>3. Refreshes' \subseteq Refreshes \cup {None} /\ Sessions' \subseteq Sessions \cup {None}
    BY <1>1 DEF Refreshes, Sessions
<1>4. LoginInv' /\ OneExpiry' /\ SessionInv'
    BY <1>3, NothingNew
<1>5. logins' \in Nat /\ logins <= logins' /\ \A k \in 1..logins : Ended(k) => Ended(k)'
    BY <1>3, NothingNew, LoginIds DEF IInv
<1>6. EndInv'
    <2>1. \A k \in Ids : failures'[k].reauthenticate => k \in 1..logins /\ Ended(k)
        BY DEF IInv, EndInv
    <2> QED
        BY <1>1, <1>5, <2>1, EndKeeps
<1> QED
    BY <1>2, <1>4, <1>6 DEF IInv

-----------------------------------------------------------------------------
(* The browser and the page.                                               *)

LEMMA InitEstablishes == Init => IInv
<1> SUFFICES ASSUME Init PROVE IInv
    OBVIOUS
<1>1. {l \in Ids : grants[l].phase # "none"} = {}
    BY DEF Init, NoGrant
<1>2. Cardinality({l \in Ids : grants[l].phase # "none"}) <= MaxGrants
    BY <1>1, FS_EmptySet, Times
<1>3. exchange \in [Exchanges -> Request]
    BY IdleRequest DEF Init
<1>4. TypeOK
    BY <1>2, <1>3, NoCookie, Times
       DEF Init, SignedOut, TypeOK, Request, Kinds, Phases, Statuses, Sets, NoGrant, Outcomes, NoFailure, Never
<1>5. Refreshes = {None} /\ Sessions = {None}
    BY IdleRequest DEF Init, Refreshes, Sessions, Exchanges
<1>6. LoginInv /\ OneExpiry /\ SessionInv
    BY <1>5, NoCookie DEF Init, LoginInv, OneExpiry, SessionInv
<1>7. GrantInv /\ EndInv
    BY IdleRequest DEF Init, GrantInv, EndInv, SignsOutRightly, NoGrant, NoFailure
<1> QED
    BY <1>4, <1>6, <1>7 DEF IInv

\* What a step of one request leaves alone.
LEMMA SameGrants ==
    ASSUME IInv, UNCHANGED <<now, logins, died, unusable, grants>>
    PROVE  /\ grants' \in [Ids -> [phase : Outcomes, at : 0..MaxNow]]
           /\ Cardinality({l \in Ids : grants'[l].phase # "none"}) <= MaxGrants
           /\ GrantInv'
BY DEF IInv, TypeOK, GrantInv

LEMMA SendKeeps ==
    ASSUME IInv, NEW x \in Exchanges, NEW kind \in {"api", "session", "logout"}, Send(x, kind),
           UNCHANGED <<now, logins, died, unusable, jar, grants, failures, revocations, page>>
    PROVE  IInv'
<1> DEFINE e == [Idle EXCEPT !.kind = kind, !.phase = "sent",
                             !.session = jar.session, !.refresh = jar.refresh]
<1>1. /\ jar.session \in Sessions /\ jar.refresh \in Refreshes
      /\ jar.session \in Cookie /\ jar.refresh \in Cookie
    BY CookieTypes DEF Sessions, Refreshes, IInv
<1>2. e \in Request /\ e.phase = "sent" /\ e.refresh = jar.refresh /\ e.cookie = None
    BY <1>1, NoCookie DEF Idle, Request, Kinds, Phases, Statuses, Sets
<1>3. exchange' = [exchange EXCEPT ![x] = e] /\ SignsOutRightly(e)
    BY <1>2 DEF Send, SignsOutRightly
<1>4. /\ jar' \in [session : Cookie, refresh : Cookie]
      /\ page' \in [expires : Nat, refreshExpires : Nat, unauthorized : BOOLEAN]
      /\ jar'.session \in Sessions \cup {None} /\ jar'.refresh \in Refreshes \cup {None}
    BY <1>1 DEF IInv, TypeOK
<1> HIDE DEF e
<1> QED
    BY <1>1, <1>2, <1>3, <1>4, SameGrants, RequestMoves

LEMMA PageGivesUpKeeps == ASSUME IInv, PageGivesUp PROVE IInv'
<1>1. UNCHANGED <<now, logins, died, unusable, jar, grants, failures, revocations, exchange>>
    BY DEF PageGivesUp
<1>2. TypeOK'
    <2>1. page' \in [expires : Nat, refreshExpires : Nat, unauthorized : BOOLEAN]
        BY DEF PageGivesUp, SignedOut
    <2> QED
        BY <1>1, <2>1 DEF IInv, TypeOK
<1>3. Refreshes' = Refreshes /\ Sessions' = Sessions
    BY <1>1 DEF Refreshes, Sessions
<1>4. LoginInv' /\ OneExpiry' /\ SessionInv' /\ GrantInv'
    BY <1>1, <1>3, NothingNew
<1>5. EndInv'
    BY <1>1, <1>3 DEF IInv, EndInv, SignsOutRightly, Ended
<1> QED
    BY <1>2, <1>4, <1>5 DEF IInv

LEMMA DeliverKeeps == ASSUME IInv, NEW x \in Exchanges, Deliver(x) PROVE IInv'
<1> DEFINE e == exchange[x]
<1>1. /\ e \in Request /\ e.refresh \in Cookie /\ e.session \in Cookie /\ e.cookie \in Cookie
      /\ e.cookie \in Sessions /\ jar.session \in Sessions /\ jar.refresh \in Refreshes
      /\ jar \in [session : Cookie, refresh : Cookie]
    BY CookieTypes DEF IInv, TypeOK, Request, Kinds, Phases, Statuses, Sets, Sessions, Refreshes
<1>2. e.set \in {"nothing", "session", "clear"}
    BY <1>1 DEF Request, Kinds, Phases, Statuses, Sets
<1>3. \/ jar' = jar \/ jar' = [jar EXCEPT !.session = e.cookie]
      \/ jar' = [session |-> None, refresh |-> None]
    BY <1>2 DEF Deliver
<1>4. /\ jar' \in [session : Cookie, refresh : Cookie]
      /\ jar'.session \in Sessions \cup {None} /\ jar'.refresh \in Refreshes \cup {None}
    BY <1>1, <1>3, NoCookie
<1>5. page' \in [expires : Nat, refreshExpires : Nat, unauthorized : BOOLEAN]
    <2> DEFINE shown == IF e.set = "session" THEN e.cookie ELSE e.session
    <2>1. shown.exp \in Nat /\ RenewableUntil(shown, e.refresh) \in Nat
        BY <1>1, CookieNumbers DEF RenewableUntil
    <2>2. page \in [expires : Nat, refreshExpires : Nat, unauthorized : BOOLEAN]
        BY DEF IInv, TypeOK
    <2>3. \/ page' = page \/ page' = SignedOut
          \/ page' = [page EXCEPT !.expires = shown.exp,
                                  !.refreshExpires = RenewableUntil(shown, e.refresh)]
        BY DEF Deliver
    <2>4. SignedOut \in [expires : Nat, refreshExpires : Nat, unauthorized : BOOLEAN]
        BY DEF SignedOut
    <2> HIDE DEF shown
    <2> QED
        BY <2>1, <2>2, <2>3, <2>4
<1>6. /\ exchange' = [exchange EXCEPT ![x] = Idle]
      /\ UNCHANGED <<now, logins, died, unusable, grants, failures, revocations>>
    BY DEF Deliver
<1>7. SignsOutRightly(Idle)
    BY IdleRequest DEF SignsOutRightly
<1> QED
    BY <1>4, <1>5, <1>6, <1>7, IdleRequest, SameGrants, RequestMoves

LEMMA LoseKeeps == ASSUME IInv, NEW x \in Exchanges, Lose(x) PROVE IInv'
<1>1. /\ exchange' = [exchange EXCEPT ![x] = Idle]
      /\ UNCHANGED <<now, logins, died, unusable, jar, grants, failures, revocations, page>>
    BY DEF Lose
<1>2. /\ jar' \in [session : Cookie, refresh : Cookie]
      /\ page' \in [expires : Nat, refreshExpires : Nat, unauthorized : BOOLEAN]
      /\ jar'.session \in Sessions \cup {None} /\ jar'.refresh \in Refreshes \cup {None}
    BY <1>1 DEF IInv, TypeOK, Sessions, Refreshes
<1>3. SignsOutRightly(Idle)
    BY IdleRequest DEF SignsOutRightly
<1> QED
    BY <1>1, <1>2, <1>3, IdleRequest, SameGrants, RequestMoves

-----------------------------------------------------------------------------
(* The server, one request at a time.                                      *)

\* A good refresh cookie is of a login that took place.
LEMMA ValidLogin ==
    ASSUME IInv, NEW r \in Refreshes, Valid(r)
    PROVE  r.login \in Ids /\ r.login <= logins /\ r.login \in 1..logins
<1>1. r \in Cookie /\ r.login \in 0..logins /\ (r.login = 0 => r.exp = 0)
    BY CookieTypes DEF IInv, LoginInv
<1>2. now \in Nat /\ logins \in Nat /\ 1..logins \subseteq Ids
    BY LoginIds DEF IInv
<1>3. r.login # 0
    BY <1>1, <1>2, CookieNumbers DEF Valid
<1> QED
    BY <1>1, <1>2, <1>3

\* A request goes on with its cookies.
LEMMA StaysKeeps ==
    ASSUME IInv, NEW x \in Exchanges, NEW e \in Request, Becomes(x, e),
           e.refresh = exchange[x].refresh, e.cookie \in {exchange[x].cookie, None},
           grants' \in [Ids -> [phase : Outcomes, at : 0..MaxNow]],
           Cardinality({l \in Ids : grants'[l].phase # "none"}) <= MaxGrants, GrantInv',
           UNCHANGED <<now, logins, died, unusable, jar, failures, revocations, page>>,
           SignsOutRightly(e)
    PROVE  IInv'
<1>1. /\ jar' \in [session : Cookie, refresh : Cookie]
      /\ page' \in [expires : Nat, refreshExpires : Nat, unauthorized : BOOLEAN]
      /\ jar'.session \in Sessions \cup {None} /\ jar'.refresh \in Refreshes \cup {None}
    BY DEF IInv, TypeOK, Sessions, Refreshes
<1>2. e.refresh \in Refreshes \cup {None} /\ e.cookie \in Sessions \cup {None}
    BY DEF Refreshes, Sessions
<1>3. exchange' = [exchange EXCEPT ![x] = e]
    BY DEF Becomes
<1> QED
    BY <1>1, <1>2, <1>3, RequestMoves

\* An answer without a new cookie, that may tell the page of a session.
Telling(x, status, set, told) == [Answer(x, status, set, None) EXCEPT !.session = told]

\* The server answers without a new cookie.
LEMMA AnswerKeeps ==
    ASSUME IInv, NEW x \in Exchanges, NEW status \in {200, 401, 503}, NEW told \in Cookie,
           NEW set \in {"nothing", "clear"},
           Becomes(x, Telling(x, status, set, told)),
           UNCHANGED <<now, logins, died, unusable, jar, grants, failures, revocations, page>>,
           set = "clear" => \/ exchange[x].kind = "logout"
                            \/ /\ exchange[x].refresh.login \in 1..logins
                               /\ Ended(exchange[x].refresh.login)
    PROVE  IInv'
<1> DEFINE a == Answer(x, status, set, None)
           e == Telling(x, status, set, told)
<1>1. exchange[x] \in Request
    BY DEF IInv, TypeOK, Request, Kinds, Phases, Statuses, Sets
<1>2. /\ e \in Request /\ e.refresh = exchange[x].refresh /\ e.cookie = None
      /\ e.phase = "answered" /\ e.set = set /\ e.kind = exchange[x].kind
    <2>1. status \in Statuses /\ set \in Sets
        BY DEF Statuses, Sets
    <2>2. /\ a \in Request /\ a.refresh = exchange[x].refresh /\ a.cookie = None
          /\ a.phase = "answered" /\ a.set = set /\ a.kind = exchange[x].kind
        BY <1>1, <2>1, NoCookie, AnswerFields
    <2> HIDE DEF a
    <2>3. e = [a EXCEPT !.session = told]
        BY DEF Telling, a
    <2> QED
        BY <2>2, <2>3 DEF Request
<1>3. SignsOutRightly(e)
    BY <1>2 DEF SignsOutRightly
<1>4. Becomes(x, e)
    OBVIOUS
<1> HIDE DEF e
<1> QED
    BY <1>2, <1>3, <1>4, SameGrants, StaysKeeps

\* An answer tells of no session, unless it says otherwise.
LEMMA AnswerTellsNothing ==
    ASSUME IInv, NEW x \in Exchanges, NEW status \in {200, 401, 503}, NEW set \in {"nothing", "clear"}
    PROVE  Telling(x, status, set, None) = Answer(x, status, set, None)
<1>1. exchange[x] \in Request
    BY DEF IInv, TypeOK, Request, Kinds, Phases, Statuses, Sets
<1> QED
    BY <1>1 DEF Telling, Answer, Request

LEMMA AuthenticateKeeps == ASSUME IInv, NEW x \in Exchanges, Authenticate(x) PROVE IInv'
<1> DEFINE told == IF exchange[x].kind = "session" THEN exchange[x].session ELSE None
<1>1. told \in Cookie
    BY CookieTypes, NoCookie DEF IInv
<1>2. \/ Becomes(x, Telling(x, 200, "nothing", told))
      \/ Becomes(x, Answer(x, 401, "nothing", None))
    BY DEF Authenticate, Telling
<1>3. UNCHANGED <<now, logins, died, unusable, jar, grants, failures, revocations, page>>
    BY DEF Authenticate
<1> HIDE DEF told
<1>4. CASE Becomes(x, Telling(x, 200, "nothing", told))
    BY <1>1, <1>3, <1>4, AnswerKeeps
<1>5. CASE Becomes(x, Answer(x, 401, "nothing", None))
    BY <1>3, <1>5, NoCookie, AnswerTellsNothing, AnswerKeeps
<1> QED
    BY <1>2, <1>4, <1>5

LEMMA RenewKeeps == ASSUME IInv, NEW x \in Exchanges, Renew(x) PROVE IInv'
<1> DEFINE l == exchange[x].refresh.login
           e == [exchange[x] EXCEPT !.phase = "renewing", !.session = None]
<1>1. exchange[x].refresh \in Refreshes /\ Valid(exchange[x].refresh)
    BY DEF Refreshes, Renew, NeedsRenewal
<1>2. l \in Ids /\ l <= logins /\ l \in 1..logins
    BY <1>1, ValidLogin
<1>3. /\ e \in Request /\ e.refresh = exchange[x].refresh /\ e.cookie = exchange[x].cookie
      /\ SignsOutRightly(e)
    <2>1. exchange[x] \in Request /\ "renewing" \in Phases
        BY DEF IInv, TypeOK, Request, Kinds, Phases, Statuses, Sets
    <2>2. /\ e \in Request /\ e.refresh = exchange[x].refresh /\ e.cookie = exchange[x].cookie
          /\ e.phase = "renewing"
        BY <2>1, NoCookie DEF Request
    <2> HIDE DEF e
    <2> QED
        BY <2>2 DEF SignsOutRightly
<1>4. UNCHANGED <<now, logins, died, unusable, jar, failures, revocations, page>>
    BY DEF Renew
<1>5. CASE Becomes(x, e) /\ UNCHANGED grants
    BY <1>3, <1>4, <1>5, SameGrants, StaysKeeps
<1>6. CASE Becomes(x, Refusal(x, failures[l].reauthenticate)) /\ UNCHANGED grants
    <2>1. failures[l].reauthenticate => Ended(l)
        BY <1>2 DEF IInv, EndInv
    <2>2. CASE failures[l].reauthenticate
        BY <1>2, <1>4, <1>6, <2>1, <2>2, NoCookie, AnswerTellsNothing, AnswerKeeps DEF Refusal
    <2>3. CASE ~failures[l].reauthenticate
        BY <1>4, <1>6, <2>3, NoCookie, AnswerTellsNothing, AnswerKeeps DEF Refusal
    <2> QED
        BY <2>2, <2>3
<1>7. CASE Becomes(x, Answer(x, 503, "nothing", None)) /\ UNCHANGED grants
    BY <1>4, <1>7, NoCookie, AnswerTellsNothing, AnswerKeeps
<1>8. CASE /\ Becomes(x, e) /\ grants[l].phase = "none"
           /\ ~(Cardinality({k \in Ids : grants[k].phase # "none"}) >= MaxGrants)
           /\ grants' = [grants EXCEPT ![l] = [phase |-> "asked", at |-> now]]
    <2> DEFINE busy == {k \in Ids : grants[k].phase # "none"}
    <2>1. now \in 0..MaxNow /\ now' = now
        BY <1>4, LoginIds DEF IInv
    <2>2. grants' \in [Ids -> [phase : Outcomes, at : 0..MaxNow]]
        BY <1>8, <2>1 DEF IInv, TypeOK, Outcomes
    <2>3. /\ grants'[l].phase = "asked" /\ grants'[l].at = now
          /\ \A k \in Ids : k # l => grants'[k] = grants[k]
        BY <1>2, <1>8 DEF IInv, TypeOK
    <2>4. {k \in Ids : grants'[k].phase # "none"} = busy \cup {l}
        BY <1>2, <2>3
    <2>5. IsFiniteSet(busy) /\ l \notin busy
        <3>1. IsFiniteSet(Ids)
            BY FS_Interval, Times DEF Ids
        <3> QED
            BY <1>8, <3>1, FS_Subset
    <2>6. Cardinality(busy \cup {l}) = Cardinality(busy) + 1 /\ Cardinality(busy) \in Nat
        BY <2>5, FS_AddElement, FS_CardinalityType
    <2>7. Cardinality({k \in Ids : grants'[k].phase # "none"}) <= MaxGrants
        <3> DEFINE next == {k \in Ids : grants'[k].phase # "none"}
        <3>1. ~(Cardinality(busy) >= MaxGrants) /\ MaxGrants \in Nat
            BY <1>8, Times
        <3>2. Cardinality(next) = Cardinality(busy) + 1
            BY <2>4, <2>6
        <3> HIDE DEF busy, next
        <3>3. Cardinality(next) <= MaxGrants
            BY <2>6, <3>1, <3>2
        <3> QED
            BY <3>3 DEF next
    <2>8. GrantInv'
        BY <1>2, <1>4, <2>1, <2>3 DEF IInv, GrantInv
    <2> QED
        BY <1>3, <1>4, <1>8, <2>2, <2>7, <2>8, StaysKeeps
<1> QED
    BY <1>5, <1>6, <1>7, <1>8 DEF Renew

LEMMA LogoutKeeps == ASSUME IInv, NEW x \in Exchanges, Logout(x) PROVE IInv'
<1> DEFINE e == [exchange[x] EXCEPT !.phase = "revoking", !.session = None]
<1>1. /\ e \in Request /\ e.refresh = exchange[x].refresh /\ e.cookie = exchange[x].cookie
      /\ SignsOutRightly(e)
    <2>1. exchange[x] \in Request /\ exchange[x].kind = "logout"
        BY DEF IInv, TypeOK, Logout, Request, Kinds, Phases, Statuses, Sets
    <2>2. "revoking" \in Phases
        BY DEF Phases
    <2>3. /\ e \in Request /\ e.refresh = exchange[x].refresh /\ e.cookie = exchange[x].cookie
          /\ e.kind = "logout" /\ e.phase = "revoking"
        BY <2>1, <2>2, NoCookie DEF Request
    <2> HIDE DEF e
    <2> QED
        BY <2>3 DEF SignsOutRightly
<1>2. /\ UNCHANGED <<now, logins, died, unusable, jar, grants, failures, revocations, page>>
      /\ exchange[x].kind = "logout"
    BY DEF Logout
<1>3. Becomes(x, e) \/ Becomes(x, Answer(x, 200, "clear", None))
    BY DEF Logout
<1> HIDE DEF e
<1> QED
    BY <1>1, <1>2, <1>3, SameGrants, StaysKeeps, NoCookie, AnswerTellsNothing, AnswerKeeps

-----------------------------------------------------------------------------
(* Logins, and what ends them.                                             *)

\* New cookies of a login that no cookie, grant or failure knows yet.
LEMMA LoginKeeps == ASSUME IInv, Login PROVE IInv'
<1> DEFINE l == logins + 1
           refresh == [login |-> l, exp |-> now + RefreshMaxAge]
           session == [login |-> l, exp |-> EndOf(refresh)]
<1>1. /\ logins \in Nat /\ logins < Logins /\ now \in Nat /\ now + RefreshMaxAge <= MaxNow
      /\ l \in Ids /\ l \in 0..Logins /\ l # 0
    BY LoginIds, Times DEF IInv, Login, Ids
<1>2. refresh.login = l /\ refresh.exp = now + RefreshMaxAge /\ refresh.exp \in Nat
    BY <1>1, Times
<1>3. /\ EndOf(refresh) \in Nat /\ EndOf(refresh) <= refresh.exp
      /\ EndOf(refresh) <= now + MaxAge
    BY <1>1, <1>2, MinOfTwo, Times DEF EndOf
<1>4. session.login = l /\ session.exp = EndOf(refresh)
    OBVIOUS
<1>5. refresh \in Cookie /\ session \in Cookie
    BY <1>1, <1>2, <1>3, Times DEF Cookie
<1>6. /\ logins' = l /\ jar' = [session |-> session, refresh |-> refresh]
      /\ page' = [expires |-> session.exp, refreshExpires |-> refresh.exp, unauthorized |-> FALSE]
      /\ exchange' = [exchange EXCEPT !["page"] = Idle]
      /\ UNCHANGED <<now, died, unusable, grants, failures, revocations>>
    BY DEF Login
<1> HIDE DEF refresh, session
<1>7. /\ exchange' \in [Exchanges -> Request]
      /\ \A x \in Exchanges : exchange'[x] = exchange[x] \/ exchange'[x] = Idle
    <2>1. exchange \in [Exchanges -> Request]
        BY DEF IInv, TypeOK, Request, Kinds, Phases, Statuses, Sets
    <2> QED
        BY <1>6, <2>1, IdleRequest
<1>8. TypeOK'
    <2>1. page' \in [expires : Nat, refreshExpires : Nat, unauthorized : BOOLEAN]
        BY <1>2, <1>3, <1>4, <1>6
    <2>2. jar' \in [session : Cookie, refresh : Cookie]
        BY <1>5, <1>6
    <2>3. exchange' \in [Exchanges -> [kind : {"none", "api", "session", "logout"},
                        phase : {"idle", "sent", "renewing", "revoking", "answered"},
                        session : Cookie, refresh : Cookie, status : {0, 200, 401, 503},
                        set : {"nothing", "session", "clear"}, cookie : Cookie]]
        BY <1>7 DEF Request, Kinds, Phases, Statuses, Sets
    <2> QED
        BY <1>1, <1>6, <2>1, <2>2, <2>3 DEF IInv, TypeOK
<1>9. /\ \A r \in Refreshes' : r \in Refreshes \/ r = None \/ r = refresh
      /\ \A c \in Sessions' : c \in Sessions \/ c = None \/ c = session
    BY <1>6, <1>7, IdleRequest DEF Refreshes, Sessions
<1>10. /\ \A r \in Refreshes : r.login \in 0..logins /\ (r.login = 0 => r.exp = 0)
       /\ \A c \in Sessions : c.login \in 0..logins
       /\ \A k \in Ids : k > logins => died[k] = Never
    BY DEF IInv, LoginInv
<1>11. LoginInv'
    <2>1. \A r \in Refreshes' : r.login \in 0..logins' /\ (r.login = 0 => r.exp = 0)
        BY <1>1, <1>2, <1>6, <1>9, <1>10, NoCookie
    <2>2. \A c \in Sessions' : c.login \in 0..logins'
        BY <1>1, <1>4, <1>6, <1>9, <1>10, NoCookie
    <2>3. \A k \in Ids : k > logins' => died'[k] = Never
        BY <1>1, <1>6, <1>10 DEF Ids
    <2> QED
        BY <2>1, <2>2, <2>3 DEF LoginInv
<1>12. OneExpiry'
    BY <1>1, <1>2, <1>9, <1>10, NoCookie DEF IInv, OneExpiry
<1>13. died[l] = Never /\ now < Never
    BY <1>1, LoginIds, Times DEF IInv, LoginInv, Never
<1>14. SessionInv'
    BY <1>1, <1>2, <1>3, <1>4, <1>6, <1>9, <1>10, <1>13, NoCookie, Times
       DEF IInv, SessionInv, Never
<1>15. GrantInv'
    BY <1>1, <1>6 DEF IInv, GrantInv, Ids
<1>16. \A k \in 1..logins : Ended(k) => Ended(k)'
    BY <1>1, <1>2, <1>6, <1>9, NoCookie DEF Ended
<1>17. EndInv'
    <2>1. \A k \in Ids : failures'[k].reauthenticate => k \in 1..logins /\ Ended(k)
        BY <1>6 DEF IInv, EndInv
    <2>2. SignsOutRightly(Idle)
        BY IdleRequest DEF SignsOutRightly
    <2>3. logins' \in Nat /\ logins <= logins'
        BY <1>1, <1>6
    <2> QED
        BY <1>7, <1>16, <2>1, <2>2, <2>3, EndKeeps
<1> QED
    BY <1>8, <1>11, <1>12, <1>14, <1>15, <1>17 DEF IInv

\* A login that ends does so now, or has ended before: no cookie lasts too long.
LEMMA EndsKeeps ==
    ASSUME IInv, NEW l \in Ids, l <= logins, NEW t \in Nat,
           t = now \/ t = died[l], t <= died[l],
           died' = [died EXCEPT ![l] = t], UNCHANGED <<now, logins, jar, grants>>,
           unusable' = unusable \/ (unusable' = unusable \ {l} /\ t <= now),
           Refreshes' = Refreshes, Sessions' \subseteq Sessions \cup {None}
    PROVE  /\ LoginInv' /\ OneExpiry' /\ SessionInv' /\ GrantInv'
           /\ died' \in [Ids -> 0..Never]
           /\ \A k \in Ids : Ended(k) => Ended(k)'
<1>1. /\ died \in [Ids -> 0..Never] /\ now \in 0..MaxNow /\ now \in Nat /\ Never \in Nat
      /\ now < Never
    BY LoginIds, Times DEF IInv, TypeOK, Never
<1>2. /\ died'[l] = t /\ \A k \in Ids : k # l => died'[k] = died[k]
    BY <1>1
<1>3. died' \in [Ids -> 0..Never]
    BY <1>1
<1>4. LoginInv' /\ OneExpiry'
    <2>1. logins \in Nat
        BY LoginIds DEF IInv
    <2>2. \A k \in Ids : k > logins => died'[k] = Never
        BY <1>2, <2>1 DEF IInv, LoginInv, Ids
    <2>3. \A c \in Sessions' : c \in Sessions \/ c = None
        OBVIOUS
    <2> QED
        BY <2>1, <2>2, <2>3, NoCookie DEF IInv, LoginInv, OneExpiry
<1>5. SessionInv'
    <2> SUFFICES ASSUME NEW c \in Sessions, c.login # 0
                 PROVE  /\ c.exp <= now + MaxAge /\ c.exp <= died'[c.login] + Timeout + MaxAge
                        /\ \A r \in Refreshes : r.login = c.login => c.exp <= r.exp
        <3>1. \A c \in Sessions' : c \in Sessions \/ c = None
            OBVIOUS
        <3> QED
            BY <3>1, NoCookie DEF SessionInv
    <2>1. /\ c.exp <= now + MaxAge /\ c.exp <= died[c.login] + Timeout + MaxAge
          /\ \A r \in Refreshes : r.login = c.login => c.exp <= r.exp
        BY DEF IInv, SessionInv
    <2>2. c.exp \in Nat /\ c.login \in Ids
        BY CookieTypes, CookieNumbers DEF IInv, Ids
    <2>3. c.exp <= died'[c.login] + Timeout + MaxAge
        BY <1>1, <1>2, <2>1, <2>2, Times
    <2> QED
        BY <2>1, <2>3
<1>6. GrantInv'
    BY <1>1, <1>2 DEF IInv, GrantInv
<1>7. \A k \in Ids : Ended(k) => Ended(k)'
    BY <1>1, <1>2 DEF Ended
<1> QED
    BY <1>3, <1>4, <1>5, <1>6, <1>7

LEMMA WithdrawKeeps == ASSUME IInv, NEW l \in Ids, Withdraw(l) PROVE IInv'
<1>1. /\ UNCHANGED <<now, logins, jar, grants, failures, revocations, exchange, page>>
      /\ l <= logins /\ died[l] = Never /\ died' = [died EXCEPT ![l] = now]
      /\ unusable' = unusable \ {l}
    BY DEF Withdraw
<1>2. now \in Nat /\ now <= died[l]
    BY <1>1, LoginIds, Times DEF IInv, Never
<1>3. Refreshes' = Refreshes /\ Sessions' = Sessions
    BY <1>1 DEF Refreshes, Sessions
<1>4. /\ LoginInv' /\ OneExpiry' /\ SessionInv' /\ GrantInv'
      /\ died' \in [Ids -> 0..Never]
      /\ \A k \in Ids : Ended(k) => Ended(k)'
    <2>1. /\ UNCHANGED <<now, logins, jar, grants>> /\ now <= now
          /\ Sessions' \subseteq Sessions \cup {None}
        BY <1>1, <1>2, <1>3
    <2> QED
        BY <1>1, <1>2, <1>3, <2>1, EndsKeeps
<1>5. TypeOK'
    BY <1>1, <1>4 DEF IInv, TypeOK
<1>6. EndInv'
    <2>1. \A k \in Ids : failures'[k].reauthenticate => k \in 1..logins /\ Ended(k)
        BY <1>1 DEF IInv, EndInv
    <2>2. logins' \in Nat /\ logins <= logins' /\ \A k \in 1..logins : Ended(k) => Ended(k)'
        BY <1>1, <1>4, LoginIds DEF IInv
    <2> QED
        BY <1>1, <2>1, <2>2, EndKeeps
<1> QED
    BY <1>4, <1>5, <1>6 DEF IInv

\* Requests answered together, with their own cookies or none.
LEMMA AnswersType ==
    ASSUME TypeOK, NEW answer, NEW S \in SUBSET Exchanges,
           \A x \in S : answer[x] \in Request,
           exchange' = [x \in Exchanges |-> IF x \in S THEN answer[x] ELSE exchange[x]]
    PROVE  exchange' \in [Exchanges -> [kind : {"none", "api", "session", "logout"},
                phase : {"idle", "sent", "renewing", "revoking", "answered"},
                session : Cookie, refresh : Cookie, status : {0, 200, 401, 503},
                set : {"nothing", "session", "clear"}, cookie : Cookie]]
<1>1. exchange \in [Exchanges -> Request]
    BY DEF TypeOK, Request, Kinds, Phases, Statuses, Sets
<1>2. exchange' \in [Exchanges -> Request]
    BY <1>1
<1> QED
    BY <1>2 DEF Request, Kinds, Phases, Statuses, Sets

LEMMA RevokeKeeps == ASSUME IInv, NEW l \in Ids, Revoke(l) PROVE IInv'
<1> DEFINE S == {x \in Exchanges : exchange[x].phase = "revoking" /\ exchange[x].refresh.login = l}
           answer == [x \in Exchanges |-> Answer(x, 200, "clear", None)]
<1>1.   /\ \E x \in Exchanges : exchange[x].phase = "revoking" /\ exchange[x].refresh.login = l
        /\ \/ died' = [died EXCEPT ![l] = Min({@, now})] /\ unusable' = unusable \ {l}
           \/ died' = died /\ unusable' = unusable
        /\ revocations' = [revocations EXCEPT ![l] = now + Hold]
        /\ exchange' = [x \in Exchanges |->
                            IF exchange[x].phase = "revoking" /\ exchange[x].refresh.login = l
                            THEN Answer(x, 200, "clear", None) ELSE exchange[x]]
        /\ UNCHANGED <<now, logins, jar, grants, failures, page>>
    BY DEF Revoke
<1>2. l <= logins /\ now \in 0..MaxNow /\ now \in Nat /\ died[l] \in Nat /\ died[l] \in 0..Never
    <2>1. \A x \in Exchanges : exchange[x].refresh.login \in 0..logins
        BY DEF IInv, LoginInv, Refreshes
    <2> QED
        BY <1>1, <2>1, LoginIds, Times DEF IInv, TypeOK
<1>3. \A x \in Exchanges : exchange[x] \in Request
    BY DEF IInv, TypeOK, Request, Kinds, Phases, Statuses, Sets
<1>4. ASSUME NEW x \in Exchanges
      PROVE  /\ answer[x] \in Request /\ answer[x].phase = "answered" /\ answer[x].cookie = None
             /\ answer[x].kind = exchange[x].kind /\ answer[x].refresh = exchange[x].refresh
    BY <1>3, NoCookie, AnswerFields DEF Statuses, Sets
<1>5. exchange' = [x \in Exchanges |-> IF x \in S THEN answer[x] ELSE exchange[x]]
    BY <1>1
<1>6. /\ \A x \in S : x \in Exchanges /\ exchange[x].phase = "revoking"
      /\ S \in SUBSET Exchanges
    OBVIOUS
<1> HIDE DEF answer, S
<1>7. Refreshes' = Refreshes /\ Sessions' \subseteq Sessions \cup {None}
    <2>1. \A x \in Exchanges : /\ exchange'[x].refresh = exchange[x].refresh
                               /\ exchange'[x].cookie \in {exchange[x].cookie, None}
        BY <1>4, <1>5
    <2> QED
        BY <1>1, <2>1 DEF Refreshes, Sessions
<1>8. PICK t \in Nat : /\ (t = now \/ t = died[l]) /\ t <= died[l] /\ died' = [died EXCEPT ![l] = t]
                       /\ unusable' = unusable \/ (unusable' = unusable \ {l} /\ t <= now)
    <2>1. /\ Min({died[l], now}) \in {died[l], now}
          /\ Min({died[l], now}) <= died[l] /\ Min({died[l], now}) <= now
        BY <1>2, MinOfTwo
    <2>2. CASE died' = [died EXCEPT ![l] = Min({@, now})] /\ unusable' = unusable \ {l}
        BY <1>2, <2>1, <2>2
    <2>3. CASE died' = died /\ unusable' = unusable
        <3>1. died \in [Ids -> 0..Never]
            BY DEF IInv, TypeOK
        <3>2. died' = [died EXCEPT ![l] = died[l]]
            BY <2>3, <3>1
        <3> died[l] \in Nat /\ died[l] <= died[l]
            BY <1>2
        <3> WITNESS died[l] \in Nat
        <3> QED
            BY <2>3, <3>2
    <2> QED
        BY <1>1, <2>2, <2>3
<1>9. /\ LoginInv' /\ OneExpiry' /\ SessionInv' /\ GrantInv'
      /\ died' \in [Ids -> 0..Never]
      /\ \A k \in Ids : Ended(k) => Ended(k)'
    BY <1>1, <1>2, <1>7, <1>8, EndsKeeps
<1>10. TypeOK'
    <2>1. revocations' \in [Ids -> 0..(MaxNow + Hold)]
        BY <1>1, <1>2, Times DEF IInv, TypeOK
    <2>2. exchange' \in [Exchanges -> [kind : {"none", "api", "session", "logout"},
                phase : {"idle", "sent", "renewing", "revoking", "answered"},
                session : Cookie, refresh : Cookie, status : {0, 200, 401, 503},
                set : {"nothing", "session", "clear"}, cookie : Cookie]]
        BY <1>4, <1>5, <1>6, AnswersType DEF IInv
    <2> QED
        BY <1>1, <1>9, <2>1, <2>2 DEF IInv, TypeOK
<1>11. EndInv'
    <2>1. \A k \in Ids : failures'[k].reauthenticate => k \in 1..logins /\ Ended(k)
        BY <1>1 DEF IInv, EndInv
    <2>2. logins' \in Nat /\ logins <= logins' /\ \A k \in 1..logins : Ended(k) => Ended(k)'
        BY <1>1, <1>9, LoginIds DEF IInv
    <2>3. \A x \in S : SignsOutRightly(answer[x])
        BY <1>4, <1>6 DEF IInv, EndInv, SignsOutRightly
    <2>4. \A x \in Exchanges : exchange'[x] = exchange[x] \/ SignsOutRightly(exchange'[x])
        BY <1>5, <2>3
    <2> QED
        BY <2>1, <2>2, <2>4, EndKeeps
<1> QED
    BY <1>9, <1>10, <1>11 DEF IInv

-----------------------------------------------------------------------------
(* Grants.                                                                 *)

\* A step that changes no cookie of the browser and no request.
LEMMA SameCookies ==
    ASSUME UNCHANGED <<jar, exchange>>
    PROVE  Refreshes' = Refreshes /\ Sessions' = Sessions
BY DEF Refreshes, Sessions

LEMMA DecideKeeps == ASSUME IInv, NEW l \in Ids, Decide(l) PROVE IInv'
<1>1. PICK phase \in IF died[l] = Never THEN {"granted", "unusable"} ELSE {"denied"} :
            /\ grants[l].phase = "asked"
            /\ grants' = [grants EXCEPT ![l].phase = phase]
            /\ unusable' = IF phase = "unusable" THEN unusable \cup {l} ELSE unusable
            /\ UNCHANGED <<now, logins, died, jar, failures, revocations, exchange, page>>
    BY DEF Decide
<1>2. phase \in Outcomes /\ phase # "none"
    BY DEF Outcomes
<1>3. grants \in [Ids -> [phase : Outcomes, at : 0..MaxNow]]
    BY DEF IInv, TypeOK
<1>4. /\ phase = "granted" => died[l] = Never
      /\ phase = "unusable" => l \in unusable'
      /\ unusable \subseteq unusable' /\ unusable' \subseteq Ids
    BY <1>1 DEF IInv, TypeOK
<1>5. phase = "denied" => died[l] # Never
    OBVIOUS
<1>6. /\ grants'[l].phase = phase /\ grants'[l].at = grants[l].at
      /\ \A k \in Ids : k # l => grants'[k] = grants[k]
      /\ grants' \in [Ids -> [phase : Outcomes, at : 0..MaxNow]]
    BY <1>1, <1>2, <1>3
<1>7. {k \in Ids : grants'[k].phase # "none"} = {k \in Ids : grants[k].phase # "none"}
    BY <1>1, <1>2, <1>6
<1>8. TypeOK'
    BY <1>1, <1>4, <1>6, <1>7 DEF IInv, TypeOK
<1>9. LoginInv' /\ OneExpiry' /\ SessionInv'
    BY <1>1, SameCookies DEF IInv, LoginInv, OneExpiry, SessionInv
<1>10. GrantInv'
    <2>1. grants[l].at \in 0..MaxNow
        BY <1>3
    <2>2. died[l] = Never => grants[l].at <= died[l]
        BY <2>1, Times DEF Never
    <2> QED
        BY <1>1, <1>4, <1>5, <1>6, <2>2 DEF IInv, GrantInv
<1>11. EndInv'
    BY <1>1, <1>4, SameCookies DEF IInv, EndInv, SignsOutRightly, Ended
<1> QED
    BY <1>8, <1>9, <1>10, <1>11 DEF IInv

\* The requests that wait for the grant of l.
Waiting(l) == {x \in Exchanges : exchange[x].phase = "renewing" /\ exchange[x].refresh.login = l}

\* What a settled grant leaves: types, room, and each request as it was or answered.
Settled(l, answer) ==
    /\ GrantInv' /\ Refreshes' = Refreshes
    /\ grants' \in [Ids -> [phase : Outcomes, at : 0..MaxNow]]
    /\ Cardinality({k \in Ids : grants'[k].phase # "none"}) <= MaxGrants
    /\ exchange' \in [Exchanges -> [kind : {"none", "api", "session", "logout"},
         phase : {"idle", "sent", "renewing", "revoking", "answered"},
         session : Cookie, refresh : Cookie, status : {0, 200, 401, 503},
         set : {"nothing", "session", "clear"}, cookie : Cookie]]
    /\ \A x \in Exchanges : \/ x \in Waiting(l) /\ exchange'[x] = answer[x]
                            \/ exchange'[x] = exchange[x]

\* A grant that is settled makes room, and leaves every request its refresh cookie.
LEMMA SettleKeeps ==
    ASSUME IInv, NEW l \in Ids, NEW answer, Settle(l, answer),
           UNCHANGED <<now, logins, died, unusable, jar>>,
           \A x \in Waiting(l) : answer[x] \in Request /\ answer[x].refresh = exchange[x].refresh
    PROVE  Settled(l, answer)
<1>1. exchange' = [x \in Exchanges |-> IF x \in Waiting(l) THEN answer[x] ELSE exchange[x]]
    BY DEF Settle, Waiting
<1>2. Waiting(l) \in SUBSET Exchanges
    BY DEF Waiting
<1>3. grants' = [grants EXCEPT ![l] = NoGrant]
    BY DEF Settle
<1>4. NoGrant \in [phase : Outcomes, at : 0..MaxNow]
      /\ NoGrant.phase = "none"
    BY Times DEF NoGrant, Outcomes
<1>5. grants' \in [Ids -> [phase : Outcomes, at : 0..MaxNow]]
    BY <1>3, <1>4 DEF IInv, TypeOK
<1>6. /\ grants'[l].phase = "none"
      /\ \A k \in Ids : k # l => grants'[k] = grants[k]
    BY <1>3, <1>4 DEF IInv, TypeOK
<1>7. Cardinality({k \in Ids : grants'[k].phase # "none"}) <= MaxGrants
    <2> DEFINE busy == {k \in Ids : grants[k].phase # "none"}
               next == {k \in Ids : grants'[k].phase # "none"}
    <2>1. next \subseteq busy
        BY <1>6
    <2>2. IsFiniteSet(busy)
        <3>1. IsFiniteSet(Ids)
            BY FS_Interval, Times DEF Ids
        <3> QED
            BY <3>1, FS_Subset
    <2>3. Cardinality(busy) <= MaxGrants
        BY DEF IInv, TypeOK
    <2> HIDE DEF busy, next
    <2>4. /\ Cardinality(next) <= Cardinality(busy)
          /\ Cardinality(next) \in Nat /\ Cardinality(busy) \in Nat
        BY <2>1, <2>2, FS_Subset, FS_CardinalityType
    <2>5. Cardinality(next) <= MaxGrants
        BY <2>3, <2>4, Times
    <2> QED
        BY <2>5 DEF next
<1>8. GrantInv'
    BY <1>6 DEF IInv, GrantInv
<1>9. \A x \in Exchanges : \/ x \in Waiting(l) /\ exchange'[x] = answer[x]
                           \/ exchange'[x] = exchange[x]
    BY <1>1
<1>10. Refreshes' = Refreshes
    <2>1. \A x \in Exchanges : exchange'[x].refresh = exchange[x].refresh
        BY <1>9
    <2> QED
        BY <2>1 DEF Refreshes
<1>11. exchange' \in [Exchanges -> [kind : {"none", "api", "session", "logout"},
                phase : {"idle", "sent", "renewing", "revoking", "answered"},
                session : Cookie, refresh : Cookie, status : {0, 200, 401, 503},
                set : {"nothing", "session", "clear"}, cookie : Cookie]]
    BY <1>1, <1>2, AnswersType DEF IInv
<1> QED
    BY <1>5, <1>7, <1>8, <1>9, <1>10, <1>11 DEF Settled

LEMMA GrantedKeeps == ASSUME IInv, NEW l \in Ids, Granted(l) PROVE IInv'
<1> DEFINE cookie(x) == [login |-> l, exp |-> EndOf(exchange[x].refresh)]
           answer == [x \in Exchanges |-> Answer(x, 200, "session", cookie(x))]
<1>1. /\ grants[l].phase = "granted" /\ now <= grants[l].at + Timeout
      /\ Settle(l, answer)
      /\ UNCHANGED <<now, logins, died, unusable, jar, failures, revocations, page>>
    BY DEF Granted
<1>2. /\ l <= logins /\ grants[l].at <= died[l] /\ l # 0 /\ l \in 0..Logins
      /\ grants[l].at \in Nat /\ died[l] \in Nat /\ now \in Nat /\ logins \in Nat
    <2>1. l <= logins /\ grants[l].at <= died[l]
        BY <1>1 DEF IInv, GrantInv
    <2>2. grants[l].at \in 0..MaxNow /\ died[l] \in 0..Never
        BY DEF IInv, TypeOK
    <2> QED
        BY <2>1, <2>2, LoginIds, Times DEF IInv, Ids
<1>3. ASSUME NEW x \in Exchanges
      PROVE  /\ exchange[x] \in Request /\ exchange[x].refresh \in Refreshes
             /\ exchange[x].refresh \in Cookie /\ exchange[x].refresh.exp \in Nat
             /\ exchange[x].refresh.exp <= MaxNow + RefreshMaxAge
    BY CookieTypes, CookieNumbers
       DEF IInv, TypeOK, Request, Kinds, Phases, Statuses, Sets, Refreshes
<1>4. ASSUME NEW x \in Exchanges
      PROVE  /\ cookie(x) \in Cookie /\ cookie(x).login = l
             /\ cookie(x).exp \in Nat /\ cookie(x).exp <= now + MaxAge
             /\ cookie(x).exp <= exchange[x].refresh.exp
    <2>1. /\ EndOf(exchange[x].refresh) \in Nat
          /\ EndOf(exchange[x].refresh) <= exchange[x].refresh.exp
          /\ EndOf(exchange[x].refresh) <= now + MaxAge
        BY <1>2, <1>3, MinOfTwo, Times DEF EndOf
    <2>2. EndOf(exchange[x].refresh) \in 0..(MaxNow + RefreshMaxAge)
        BY <1>3, <2>1, Times
    <2> QED
        BY <1>2, <2>1, <2>2 DEF Cookie
<1> HIDE DEF cookie
<1>5. ASSUME NEW x \in Exchanges
      PROVE  /\ answer[x] \in Request /\ answer[x].phase = "answered"
             /\ answer[x].set = "session" /\ answer[x].cookie = cookie(x)
             /\ answer[x].refresh = exchange[x].refresh
    BY <1>3, <1>4, AnswerFields DEF Statuses, Sets
<1> HIDE DEF answer
<1>6. \A x \in Waiting(l) : x \in Exchanges /\ exchange[x].refresh.login = l
    BY DEF Waiting
<1>7. Settled(l, answer)
    <2>1. \A x \in Waiting(l) : answer[x] \in Request /\ answer[x].refresh = exchange[x].refresh
        BY <1>5, <1>6
    <2>2. Settle(l, answer) /\ UNCHANGED <<now, logins, died, unusable, jar>>
        BY <1>1
    <2> QED
        BY <2>1, <2>2, SettleKeeps
<1>8. TypeOK'
    BY <1>1, <1>7 DEF IInv, TypeOK, Settled
<1>9. \A c \in Sessions' : c \in Sessions \/ \E x \in Waiting(l) : c = cookie(x)
    BY <1>1, <1>5, <1>6, <1>7 DEF Sessions, Settled
<1>10. LoginInv'
    BY <1>1, <1>2, <1>4, <1>6, <1>7, <1>9 DEF IInv, LoginInv, Settled
<1>11. OneExpiry'
    BY <1>7 DEF IInv, OneExpiry, Settled
<1>12. SessionInv'
    <2>1. ASSUME NEW x \in Waiting(l)
          PROVE  /\ cookie(x).exp <= now + MaxAge
                 /\ cookie(x).exp <= died[l] + Timeout + MaxAge
                 /\ \A r \in Refreshes : r.login = l => cookie(x).exp <= r.exp
        <3>1. cookie(x).exp <= now + MaxAge /\ cookie(x).exp <= exchange[x].refresh.exp
              /\ cookie(x).exp \in Nat
            BY <1>4, <1>6
        <3>2. cookie(x).exp <= died[l] + Timeout + MaxAge
            BY <1>1, <1>2, <3>1, Times
        <3>3. \A r \in Refreshes : r.login = l => r.exp = exchange[x].refresh.exp
            BY <1>3, <1>6 DEF IInv, OneExpiry
        <3> QED
            BY <3>1, <3>2, <3>3
    <2>2. \A x \in Waiting(l) : cookie(x).login = l
        BY <1>4, <1>6
    <2>3. \A c \in Sessions : c.login # 0 =>
            /\ c.exp <= now + MaxAge /\ c.exp <= died[c.login] + Timeout + MaxAge
            /\ \A r \in Refreshes : r.login = c.login => c.exp <= r.exp
        BY DEF IInv, SessionInv
    <2> QED
        BY <1>1, <1>7, <1>9, <2>1, <2>2, <2>3 DEF SessionInv, Settled
<1>13. EndInv'
    <2>1. \A k \in Ids : failures'[k].reauthenticate => k \in 1..logins /\ Ended(k)
        BY <1>1 DEF IInv, EndInv
    <2>2. logins' \in Nat /\ logins <= logins' /\ \A k \in 1..logins : Ended(k) => Ended(k)'
        BY <1>1, <1>2, <1>7 DEF Ended, Settled
    <2>3. \A x \in Waiting(l) : SignsOutRightly(answer[x])
        BY <1>5, <1>6 DEF SignsOutRightly
    <2>4. \A x \in Exchanges : exchange'[x] = exchange[x] \/ SignsOutRightly(exchange'[x])
        BY <1>7, <2>3 DEF Settled
    <2> QED
        BY <2>1, <2>2, <2>4, EndKeeps
<1> QED
    BY <1>7, <1>8, <1>10, <1>11, <1>12, <1>13 DEF IInv, Settled

\* What the server remembers of a failure, and tells those who waited, is right.
LEMMA FailureIsRight ==
    ASSUME IInv, NEW l \in Ids, grants[l].phase # "none",
           \/ grants[l].phase \in {"denied", "unusable"}
           \/ \E x \in Exchanges : exchange[x].refresh.login = l /\ ~Valid(exchange[x].refresh)
    PROVE  l \in 1..logins /\ Ended(l)
<1>1. /\ l <= logins /\ (grants[l].phase = "denied" => died[l] # Never)
      /\ grants[l].phase = "unusable" => l \in unusable \/ died[l] # Never
    BY DEF IInv, GrantInv
<1>2. l \in 1..logins
    BY <1>1, LoginIds DEF IInv, Ids
<1>3. ASSUME NEW x \in Exchanges, exchange[x].refresh.login = l, ~Valid(exchange[x].refresh)
      PROVE  Ended(l)
    <2>1. exchange[x].refresh \in Refreshes /\ exchange[x].refresh \in Cookie
        BY CookieTypes DEF IInv, Refreshes
    <2>2. exchange[x].refresh.exp <= now
        BY <1>3, <2>1, CookieNumbers, LoginIds, Times DEF IInv, Valid
    <2>3. \A r \in Refreshes : r.login = l => r.exp = exchange[x].refresh.exp
        BY <1>3, <2>1 DEF IInv, OneExpiry
    <2> QED
        BY <2>2, <2>3 DEF Ended
<1> QED
    BY <1>1, <1>2, <1>3 DEF Ended

LEMMA GrantFailsKeeps == ASSUME IInv, NEW l \in Ids, GrantFails(l) PROVE IInv'
<1> DEFINE spent == \E x \in Exchanges : /\ exchange[x].phase = "renewing"
                                         /\ exchange[x].refresh.login = l
                                         /\ ~Valid(exchange[x].refresh)
           over == grants[l].phase \in {"denied", "unusable"} \/ (grants[l].phase = "granted" /\ spent)
<1>1. PICK reauthenticate \in {FALSE, over} :
            /\ failures' = [failures EXCEPT ![l] =
                                [until |-> now + Hold, reauthenticate |-> reauthenticate]]
            /\ Settle(l, [x \in Exchanges |-> Refusal(x, reauthenticate)])
    BY DEF GrantFails
<1>2. /\ grants[l].phase # "none"
      /\ UNCHANGED <<now, logins, died, unusable, jar, revocations, page>>
    BY DEF GrantFails
<1> DEFINE answer == [x \in Exchanges |-> Refusal(x, reauthenticate)]
<1>3. reauthenticate \in BOOLEAN /\ (reauthenticate => l \in 1..logins /\ Ended(l))
    <2>1. over => l \in 1..logins /\ Ended(l)
        BY <1>2, FailureIsRight
    <2> QED
        BY <2>1
<1> HIDE DEF over, spent
<1>4. ASSUME NEW x \in Exchanges
      PROVE  /\ answer[x] \in Request /\ answer[x].phase = "answered"
             /\ answer[x].set = "clear" => reauthenticate
             /\ answer[x].cookie = None /\ answer[x].refresh = exchange[x].refresh
    <2>1. exchange[x] \in Request
        BY DEF IInv, TypeOK, Request, Kinds, Phases, Statuses, Sets
    <2>2. /\ answer[x] = Answer(x, 401, "clear", None) /\ reauthenticate
          \/ answer[x] = Answer(x, 503, "nothing", None)
        BY DEF Refusal
    <2>3. /\ 401 \in Statuses /\ 503 \in Statuses /\ "clear" \in Sets /\ "nothing" \in Sets
        BY DEF Statuses, Sets
    <2> QED
        BY <2>1, <2>2, <2>3, NoCookie, AnswerFields
<1>5. Settle(l, answer)
    BY <1>1
<1> HIDE DEF answer
<1>6. \A x \in Waiting(l) : x \in Exchanges /\ exchange[x].refresh.login = l
    BY DEF Waiting
<1>7. Settled(l, answer)
    <2>1. \A x \in Waiting(l) : answer[x] \in Request /\ answer[x].refresh = exchange[x].refresh
        BY <1>4, <1>6
    <2>2. UNCHANGED <<now, logins, died, unusable, jar>>
        BY <1>2
    <2> QED
        BY <1>5, <2>1, <2>2, SettleKeeps
<1>8. failures' \in [Ids -> [until : 0..(MaxNow + Hold), reauthenticate : BOOLEAN]]
    <2>1. now + Hold \in 0..(MaxNow + Hold)
        BY LoginIds, Times DEF IInv
    <2>2. [until |-> now + Hold, reauthenticate |-> reauthenticate]
                \in [until : 0..(MaxNow + Hold), reauthenticate : BOOLEAN]
        BY <1>3, <2>1
    <2> QED
        BY <1>1, <2>2 DEF IInv, TypeOK
<1>9. TypeOK'
    BY <1>2, <1>7, <1>8 DEF IInv, TypeOK, Settled
<1>10. LoginInv' /\ OneExpiry' /\ SessionInv'
    <2>1. \A x \in Exchanges : exchange'[x].cookie \in {exchange[x].cookie, None}
        BY <1>4, <1>6, <1>7 DEF Settled
    <2>2. Sessions' \subseteq Sessions \cup {None}
        BY <1>2, <2>1 DEF Sessions
    <2> QED
        BY <1>2, <1>7, <2>2, NothingNew DEF Settled
<1>11. EndInv'
    <2>1. \A k \in Ids : failures'[k].reauthenticate => k \in 1..logins /\ Ended(k)
        <3>1. failures \in [Ids -> [until : 0..(MaxNow + Hold), reauthenticate : BOOLEAN]]
            BY DEF IInv, TypeOK
        <3>2. /\ failures'[l].reauthenticate = reauthenticate
              /\ \A k \in Ids : k # l => failures'[k] = failures[k]
            BY <1>1, <3>1
        <3> QED
            BY <1>3, <3>2 DEF IInv, EndInv
    <2>2. logins' \in Nat /\ logins <= logins' /\ \A k \in 1..logins : Ended(k) => Ended(k)'
        BY <1>2, <1>7, LoginIds DEF Ended, IInv, Settled
    <2>3. \A x \in Waiting(l) : SignsOutRightly(answer[x])
        BY <1>3, <1>4, <1>6 DEF SignsOutRightly
    <2>4. \A x \in Exchanges : exchange'[x] = exchange[x] \/ SignsOutRightly(exchange'[x])
        BY <1>7, <2>3 DEF Settled
    <2> QED
        BY <2>1, <2>2, <2>4, EndKeeps
<1> QED
    BY <1>7, <1>9, <1>10, <1>11 DEF IInv, Settled

-----------------------------------------------------------------------------
(* Time.                                                                   *)

\* Cookies and outcomes only run out; no login ends by the passing of time.
LEMMA TickKeeps == ASSUME IInv, Tick PROVE IInv'
<1>1. /\ now' = now + 1 /\ now < MaxNow
      /\ jar' = [session |-> Kept(jar.session), refresh |-> Kept(jar.refresh)]
      /\ failures' = [l \in Ids |-> IF failures[l].until > now' THEN failures[l] ELSE NoFailure]
      /\ revocations' = [l \in Ids |-> IF revocations[l] > now' THEN revocations[l] ELSE 0]
      /\ UNCHANGED <<logins, died, unusable, grants, exchange, page>>
    BY DEF Tick
<1>2. now \in Nat /\ now' \in 0..MaxNow /\ logins \in Nat
    BY <1>1, LoginIds, Times DEF IInv
<1>3. /\ Kept(jar.session) \in {jar.session, None} /\ Kept(jar.session) \in Cookie
      /\ Kept(jar.refresh) \in {jar.refresh, None} /\ Kept(jar.refresh) \in Cookie
    BY CookieTypes, NoCookie DEF IInv, Kept
<1>4. jar' \in [session : Cookie, refresh : Cookie]
    BY <1>1, <1>3
<1>5. failures' \in [Ids -> [until : 0..(MaxNow + Hold), reauthenticate : BOOLEAN]]
    <2>1. NoFailure \in [until : 0..(MaxNow + Hold), reauthenticate : BOOLEAN]
        BY Times DEF NoFailure
    <2>2. \A l \in Ids : failures[l] \in [until : 0..(MaxNow + Hold), reauthenticate : BOOLEAN]
        BY DEF IInv, TypeOK
    <2> QED
        BY <1>1, <2>1, <2>2
<1>6. revocations' \in [Ids -> 0..(MaxNow + Hold)]
    <2>1. \A l \in Ids : revocations[l] \in 0..(MaxNow + Hold)
        BY DEF IInv, TypeOK
    <2> QED
        BY <1>1, <2>1, Times
<1>7. TypeOK'
    BY <1>1, <1>2, <1>4, <1>5, <1>6 DEF IInv, TypeOK
<1>8. /\ \A r \in Refreshes' : r \in Refreshes \/ r = None
      /\ \A c \in Sessions' : c \in Sessions \/ c = None
    BY <1>1, <1>3 DEF Refreshes, Sessions
<1>9. LoginInv' /\ OneExpiry'
    BY <1>1, <1>2, <1>8, NoCookie DEF IInv, LoginInv, OneExpiry
<1>10. SessionInv'
    <2>1. \A c \in Sessions : c.exp \in Nat
        BY CookieTypes, CookieNumbers DEF IInv
    <2> QED
        BY <1>1, <1>2, <1>8, <2>1, NoCookie, Times DEF IInv, SessionInv
<1>11. GrantInv'
    <2>1. \A l \in Ids : grants[l].at \in 0..MaxNow
        BY DEF IInv, TypeOK
    <2> QED
        BY <1>1, <1>2, <2>1 DEF IInv, GrantInv
<1>12. EndInv'
    <2>1. \A l \in Ids : failures'[l].reauthenticate => failures'[l] = failures[l]
        BY <1>1 DEF NoFailure
    <2>2. \A l \in Ids : failures'[l].reauthenticate => l \in 1..logins /\ Ended(l)
        BY <2>1 DEF IInv, EndInv
    <2>3. ASSUME NEW k \in 1..logins, Ended(k) PROVE Ended(k)'
        <3>1. \A r \in Refreshes : r.exp \in Nat
            BY CookieTypes, CookieNumbers DEF IInv
        <3> QED
            BY <1>1, <1>2, <1>8, <2>3, <3>1, NoCookie DEF Ended
    <2> QED
        BY <1>1, <1>2, <2>2, <2>3, EndKeeps
<1> QED
    BY <1>7, <1>9, <1>10, <1>11, <1>12 DEF IInv

LEMMA NextKeeps == IInv /\ [Next]_vars => IInv'
<1> SUFFICES ASSUME IInv, [Next]_vars PROVE IInv'
    OBVIOUS
<1>1. CASE UNCHANGED vars
    BY <1>1 DEF vars, IInv, TypeOK, LoginInv, OneExpiry, SessionInv, GrantInv, EndInv,
                SignsOutRightly, Ended, Refreshes, Sessions
<1>2. CASE Tick \/ Login \/ PageGivesUp
    BY <1>2, TickKeeps, LoginKeeps, PageGivesUpKeeps
<1>3. CASE PageRenews
    <2>1. "page" \in Exchanges
        BY DEF Exchanges
    <2> QED
        BY <1>3, <2>1, SendKeeps DEF PageRenews
<1>4. ASSUME NEW x \in Tabs, Browse(x) PROVE IInv'
    <2>1. x \in Exchanges
        BY DEF Exchanges
    <2> QED
        BY <1>4, <2>1, SendKeeps DEF Browse
<1>5. ASSUME NEW l \in Ids,
             Withdraw(l) \/ Decide(l) \/ Granted(l) \/ GrantFails(l) \/ Revoke(l)
      PROVE  IInv'
    BY <1>5, WithdrawKeeps, DecideKeeps, GrantedKeeps, GrantFailsKeeps, RevokeKeeps
<1>6. ASSUME NEW x \in Exchanges,
             Deliver(x) \/ Lose(x) \/ Authenticate(x) \/ Renew(x) \/ Logout(x)
      PROVE  IInv'
    BY <1>6, DeliverKeeps, LoseKeeps, AuthenticateKeeps, RenewKeeps, LogoutKeeps
<1> QED
    BY <1>1, <1>2, <1>3, <1>4, <1>5, <1>6 DEF Next

-----------------------------------------------------------------------------
(* The theorems.                                                           *)

\* The inductive invariant: cookies of one login agree, a grant precedes the end of its
\* login, and where an answer signs out other than at the user's request, the login's
\* access or refresh session has ended or the provider's own answer was refused
\* (another refresh token, claims that are no user's: auth.js 244-248).
THEOREM InductiveInvariant == Spec => []IInv
BY InitEstablishes, NextKeeps, PTL DEF Spec

\* Cookies, grants and remembered outcomes keep their types, and no more than
\* MaxGrants grants are under way (auth.js 237, at most 16).
THEOREM TypeCorrect == Spec => []TypeOK
<1>1. IInv => TypeOK
    BY DEF IInv
<1> QED
    BY <1>1, InductiveInvariant, PTL

\* A session ends with its refresh session, whichever answers are late or lost.
THEOREM SessionsEnd == Spec => []SessionsRunOut
<1>1. ASSUME IInv PROVE SessionsRunOut
    <2>1. jar.refresh \in Refreshes
        BY DEF Refreshes
    <2> QED
        BY <1>1, <2>1 DEF SessionsRunOut, IInv, SessionInv
<1> QED
    BY <1>1, InductiveInvariant, PTL

\* Within a session's length and one provider call of the sign-out or the withdrawal
\* that ended a login, its sessions are over, whichever answers are late or lost.
THEOREM RevocationIsBounded == Spec => []RevokedRunOut
<1>1. IInv => RevokedRunOut
    BY DEF RevokedRunOut, IInv, SessionInv
<1> QED
    BY <1>1, InductiveInvariant, PTL

\* An unreachable provider ends no session: a browser loses the refresh cookie of a
\* living login only to a sign-out, to the answer of another login's request, or once
\* the provider has answered a refresh of it with what the server refuses.
THEOREM OnlyReasonsSignOut == Spec => SignOutJustified
<1> DEFINE Justified == \A l \in Ids \ unusable :
        (jar.refresh.login = l /\ jar'.refresh.login = 0 /\ died[l] = Never /\ jar.refresh.exp > now') =>
            \E x \in Exchanges : /\ exchange[x].phase = "answered" /\ exchange'[x].phase = "idle"
                                 /\ exchange[x].kind = "logout" \/ exchange[x].refresh.login # l
<1>1. IInv /\ [Next]_vars => [Justified]_vars
    <2> SUFFICES ASSUME IInv, Next PROVE Justified
        OBVIOUS
    <2> SUFFICES ASSUME NEW l \in Ids \ unusable, jar.refresh.login = l, jar'.refresh.login = 0,
                        died[l] = Never, jar.refresh.exp > now'
                 PROVE  \E x \in Exchanges :
                            /\ exchange[x].phase = "answered" /\ exchange'[x].phase = "idle"
                            /\ exchange[x].kind = "logout" \/ exchange[x].refresh.login # l
        OBVIOUS
    <2>1. l # 0 /\ jar' # jar /\ now \in Nat /\ logins \in Nat
        BY LoginIds DEF IInv, Ids
    <2>2. /\ ~PageRenews /\ ~PageGivesUp /\ \A x \in Tabs : ~Browse(x)
          /\ \A k \in Ids : /\ ~Withdraw(k) /\ ~Decide(k) /\ ~Granted(k) /\ ~GrantFails(k)
                            /\ ~Revoke(k)
          /\ \A x \in Exchanges : ~Lose(x) /\ ~Authenticate(x) /\ ~Renew(x) /\ ~Logout(x)
        BY <2>1 DEF PageRenews, PageGivesUp, Browse, Withdraw, Decide, Granted, GrantFails,
                    Revoke, Lose, Authenticate, Renew, Logout
    <2>3. ~Login
        BY <2>1 DEF Login
    <2>4. ~Tick
        BY <2>1 DEF Tick, Kept
    <2>5. PICK x \in Exchanges : Deliver(x)
        BY <2>2, <2>3, <2>4 DEF Next
    <2>6. exchange[x].phase = "answered" /\ exchange'[x].phase = "idle" /\ now' = now
        BY <2>5, IdleRequest DEF Deliver, IInv, TypeOK
    <2>7. exchange[x].set = "clear"
        <3>1. exchange[x].set \in {"nothing", "session", "clear"}
            BY DEF IInv, TypeOK
        <3>2. jar \in [session : Cookie, refresh : Cookie]
            BY DEF IInv, TypeOK
        <3> QED
            BY <2>1, <2>5, <3>1, <3>2 DEF Deliver
    <2>8. CASE exchange[x].kind # "logout" /\ exchange[x].refresh.login = l
        <3>1. Ended(l)
            BY <2>6, <2>7, <2>8 DEF IInv, EndInv, SignsOutRightly
        <3>2. jar.refresh \in Refreshes /\ jar.refresh.exp \in Nat
            BY CookieTypes, CookieNumbers DEF IInv, Refreshes
        <3>3. jar.refresh.exp <= now
            BY <3>1, <3>2 DEF Ended
        <3> QED
            BY <2>1, <2>6, <3>2, <3>3
    <2> QED
        BY <2>6, <2>8
<1>2. SignOutJustified <=> [][Justified]_vars
    BY DEF SignOutJustified
<1> QED
    BY <1>1, <1>2, InductiveInvariant, PTL DEF Spec

=============================================================================
