--------------------------- MODULE CollectorRenewal ---------------------------
(***************************************************************************)
(* The device's side of token renewal: install.py `renew`, run by a timer, *)
(* against the server's rule for tokens (DeviceTokens, here in one step    *)
(* per request), beside the Collector service that holds its token in      *)
(* memory and beside a rerun of `install` that puts the same token back    *)
(* (--token-file naming the installed token, as the README has it).        *)
(*                                                                         *)
(* A process may die between any two of its file or service operations.    *)
(* One clock tick is a day: the timer's period.                            *)
(***************************************************************************)
EXTENDS Integers, FiniteSets

CONSTANTS
    TokenDays,      \* days a token lives
    WindowDays,     \* days before expiry in which it is replaced
    MaxBadDays,     \* consecutive days without one complete renewal run
    MaxDay,         \* bound: the clock stops here
    MaxToken,       \* bound: tokens drawn for the device
    MaxInstalls,    \* bound: reruns of the installer over a working installation
    MaxStragglers   \* bound: requests in flight that nobody waits for

ASSUME DaysAssumption ==
    /\ {TokenDays, WindowDays, MaxBadDays, MaxDay, MaxInstalls, MaxStragglers} \subseteq Nat
    /\ MaxToken \in Nat \ {0}
    /\ MaxBadDays < WindowDays
    \* the run that first uses a replacement mints no other one, so it must come
    \* before the replacement's own window
    /\ WindowDays + MaxBadDays + 1 < TokenDays

VARIABLES
    day,            \* the clock
    server,         \* the device's record: current and pending token
    drawn,          \* tokens drawn so far
    file,           \* contents of root/token
    marker,         \* root/restart-pending exists
    collector,      \* the service: running, enabled, and the token it holds
    renewal,        \* the `renew` process
    installer,      \* the `install` process
    installs,       \* reruns of the installer so far
    stragglers,     \* bearer tokens of abandoned requests still on their way
    good,           \* a renewal run completed today
    bad,            \* consecutive days without one
    displaced       \* history: a straggler replaced the pending token the client has

collectorVars == <<day, server, drawn, file, marker, collector, renewal, installer,
                   installs, stragglers, good, bad, displaced>>
clientFiles == <<file, marker>>
days == <<day, good, bad>>
record == <<server, drawn>>
install == <<installer, installs>>
wire == <<stragglers, displaced>>

Token == 1..MaxToken
NoToken == 0        \* no pending token; nothing read yet

Record == [current : Token, expiresAt : Nat, pending : Token \cup {NoToken},
           pendingExpiresAt : Nat]
Service == [running : BOOLEAN, enabled : BOOLEAN, held : Token]

\* Answers of the renewal endpoint: a new token, "not due", or 401.
NotDue == -1
Unauthorized == -2
Answer == Token \cup {NotDue, Unauthorized}

\* How far the renewer is.  catchUp and unmark finish the restart an earlier
\* run left behind; token is root/token as read, answer the validated reply.
Renewal == [pc : {"idle", "catchUp", "unmark", "post", "waiting", "answered",
                  "replace", "restart", "finish"},
            token : Token \cup {NoToken}, answer : Answer \cup {NoToken}]
NoRenewal == [pc |-> "idle", token |-> NoToken, answer |-> NoToken]

\* given is the token to install; before and service are what was found under the lock.
Installer == [pc : {"idle", "read", "prepare", "stopped", "written", "rollback"},
              given : Token \cup {NoToken}, before : Token \cup {NoToken},
              service : [running : BOOLEAN, enabled : BOOLEAN]]
Found(running, enabled) == [running |-> running, enabled |-> enabled]
NoInstaller ==
    [pc |-> "idle", given |-> NoToken, before |-> NoToken, service |-> Found(FALSE, FALSE)]

CollectorTypeOK ==
    /\ day \in 0..MaxDay
    /\ server \in Record
    /\ drawn \in Token
    /\ file \in Token
    /\ marker \in BOOLEAN
    /\ collector \in Service
    /\ renewal \in Renewal
    /\ installer \in Installer
    /\ installs \in 0..MaxInstalls
    /\ stragglers \subseteq Token
    /\ good \in BOOLEAN
    /\ bad \in 0..MaxBadDays
    /\ displaced \in BOOLEAN

\* A device just installed.
CollectorInit ==
    /\ day = 0
    /\ server = [current |-> 1, expiresAt |-> TokenDays,
                  pending |-> NoToken, pendingExpiresAt |-> 0]
    /\ drawn = 1
    /\ file = 1
    /\ marker = FALSE
    /\ collector = [running |-> TRUE, enabled |-> TRUE, held |-> 1]
    /\ renewal = NoRenewal
    /\ installer = NoInstaller
    /\ installs = 0
    /\ stragglers = {}
    /\ good = FALSE
    /\ bad = 0
    /\ displaced = FALSE

-----------------------------------------------------------------------------
(***************************************************************************)
(* The server.                                                             *)
(***************************************************************************)

IsCurrent(t) == t = server.current /\ server.expiresAt > day
IsPending(t) == t = server.pending /\ server.pendingExpiresAt > day
Accepts(t) == IsCurrent(t) \/ IsPending(t)

\* The record once t was used: a pending token becomes the current one.
Promoted(t) ==
    IF IsPending(t) /\ ~IsCurrent(t)
    THEN [current |-> t, expiresAt |-> server.pendingExpiresAt,
          pending |-> NoToken, pendingExpiresAt |-> 0]
    ELSE server

Due(t) == IsCurrent(t) /\ server.expiresAt - day <= WindowDays

\* A renewal request with bearer token t, from its arrival to the answer.
Serve(t, answer) ==
    \/ /\ ~Due(t)
       /\ answer = IF Accepts(t) THEN NotDue ELSE Unauthorized
       /\ server' = Promoted(t)
       /\ UNCHANGED drawn
    \/ /\ Due(t)
       /\ drawn < MaxToken
       /\ drawn' = drawn + 1
       /\ answer = drawn'
       /\ server' = [server EXCEPT !.pending = drawn', !.pendingExpiresAt = day + TokenDays]

-----------------------------------------------------------------------------
(***************************************************************************)
(* The Collector service.  Its bearer-token extension reads the file when  *)
(* it starts, and may or may not notice a change of the file later.        *)
(***************************************************************************)

StartedFrom(t) == [running |-> TRUE, enabled |-> collector.enabled, held |-> t]

Deliver ==
    /\ collector.running
    /\ server' = Promoted(collector.held)
    /\ UNCHANGED <<days, drawn, clientFiles, collector, renewal, install, wire>>

CollectorDies ==
    /\ collector.running
    /\ collector' = [collector EXCEPT !.running = FALSE]
    /\ UNCHANGED <<days, record, clientFiles, renewal, install, wire>>

\* Restart=always and KeepAlive start a service that is enabled.
CollectorStarts ==
    /\ ~collector.running /\ collector.enabled
    /\ collector' = StartedFrom(file)
    /\ UNCHANGED <<days, record, clientFiles, renewal, install, wire>>

CollectorReloads ==
    /\ collector.running
    /\ collector' = StartedFrom(file)
    /\ UNCHANGED <<days, record, clientFiles, renewal, install, wire>>

\* service_command(unit, "restart"): a failure leaves the old process alone or
\* leaves none.
RestartSucceeds == collector' = StartedFrom(file)
RestartFails ==
    \/ UNCHANGED collector
    \/ collector' = [collector EXCEPT !.running = FALSE]

-----------------------------------------------------------------------------
(***************************************************************************)
(* The renewer.  flock on .install.lock excludes it and the installer.     *)
(***************************************************************************)

LockFree == renewal.pc = "idle" /\ installer.pc \in {"idle", "read"}

RenewerAt(pc) == [renewal EXCEPT !.pc = pc]

\* Faulty: a run asks the server first and forgets the restart left behind.
RenewStartAsksFirst ==
    /\ collector.enabled
    /\ LockFree
    /\ renewal' = [pc |-> "post", token |-> file, answer |-> NoToken]
    /\ UNCHANGED <<days, record, clientFiles, collector, install, wire>>

RenewStart ==
    /\ collector.enabled        \* the timer is stopped and started with the service
    /\ LockFree
    /\ renewal' = [pc |-> IF marker THEN "catchUp" ELSE "post",
                   token |-> file, answer |-> NoToken]
    /\ UNCHANGED <<days, record, clientFiles, collector, install, wire>>

RenewExit == renewal' = NoRenewal

\* Both restarts of the code: at pc, on to next.
RenewRestart(pc, next) ==
    /\ renewal.pc = pc
    /\ RestartSucceeds
    /\ renewal' = RenewerAt(next)
    /\ UNCHANGED <<days, record, clientFiles, install, wire>>

\* Faulty: the marker goes although the restart failed.
RenewRestartFailsUnmarked ==
    /\ renewal.pc \in {"catchUp", "restart"}
    /\ RestartFails
    /\ marker' = FALSE
    /\ RenewExit
    /\ UNCHANGED <<days, record, file, install, wire>>

RenewRestartFails ==
    /\ renewal.pc \in {"catchUp", "restart"}
    /\ RestartFails
    /\ RenewExit
    /\ UNCHANGED <<days, record, clientFiles, install, wire>>

RenewUnmark ==
    /\ renewal.pc = "unmark"
    /\ marker' = FALSE
    /\ renewal' = RenewerAt("post")
    /\ UNCHANGED <<days, record, file, collector, install, wire>>

RenewPost ==
    /\ renewal.pc = "post"
    /\ renewal' = RenewerAt("waiting")
    /\ UNCHANGED <<days, record, clientFiles, collector, install, wire>>

ServeRenewal ==
    /\ renewal.pc = "waiting"
    /\ \E answer \in Answer :
          /\ Serve(renewal.token, answer)
          /\ renewal' = [renewal EXCEPT !.pc = "answered", !.answer = answer]
    /\ UNCHANGED <<days, clientFiles, collector, install, wire>>

\* The client gives up (15 s, a refused or invalid reply) or dies.  A request
\* still on its way may be lost or arrive later.
Abandoned ==
    \/ UNCHANGED stragglers
    \/ /\ renewal.pc = "waiting"
       /\ stragglers' = stragglers \cup {renewal.token}
       /\ Cardinality(stragglers') <= MaxStragglers

RenewGivesUp ==
    /\ renewal.pc # "idle"
    /\ Abandoned
    /\ RenewExit
    /\ UNCHANGED <<days, record, clientFiles, collector, install, displaced>>

\* A late request: served like any other, its answer goes nowhere.
ServeStraggler ==
    \E t \in stragglers :
       /\ \E answer \in Answer : Serve(t, answer)
       /\ stragglers' = stragglers \ {t}
       /\ displaced' = (displaced \/ /\ drawn' # drawn
                                     /\ server.pending \in {file, renewal.answer} \cap Token)
       /\ UNCHANGED <<days, clientFiles, collector, renewal, install>>

StragglerLost ==
    \E t \in stragglers :
       /\ stragglers' = stragglers \ {t}
       /\ UNCHANGED <<days, record, clientFiles, collector, renewal, install, displaced>>

\* 401 and "not due" end the run; a new token is first announced by the marker.
RenewReject ==
    /\ renewal.pc = "answered"
    /\ renewal.answer = Unauthorized
    /\ RenewExit
    /\ UNCHANGED <<days, record, clientFiles, collector, install, wire>>

RenewNotDue ==
    /\ renewal.pc = "answered"
    /\ renewal.answer = NotDue
    /\ good' = TRUE
    /\ RenewExit
    /\ UNCHANGED <<day, bad, record, clientFiles, collector, install, wire>>

RenewMark ==
    /\ renewal.pc = "answered"
    /\ renewal.answer \in Token
    /\ marker' = TRUE
    /\ renewal' = RenewerAt("replace")
    /\ UNCHANGED <<days, record, file, collector, install, wire>>

RenewReplace ==
    /\ renewal.pc = "replace"
    /\ file' = renewal.answer
    /\ renewal' = RenewerAt("restart")
    /\ UNCHANGED <<days, record, marker, collector, install, wire>>

RenewFinish ==
    /\ renewal.pc = "finish"
    /\ marker' = FALSE
    /\ good' = TRUE
    /\ RenewExit
    /\ UNCHANGED <<day, bad, record, file, collector, install, wire>>

-----------------------------------------------------------------------------
(***************************************************************************)
(* The installer, rerun with --token-file naming root/token.               *)
(***************************************************************************)

InstallRead ==
    /\ installer.pc = "idle"
    /\ IF collector.enabled
       THEN installs < MaxInstalls /\ installs' = installs + 1
       ELSE UNCHANGED installs         \* again after an interrupted run
    /\ installer' = [NoInstaller EXCEPT !.pc = "read", !.given = file]
    /\ UNCHANGED <<days, record, clientFiles, collector, renewal, wire>>

\* Faulty: the token read before the lock is the one installed.
RereadNothing(given) == given

\* Under the lock the token is read again.
Reread(given) == file

InstallLock ==
    /\ installer.pc = "read"
    /\ LockFree
    /\ installer' = [pc |-> "prepare", given |-> Reread(installer.given), before |-> file,
                     service |-> Found(collector.running, collector.enabled)]
    /\ UNCHANGED <<days, record, clientFiles, collector, renewal, installs, wire>>

\* The lock is busy, the download or the validation fails, the process dies.
InstallGivesUp ==
    /\ installer.pc # "idle"
    /\ installer' = NoInstaller
    /\ UNCHANGED <<days, record, clientFiles, collector, renewal, installs, wire>>

InstallStop ==
    /\ installer.pc = "prepare"
    /\ collector' = [collector EXCEPT !.running = FALSE, !.enabled = FALSE]
    /\ installer' = [installer EXCEPT !.pc = "stopped"]
    /\ UNCHANGED <<days, record, clientFiles, renewal, installs, wire>>

InstallWrite ==
    /\ installer.pc = "stopped"
    /\ file' = installer.given
    /\ installer' = [installer EXCEPT !.pc = "written"]
    /\ UNCHANGED <<days, record, marker, collector, renewal, installs, wire>>

InstallStart ==
    /\ installer.pc = "written"
    /\ collector' = [running |-> TRUE, enabled |-> TRUE, held |-> file]
    /\ installer' = NoInstaller
    /\ UNCHANGED <<days, record, clientFiles, renewal, installs, wire>>

\* A stop or a write fails, or a start, which may already have launched the process.
InstallFails ==
    /\ installer.pc \in {"prepare", "stopped", "written"}
    /\ \/ UNCHANGED collector
       \/ installer.pc = "written" /\ collector' = StartedFrom(file)
    /\ installer' = [installer EXCEPT !.pc = "rollback"]
    /\ UNCHANGED <<days, record, clientFiles, renewal, installs, wire>>

InstallRollback ==
    /\ installer.pc = "rollback"
    /\ file' = installer.before
    /\ collector' = [running |-> installer.service.running, enabled |-> installer.service.enabled,
                     held |-> IF installer.service.running THEN installer.before
                              ELSE collector.held]
    /\ installer' = NoInstaller
    /\ UNCHANGED <<days, record, marker, renewal, installs, wire>>

-----------------------------------------------------------------------------
\* A day passes.  At most MaxBadDays in a row see no complete renewal run (one
\* lasts 180 s at most, and no request is on its way for longer than a day), and
\* an interrupted installation is rerun before the day is over.
NextDay ==
    /\ day < MaxDay
    /\ renewal.pc = "idle" /\ stragglers = {}
    /\ collector.enabled
    /\ good \/ bad < MaxBadDays
    /\ day' = day + 1
    /\ bad' = IF good THEN 0 ELSE bad + 1
    /\ good' = FALSE
    /\ UNCHANGED <<record, clientFiles, collector, renewal, install, wire>>

RenewCatchUp == RenewRestart("catchUp", "unmark")
RenewGoLive == RenewRestart("restart", "finish")

Renewing ==
    \/ RenewCatchUp \/ RenewGoLive \/ RenewRestartFails \/ RenewUnmark \/ RenewPost
    \/ ServeRenewal \/ RenewGivesUp \/ RenewReject \/ RenewNotDue \/ RenewMark
    \/ RenewReplace \/ RenewFinish

Installing ==
    \/ InstallLock \/ InstallGivesUp \/ InstallStop \/ InstallWrite \/ InstallStart
    \/ InstallFails \/ InstallRollback

CollectorNext ==
    \/ Deliver \/ CollectorDies \/ CollectorStarts \/ CollectorReloads
    \/ RenewStart \/ Renewing \/ ServeStraggler \/ StragglerLost
    \/ InstallRead \/ Installing
    \/ NextDay

CollectorSpec == CollectorInit /\ [][CollectorNext]_collectorVars

\* The service manager starts what is enabled, the timer keeps firing, and no
\* process hangs (each request, command and unit has a timeout).  A restart that
\* is tried again and again succeeds in the end, and a run outlives the next step.
CollectorFairSpec ==
    /\ CollectorSpec
    /\ WF_collectorVars(CollectorStarts)
    /\ SF_collectorVars(RenewStart) /\ WF_collectorVars(Renewing) /\ WF_collectorVars(Installing)
    /\ SF_collectorVars(RenewCatchUp) /\ SF_collectorVars(RenewUnmark)

-----------------------------------------------------------------------------
(***************************************************************************)
(* Properties.                                                             *)
(***************************************************************************)

\* The token on disk is always one the server takes, whatever dies or is lost:
\* a device is never locked out by its own renewal (renew, install.py:804).  The
\* one exception is a late request that replaced an unused replacement.
FileAccepted == displaced \/ Accepts(file)

\* The running Collector always delivers: its token is neither retired by the
\* first use of a replacement it has not loaded (install.py:811-815 restarts
\* before it asks) nor left to expire while fewer days than the window go bad.
CollectorServed == displaced \/ (collector.running => Accepts(collector.held))

\* The Collector always comes to hold the token on disk again, however often
\* restarts fail and runs die, unless an interrupted installation left the
\* service disabled (the marker is retried first, install.py:811-815).
GoesLive ==
    []<>((collector.running /\ collector.held = file) \/ ~collector.enabled)
=============================================================================
