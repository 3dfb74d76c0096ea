----------------------------- MODULE ResultCache -----------------------------
(***************************************************************************)
(* createResultCache (capacity.js) over createQueuedBudget: shared loads   *)
(* of query results, one per key, admitted by the budget and bounded by a  *)
(* deadline.  A job is the promise chain of one get that started a load;   *)
(* a step is what runs between two microtasks.  Values are their sizes.    *)
(***************************************************************************)
EXTENDS Integers, Sequences, FiniteSets, Functions

CONSTANTS
    Keys, NoKey, Jobs,
    MaxPending, MaxWaiting,     \* the budget's slots and places in line
    MaxEntries, MaxBytes, MaxEntryBytes,
    Sizes                       \* bytes of the results

ASSUME LimitsAssumption ==
    /\ MaxPending \in Nat \ {0} /\ MaxWaiting \in Nat \ {0}
    /\ MaxEntries \in Nat /\ MaxEntries >= MaxPending + MaxWaiting
    /\ MaxBytes \in Nat /\ MaxEntryBytes \in Nat /\ MaxEntryBytes <= MaxBytes
    /\ Sizes \subseteq Nat

VARIABLES
    entries,    \* the Map: its keys are the function's domain
    order,      \* its insertion order: <<k, l>> when k came before l
    bytes,      \* the running total
    job,        \* job -> the load it runs
    active, waiting, slot       \* the budget

cacheVars == <<entries, order, bytes>>
budgetVars == <<active, waiting, slot>>
vars == <<entries, order, bytes, job, active, waiting, slot>>

Budget == INSTANCE QueuedBudget WITH Callers <- Jobs, Maximum <- MaxPending

\* live: expires > now().  A pending entry never expires.
Entry == [job : Jobs, pending : BOOLEAN, live : BOOLEAN, bytes : Nat]
JobState == [pc : {"idle", "reserving", "loading", "failed", "settled"},
             key : Keys \cup {NoKey}, aborted : BOOLEAN]

NoJob == [pc |-> "idle", key |-> NoKey, aborted |-> FALSE]

TypeOK ==
    /\ DOMAIN entries \subseteq Keys /\ entries \in [DOMAIN entries -> Entry]
    /\ order \subseteq (DOMAIN entries) \X (DOMAIN entries)
    /\ \A k, l \in DOMAIN entries : <<k, l>> \in order <=> k # l /\ <<l, k>> \notin order
    /\ \A k, l, m \in DOMAIN entries : {<<k, l>>, <<l, m>>} \subseteq order => <<k, m>> \in order
    /\ bytes \in Nat
    /\ job \in [Jobs -> JobState]
    /\ Budget!TypeOK

Init ==
    /\ entries = <<>>
    /\ order = {}
    /\ bytes = 0
    /\ job = [j \in Jobs |-> NoJob]
    /\ Budget!Init

Total(es, ks) == SumFunctionOnSet([k \in DOMAIN es |-> es[k].bytes], ks)

\* Faulty: stale entries stay.
NothingStale == {}

Stale == {k \in DOMAIN entries : ~entries[k].pending /\ ~entries[k].live}
Settled == {k \in DOMAIN entries : ~entries[k].pending}

\* The key of ks that was inserted first.
Oldest(ks) == {k \in ks : \A l \in ks \ {k} : <<k, l>> \in order}

\* remove, of every key in ks.
Remove(ks) ==
    LET kept == DOMAIN entries \ ks
    IN  /\ entries' = Restrict(entries, kept)
        /\ order' = order \cap (kept \X kept)
        /\ bytes' = bytes - Total(entries, ks)

-----------------------------------------------------------------------------
(* get *)

BudgetFull == active >= MaxPending /\ Len(waiting) >= MaxWaiting

NewEntry(j) == [job |-> j, pending |-> TRUE, live |-> TRUE, bytes |-> 0]

\* The entries of gone are removed, and a pending one for k is added last.
Insert(j, k, gone) ==
    LET kept == DOMAIN entries \ gone
    IN  /\ entries' = [l \in kept \cup {k} |-> IF l = k THEN NewEntry(j) ELSE entries[l]]
        /\ order' = (order \cap (kept \X kept)) \cup (kept \X {k})
        /\ bytes' = bytes - Total(entries, gone)

\* A get that neither shares a pending load nor finds a live result.  Stale entries go,
\* and in a full map the oldest settled one; pending ones are never evicted.
Get(j, k) ==
    LET full == Cardinality(DOMAIN entries \ Stale) >= MaxEntries
        refused == BudgetFull \/ (full /\ Settled \subseteq Stale)
    IN  /\ job[j].pc = "idle" /\ slot[j] = "idle"
        /\ k \in DOMAIN entries => ~entries[k].pending /\ ~entries[k].live
        /\ \/ refused /\ Remove(Stale) /\ UNCHANGED <<job, budgetVars>>
           \/ /\ ~refused
              /\ Budget!Acquire(j)
              /\ \/ ~full /\ Insert(j, k, Stale)
                 \/ full /\ \E o \in Oldest(Settled \ Stale) : Insert(j, k, Stale \cup {o})
              /\ job' = [job EXCEPT ![j] = [pc |-> "reserving", key |-> k, aborted |-> FALSE]]

-----------------------------------------------------------------------------
(* The promise chain of a load *)

MoveTo(j, pc) == job' = [job EXCEPT ![j].pc = pc]

\* The slot arrives; deadline.check; the loader is called.
Start(j) ==
    /\ job[j].pc = "reserving" /\ slot[j] = "granted"
    /\ MoveTo(j, IF job[j].aborted THEN "failed" ELSE "loading")
    /\ UNCHANGED <<cacheVars, budgetVars>>

\* Faulty: a job past its deadline keeps its place in line.
DeadlineInLine(j) ==
    /\ job[j].pc \in {"reserving", "loading"} /\ ~job[j].aborted
    /\ job' = [job EXCEPT ![j].pc = "failed", ![j].aborted = TRUE]
    /\ slot' = IF slot[j] = "waiting" THEN [slot EXCEPT ![j] = "idle"] ELSE slot
    /\ UNCHANGED <<cacheVars, active, waiting>>

\* The shared deadline fires: a job in line leaves it, a loader is cancelled.
Deadline(j) ==
    /\ job[j].pc \in {"reserving", "loading"} /\ ~job[j].aborted
    /\ IF slot[j] = "waiting"
       THEN /\ Budget!Cancel(j)
            /\ job' = [job EXCEPT ![j].pc = "failed", ![j].aborted = TRUE]
       ELSE /\ job' = [job EXCEPT ![j].aborted = TRUE]
            /\ UNCHANGED budgetVars
    /\ UNCHANGED cacheVars

\* The wait timer of the budget fires.
WaitTimeout(j) ==
    /\ job[j].pc = "reserving"
    /\ Budget!Cancel(j)
    /\ MoveTo(j, "failed")
    /\ UNCHANGED cacheVars

\* The loader rejects, or a check after it finds the deadline passed.
LoadFails(j) ==
    /\ job[j].pc = "loading"
    /\ MoveTo(j, "failed")
    /\ UNCHANGED <<cacheVars, budgetVars>>

\* Faulty: the result is kept whatever room there is.
RoomAtAnyCost(gone, size) == TRUE

Room(gone, size) == bytes - Total(entries, gone) + size <= MaxBytes

\* The settled entries that go, oldest first, until size fits or none is left: one more
\* goes as long as those before it have not made room.
MakesRoom(gone, size) ==
    /\ \A k \in gone, l \in Settled \ gone : <<k, l>> \in order
    /\ \A k \in gone : ~Room({l \in gone : <<l, k>> \in order}, size)
    /\ Room(gone, size) \/ gone = Settled

\* The entry of k has its value; those of gone are removed.
Settle(k, size, gone) ==
    LET kept == DOMAIN entries \ gone
    IN  /\ entries' = [l \in kept |-> IF l = k
                                      THEN [entries[k] EXCEPT !.pending = FALSE, !.bytes = size]
                                      ELSE entries[l]]
        /\ order' = order \cap (kept \X kept)
        /\ bytes' = bytes - Total(entries, gone) + size

\* The loader returned a value: it is kept, or only delivered when too large.
\* A last check after it is kept may still find the deadline passed.
LoadReturns(j, size) ==
    /\ job[j].pc = "loading" /\ ~job[j].aborted
    /\ IF size > MaxEntryBytes
       THEN Remove({job[j].key} \cap DOMAIN entries) /\ MoveTo(j, "settled")
       ELSE /\ \E gone \in SUBSET Settled :
                   MakesRoom(gone, size) /\ Settle(job[j].key, size, gone)
            /\ \/ MoveTo(j, "settled")
               \/ job' = [job EXCEPT ![j].pc = "failed", ![j].aborted = TRUE]
    /\ UNCHANGED budgetVars

\* Faulty: whatever entry the key has by now is removed.
FailedEntryOfKey(j) == {job[j].key} \cap DOMAIN entries

\* The failed load's own entry, if it is still there.
FailedEntry(j) == {k \in DOMAIN entries : k = job[j].key /\ entries[k].job = j}

Catch(j) ==
    /\ job[j].pc = "failed"
    /\ Remove(FailedEntry(j))
    /\ MoveTo(j, "settled")
    /\ UNCHANGED budgetVars

\* Faulty: only a load that ended well gives its slot back.
FinallyUnlessAborted(j) ==
    /\ job[j].pc = "settled"
    /\ IF slot[j] = "granted" /\ ~job[j].aborted
       THEN Budget!Release(j) ELSE UNCHANGED budgetVars
    /\ job' = [job EXCEPT ![j] = NoJob]
    /\ UNCHANGED cacheVars

\* dispose, and release the slot if there is one.
Finally(j) ==
    /\ job[j].pc = "settled"
    /\ IF slot[j] = "granted" THEN Budget!Release(j) ELSE UNCHANGED budgetVars
    /\ job' = [job EXCEPT ![j] = NoJob]
    /\ UNCHANGED cacheVars

\* The chain is gone, and its release function with it.
Collected(j) ==
    /\ job[j].pc = "idle"
    /\ Budget!Drop(j)
    /\ UNCHANGED <<cacheVars, job>>

\* Time passes the ttl of a settled entry.
Expire ==
    /\ \E k \in Settled : entries[k].live /\ entries' = [entries EXCEPT ![k].live = FALSE]
    /\ UNCHANGED <<order, bytes, job, budgetVars>>

\* The periodic sweep.
Sweep == Remove(Stale) /\ UNCHANGED <<job, budgetVars>>

Step(j) == Start(j) \/ Deadline(j) \/ WaitTimeout(j) \/ LoadFails(j) \/ Catch(j)
           \/ Finally(j) \/ Collected(j) \/ (\E size \in Sizes : LoadReturns(j, size))

Next ==
    \/ \E j \in Jobs, k \in Keys : Get(j, k)
    \/ \E j \in Jobs : Step(j)
    \/ Expire
    \/ Sweep

Spec == Init /\ [][Next]_vars

\* Promise reactions run, timers fire, and a loader whose signal is aborted
\* rejects; a loader is not assumed to return.
FairSpec ==
    /\ Spec
    /\ \A j \in Jobs : /\ WF_vars(Start(j) \/ Catch(j) \/ Finally(j))
                       /\ WF_vars(Deadline(j))
                       /\ WF_vars(job[j].aborted /\ LoadFails(j))

-----------------------------------------------------------------------------
(* Properties *)

(***************************************************************************)
(* The running total is the sum of what the entries hold, and both the     *)
(* total and the map stay within their limits, after any order of loads,   *)
(* evictions, sweeps, oversized results and deadlines that pass once a     *)
(* value is kept (capacity.js 129-150, 172-192): a drift would empty the   *)
(* cache or let it grow without bound.                                     *)
(***************************************************************************)
BytesExact ==
    /\ bytes = Total(entries, DOMAIN entries) /\ bytes <= MaxBytes
    /\ Cardinality(DOMAIN entries) <= MaxEntries

(***************************************************************************)
(* Each load under way owns the one pending entry of its key, and each     *)
(* pending entry belongs to a chain that will settle it: no key is loaded  *)
(* twice at a time and none is stuck on a promise nobody settles.          *)
(***************************************************************************)
OneLoadPerKey ==
    /\ \A j \in Jobs : job[j].pc \in {"reserving", "loading"} =>
           LET k == job[j].key
           IN  k \in DOMAIN entries /\ entries[k].job = j /\ entries[k].pending
    /\ \A k \in DOMAIN entries : entries[k].pending =>
           LET owner == job[entries[k].job]
           IN  owner.pc \in {"reserving", "loading", "failed"} /\ owner.key = k

\* The cache's chains use the budget as QueuedBudget says, whatever fails.
BudgetContract == Budget!Spec

(***************************************************************************)
(* Every load ends and gives its slot back, also when its loader never     *)
(* returns: the deadline covers the wait in line and the load itself.      *)
(***************************************************************************)
LoadsEnd == \A j \in Jobs :
    job[j].pc # "idle" ~> job[j].pc = "idle" /\ slot[j] # "granted"

=============================================================================
