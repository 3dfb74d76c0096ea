------------------------------ MODULE ChatTurn ------------------------------
(***************************************************************************)
(* The chat: one browser tab (useChatStream.js) asks, the server's handler *)
(* (chat.js) calls the model and runs the SQL it asks for until it has an  *)
(* answer, and streams it back.  A question the user gave up on may still  *)
(* run on the server while the next one is asked.                          *)
(*                                                                         *)
(* A message is its role, the tool calls or results it carries, and what   *)
(* the page shows of it; texts are left out.  The model (Bedrock Converse) *)
(* and ClickHouse are external: they answer, fail, throttle or hang.       *)
(***************************************************************************)
EXTENDS Integers, Sequences, SequencesExt

CONSTANTS
    MaxMessages,    \* MAX_MESSAGES
    MaxHops,        \* MAX_HOPS
    MaxSqlCalls,    \* MAX_SQL_CALLS
    MaxRetries,     \* retries of a throttled call
    Budget,         \* chatBudget's slots
    MaxBlocks,      \* bound: tool calls in one model turn
    MaxAsks         \* bound: questions

ASSUME ChatAssumption ==
    {MaxMessages, MaxHops, MaxSqlCalls, MaxRetries, Budget, MaxBlocks, MaxAsks} \subseteq Nat \ {0}

VARIABLES
    msgs, busy,     \* the page: its messages, and whether a question is open
    asked,          \* questions so far; the last one is the page's current
    active,         \* chatBudget
    req             \* question -> its request

vars == <<msgs, busy, asked, active, req>>

Asks == 1..MaxAsks
Roles == {"user", "assistant"}
Idle == [phase |-> "none", conv |-> <<>>, hop |-> 0, sql |-> 0, tries |-> 0, blocks |-> 0,
         left |-> FALSE, abort |-> "no", text |-> "none", outcome |-> "open"]
Running == {"calling", "tools", "query", "finishing"}

TypeOK ==
    /\ msgs \in Seq([role : Roles, kind : {"said", "blank", "error"}, of : Asks])
    /\ busy \in BOOLEAN /\ asked \in 0..MaxAsks /\ active \in 0..Budget
    /\ \A r \in Asks :
        /\ req[r].phase \in Running \cup {"none", "arriving", "over"}
        /\ req[r].conv \in Seq([role : Roles, tools : 0..MaxBlocks])
        /\ req[r].hop \in 0..MaxHops /\ req[r].sql \in 0..MaxSqlCalls
        /\ req[r].tries \in 0..MaxRetries /\ req[r].blocks \in 0..MaxBlocks
        /\ req[r].left \in BOOLEAN /\ req[r].abort \in {"no", "closed", "deadline"}
        /\ req[r].text \in {"none", "sent", "shown"}
        /\ req[r].outcome \in {"open", "done", "error", "cut"}

Init ==
    /\ msgs = <<>> /\ busy = FALSE /\ asked = 0 /\ active = 0
    /\ req = [r \in Asks |-> Idle]

-----------------------------------------------------------------------------
(* The page.                                                               *)

\* The turns sent: blank and error bubbles dropped, adjacent turns of one role merged.
History(all) ==
    LET add(h, m) == IF m.kind # "said" THEN h
                     ELSE IF h # <<>> /\ Last(h).role = m.role THEN Append(Front(h), m)
                     ELSE Append(h, m)
    IN FoldLeft(add, <<>>, all)

\* The request of the last question, as the abort of its controller leaves it.
Abandoned == IF asked = 0 THEN req ELSE [req EXCEPT ![asked].left = TRUE]

\* slice(-MAX_MESSAGES).
LastMessages(s) == IF Len(s) > MaxMessages THEN SubSeq(s, Len(s) - MaxMessages + 1, Len(s)) ELSE s

\* ask: the last stream is aborted, and the history posted with the new question.
Ask ==
    LET q == asked + 1
        history == History(Append(msgs, [role |-> "user", kind |-> "said", of |-> q]))
    IN /\ ~busy /\ asked < MaxAsks
       /\ busy' = TRUE
       /\ asked' = q
       /\ msgs' = Append(history, [role |-> "assistant", kind |-> "blank", of |-> q])
       /\ req' = [Abandoned EXCEPT ![q].phase = "arriving",
                    ![q].conv = [i \in 1..Len(history) |-> [role |-> history[i].role, tools |-> 0]]]
       /\ UNCHANGED active

\* stop, and leaving the page: the stream is aborted, what was said stays.
Stop ==
    /\ busy
    /\ busy' = FALSE
    /\ req' = Abandoned
    /\ UNCHANGED <<msgs, asked, active>>

Show(kind, r) == [msgs EXCEPT ![Len(msgs)] = [role |-> "assistant", kind |-> kind, of |-> r]]

\* Faulty: the reader of a question given up on goes on showing its text.
ShowTextUnchecked(r) ==
    /\ req[r].text = "sent"
    /\ msgs' = Show("said", r)
    /\ req' = [req EXCEPT ![r].text = "shown"]
    /\ UNCHANGED <<busy, asked, active>>

\* onText: the aborted reader rejects, so only an open question's text is shown.
ShowText(r) ==
    /\ req[r].text = "sent" /\ ~req[r].left
    /\ msgs' = Show("said", r)
    /\ req' = [req EXCEPT ![r].text = "shown"]
    /\ UNCHANGED <<busy, asked, active>>

\* The stream ended, or an error event, a refusal or a lost connection ended it.
EndOfStream(r) ==
    /\ ~req[r].left /\ req[r].text # "sent" /\ req[r].outcome # "open"
    /\ msgs' = IF req[r].outcome = "error" THEN Show("error", r) ELSE msgs
    /\ busy' = FALSE
    /\ req' = [req EXCEPT ![r].left = TRUE]
    /\ UNCHANGED <<asked, active>>

LostConnection(r) ==
    /\ req[r].phase # "none" /\ ~req[r].left
    /\ msgs' = Show("error", r)
    /\ busy' = FALSE
    /\ req' = [req EXCEPT ![r].left = TRUE]
    /\ UNCHANGED <<asked, active>>

-----------------------------------------------------------------------------
(* The handler.                                                            *)

Over(r, outcome) ==
    req' = [req EXCEPT ![r] = [Idle EXCEPT !.phase = "over", !.outcome = outcome,
                                           !.left = req[r].left, !.text = req[r].text]]

\* finally: the response ends and the slot is released.
End(r, outcome) == active' = active - 1 /\ Over(r, outcome)

Refuse(r) == Over(r, "error") /\ UNCHANGED active

\* handleChat: 503 without a slot, 429 from the limiter, or the turn begins.
Admit(r) ==
    /\ req[r].phase = "arriving"
    /\ \/ active >= Budget /\ Refuse(r)
       \/ active < Budget /\ Refuse(r)
       \/ /\ active < Budget
          /\ active' = active + 1
          /\ req' = [req EXCEPT ![r].phase = "calling", ![r].conv = LastMessages(@)]
    /\ UNCHANGED <<msgs, busy, asked>>

\* onClose and the deadline abort the controller every wait below listens to.
ClientGone(r) ==
    /\ req[r].phase \in Running /\ req[r].left /\ req[r].abort = "no"
    /\ req' = [req EXCEPT ![r].abort = "closed"]
    /\ UNCHANGED <<msgs, busy, asked, active>>

\* Faulty: the deadline guards the model's calls and no query.
DeadlineOfCalls(r) ==
    /\ req[r].phase = "calling" /\ req[r].abort = "no"
    /\ req' = [req EXCEPT ![r].abort = "deadline"]
    /\ UNCHANGED <<msgs, busy, asked, active>>

Deadline(r) ==
    /\ req[r].phase \in Running /\ req[r].abort = "no"
    /\ req' = [req EXCEPT ![r].abort = "deadline"]
    /\ UNCHANGED <<msgs, busy, asked, active>>

\* The wait or the next check throws; only a time-out is reported.
Abort(r) ==
    /\ req[r].phase \in Running /\ req[r].abort # "no"
    /\ End(r, IF req[r].abort = "deadline" THEN "error" ELSE "cut")
    /\ UNCHANGED <<msgs, busy, asked>>

\* Bedrock Converse takes a conversation whose roles alternate, from a user to a user.
Accepted(conv) ==
    /\ conv # <<>> /\ conv[1].role = "user" /\ Last(conv).role = "user"
    /\ \A i \in 2..Len(conv) : conv[i].role # conv[i - 1].role

\* runTurn fails: the conversation is not taken, or the model fails on the way.
Fail(r) ==
    /\ req[r].phase = "calling" /\ req[r].abort = "no"
    /\ End(r, "error")
    /\ UNCHANGED <<msgs, busy, asked>>

\* sendConverseWithRetry: a throttled call has streamed nothing and is sent again.
Throttled(r) ==
    /\ req[r].phase = "calling" /\ req[r].abort = "no" /\ req[r].tries < MaxRetries
    /\ req' = [req EXCEPT ![r].tries = @ + 1]
    /\ UNCHANGED <<msgs, busy, asked, active>>

\* A part of the answer is streamed.
Stream(r) ==
    /\ req[r].phase = "calling" /\ req[r].abort = "no" /\ Accepted(req[r].conv)
    /\ req[r].text # "sent"
    /\ req' = [req EXCEPT ![r].text = "sent"]
    /\ UNCHANGED <<msgs, busy, asked, active>>

\* Faulty: the tools are offered once more after the last hop.
ReplyOneHopMore(r, k) ==
    /\ req[r].phase = "calling" /\ req[r].abort = "no" /\ Accepted(req[r].conv)
    /\ req' = [req EXCEPT ![r].conv = Append(@, [role |-> "assistant", tools |-> k]),
                          ![r].phase = IF k = 0 THEN "finishing" ELSE "tools",
                          ![r].blocks = 0, ![r].tries = 0]
    /\ UNCHANGED <<msgs, busy, asked, active>>

\* The model's turn ends: an answer, or k tool calls unless no tools were offered.
Reply(r, k) ==
    /\ req[r].phase = "calling" /\ req[r].abort = "no" /\ Accepted(req[r].conv)
    /\ req[r].hop = MaxHops => k = 0
    /\ req' = [req EXCEPT ![r].conv = Append(@, [role |-> "assistant", tools |-> k]),
                          ![r].phase = IF k = 0 THEN "finishing" ELSE "tools",
                          ![r].blocks = 0, ![r].tries = 0]
    /\ UNCHANGED <<msgs, busy, asked, active>>

\* A tool call cut off by max_tokens, or one past the quota, is answered unrun.
SkipTool(r) ==
    /\ req[r].phase = "tools" /\ req[r].abort = "no" /\ req[r].blocks < Last(req[r].conv).tools
    /\ req' = [req EXCEPT ![r].blocks = @ + 1]
    /\ UNCHANGED <<msgs, busy, asked, active>>

RunTool(r) ==
    /\ req[r].phase = "tools" /\ req[r].abort = "no" /\ req[r].blocks < Last(req[r].conv).tools
    /\ req[r].sql < MaxSqlCalls
    /\ req' = [req EXCEPT ![r].sql = @ + 1, ![r].phase = "query"]
    /\ UNCHANGED <<msgs, busy, asked, active>>

\* Rows or an error: either is the tool's result.
QueryResult(r) ==
    /\ req[r].phase = "query" /\ req[r].abort = "no"
    /\ req' = [req EXCEPT ![r].blocks = @ + 1, ![r].phase = "tools"]
    /\ UNCHANGED <<msgs, busy, asked, active>>

\* Faulty: past the quota the loop stops, with the rest of the calls unanswered.
HopDoneAtQuota(r) ==
    /\ req[r].phase = "tools" /\ req[r].abort = "no"
    /\ req[r].blocks = Last(req[r].conv).tools \/ (req[r].sql = MaxSqlCalls /\ req[r].blocks > 0)
    /\ req' = [req EXCEPT ![r].conv = Append(@, [role |-> "user", tools |-> req[r].blocks]),
                          ![r].hop = @ + 1, ![r].phase = "calling"]
    /\ UNCHANGED <<msgs, busy, asked, active>>

\* Every call has its result: the next hop, or past the last the call without tools.
HopDone(r) ==
    /\ req[r].phase = "tools" /\ req[r].abort = "no"
    /\ req[r].blocks = Last(req[r].conv).tools
    /\ req' = [req EXCEPT ![r].conv = Append(@, [role |-> "user", tools |-> req[r].blocks]),
                          ![r].hop = @ + 1, ![r].phase = "calling"]
    /\ UNCHANGED <<msgs, busy, asked, active>>

Done(r) ==
    /\ req[r].phase = "finishing" /\ req[r].abort = "no"
    /\ End(r, "done")
    /\ UNCHANGED <<msgs, busy, asked>>

Handler(r) ==
    \/ Admit(r) \/ ClientGone(r) \/ Deadline(r) \/ Abort(r)
    \/ Fail(r) \/ Throttled(r) \/ Stream(r) \/ \E k \in 0..MaxBlocks : Reply(r, k)
    \/ SkipTool(r) \/ RunTool(r) \/ QueryResult(r) \/ HopDone(r) \/ Done(r)

Next ==
    \/ Ask \/ Stop
    \/ \E r \in Asks : ShowText(r) \/ EndOfStream(r) \/ LostConnection(r) \/ Handler(r)

Spec == Init /\ [][Next]_vars

\* The request arrives, the deadline fires, an abort is noticed, and the page reads
\* its stream; neither the model nor ClickHouse is assumed ever to answer.
FairSpec ==
    /\ Spec
    /\ \A r \in Asks : /\ WF_vars(Admit(r)) /\ WF_vars(Deadline(r)) /\ WF_vars(Abort(r))
                       /\ WF_vars(ShowText(r)) /\ WF_vars(EndOfStream(r))

-----------------------------------------------------------------------------
(* Properties.                                                             *)

\* Whenever the model is called, its roles alternate, and each tool call it made
\* got exactly one result in the turn after it, run or not: a conversation that
\* breaks this is refused, and the turn would be lost.
ToolCallsAnswered ==
    \A r \in Asks : req[r].phase = "calling" =>
        LET conv == req[r].conv
        IN /\ Last(conv).role = "user"
           /\ \A i \in 2..Len(conv) :
                /\ conv[i].role # conv[i - 1].role
                /\ conv[i].role = "user" => conv[i].tools = conv[i - 1].tools

\* What the page shows as an answer was streamed for the question above it, though
\* the stream of a question given up on may still be open.
AnswersBelong ==
    \A i \in 1..Len(msgs) :
        (msgs[i].role = "assistant" /\ msgs[i].kind = "said") =>
            i > 1 /\ msgs[i - 1].role = "user" /\ msgs[i - 1].of = msgs[i].of

\* Every question ends on the page and every turn on the server, which gives its
\* slot back, even if the model or a query never answers.
TurnsEnd ==
    /\ busy ~> ~busy
    /\ \A r \in Asks : (req[r].phase = "arriving") ~> (req[r].phase = "over")
    /\ <>[](active = 0)

\* "Safe under any combination of filters" (useChatStream.js): no conversation the
\* page builds is one that Bedrock refuses, which would leave the chat dead until
\* the page is reloaded.
ConversationsAccepted ==
    \A r \in Asks : req[r].phase = "calling" => Accepted(req[r].conv)
=============================================================================
