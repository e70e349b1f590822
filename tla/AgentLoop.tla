------------------------------ MODULE AgentLoop ------------------------------
(***************************************************************************)
(* The task loop of an agent, internal/agent/user_session.go runLoop: one    *)
(* model round-trip after the other, the tool calls of each reply in         *)
(* between, and the recoveries that keep a turn from ending on nothing (a    *)
(* preamble, a truncated reply, a truncated tool call, the step cap).        *)
(*                                                                           *)
(* The loop is one goroutine.  Concurrently the user interrupts the agent    *)
(* and injects notes, background sub-agents deliver results, and read-only   *)
(* calls of one reply run in parallel.  A reply is abstracted to the kinds   *)
(* of its tool calls, its finish reason and what its text is; the transcript *)
(* to the tool calls that have no result yet and to the notes and background *)
(* results spliced into it.  Every native tool call has an id of its own,    *)
(* its position in the reply.  Compaction, plan mode and panics are left out.*)
(***************************************************************************)
EXTENDS Integers, Sequences, FiniteSets

CONSTANTS
    AgentKinds,     \* "root" (KindRoot), "sub" (a sub-agent, which has a token budget)
    Responses,      \* the replies of the model
    MaxSteps,       \* s.MaxSteps(); 0 is unlimited
    MaxNudges,      \* maxContinuationNudges
    MaxRetries,     \* maxTruncationRetries
    MaxRaises,      \* raises of the output budget below the provider ceiling
    Notes,          \* user notes; bound: each is injected once
    Results,        \* background results; bound: each arrives once
    NoNote,         \* the empty pendingNote
    RateLimited,    \* a rate limiter is installed
    InjectNotes,    \* InjectQueuedInput
    MaxTurns        \* bound: turns of the agent

(* Kinds of native calls: a read-only tool, another tool, spawn_subagent,    *)
(* structured_output{final} with and without a response, a call cut off in   *)
(* its arguments, and a structured_output cut off between "final": true and  *)
(* its response.                                                             *)
CallKind == {"read", "write", "spawn", "final", "silent", "cut", "cutfinal"}
Finish == {"stop", "length", "max_tokens"}

(* The content: none, none but retained reasoning, an answer, a preamble, a  *)
(* JSON tool call, a JSON final answer with and without a response.          *)
Text == {"", "thought", "answer", "preamble", "jsoncall", "jsonfinal", "jsonempty"}
ResponseType == [calls : Seq(CallKind), finish : Finish, text : Text]
NoResponse == [calls |-> <<>>, finish |-> "stop", text |-> ""]

ASSUME ResponseAssumption == \A r \in Responses : r \in ResponseType

ASSUME LoopAssumption ==
    /\ AgentKinds \subseteq {"root", "sub"}
    /\ {MaxSteps, MaxNudges, MaxRetries, MaxRaises, MaxTurns} \subseteq Nat
    /\ NoNote \notin Notes
    /\ Notes \cap Results = {}
    /\ RateLimited \in BOOLEAN /\ InjectNotes \in BOOLEAN

VARIABLES
    kind,           \* agent.Kind
    pc,             \* where the loop is; "idle" between turns
    turns, step,    \* turns begun, the loop's step
    cancelled,      \* ctx.Err() # nil
    over,           \* agent.BudgetExceeded()
    resp,           \* the last reply
    nudges, retries, raises, \* continuationNudges, truncationRetries, raisedBudget
    retained,       \* lastAssistant # ""
    ran,            \* this reply's calls that have run, in the order they ended
    unanswered,     \* the last reply's calls without a result in the transcript
    slot,           \* pendingNote
    queue,          \* backgroundResults
    outbox,         \* notes and results of the next request
    \* history
    outcome,        \* how the last turn ended
    shown,          \* what its SessionEventFinal carried
    broken,         \* a request had calls not answered one-to-one
    orphaned,       \* a cancelled turn left calls unanswered
    said,           \* the turn had text outside of re-issued replies
    stretch,        \* round-trips since the last tool round
    held,           \* the note in the slot was there when the turn began
    arrived, delivered, dropped, replaced  \* what became of notes and results

transcript == <<unanswered, broken, orphaned>>
budgets == <<nudges, retries, raises, stretch>>
mail == <<slot, queue, outbox, held, arrived, delivered, dropped, replaced>>
ending == <<outcome, shown>>
vars == <<kind, pc, turns, step, cancelled, over, resp, retained, ran, said,
          transcript, budgets, mail, ending>>

PC == {"idle", "pacing", "model", "top", "tools"}
Outcome == {"none", "final", "capped", "budget", "truncated", "cancelled", "error"}

Init ==
    /\ kind \in AgentKinds
    /\ pc = "idle"
    /\ turns = 0 /\ step = 0
    /\ cancelled = FALSE
    /\ over = FALSE
    /\ resp = NoResponse
    /\ nudges = 0 /\ retries = 0 /\ raises = 0 /\ stretch = 0
    /\ retained = FALSE /\ said = FALSE
    /\ ran = <<>>
    /\ unanswered = {} /\ broken = FALSE /\ orphaned = FALSE
    /\ slot = NoNote /\ queue = <<>> /\ outbox = <<>> /\ held = FALSE
    /\ arrived = <<>> /\ delivered = <<>> /\ dropped = {} /\ replaced = {}
    /\ outcome = "none" /\ shown = "none"

-----------------------------------------------------------------------------
(* Reading a reply.                                                          *)

SetOf(seq) == {seq[i] : i \in DOMAIN seq}

\* collectToolCalls salvages a terminal structured_output whose response is missing
Salvaged(r, i) == r.finish = "length" /\ r.calls[i] \in {"silent", "cutfinal"}

ExplicitFinal(r) ==
    IF r.calls # <<>> THEN Len(r.calls) = 1 /\ Salvaged(r, 1)
                      ELSE r.text \in {"jsonfinal", "jsonempty"}

\* a native call as it is run; a call cut off is run without its arguments
AsRun(r, i) ==
    IF Salvaged(r, i) THEN "silent"
    ELSE IF r.calls[i] \in {"cut", "cutfinal"} THEN "write" ELSE r.calls[i]

Collected(r) ==
    IF ExplicitFinal(r) THEN <<>>
    ELSE IF r.calls # <<>> THEN [i \in DOMAIN r.calls |-> AsRun(r, i)]
    ELSE IF r.text = "jsoncall" THEN <<"write">> ELSE <<>>

Terminal(k) == k \in {"final", "silent"}
ContainsTerminalFinal(calls) == \E i \in DOMAIN calls : Terminal(calls[i])
HasTruncatedCall(r) == \E i \in DOMAIN r.calls : r.calls[i] \in {"cut", "cutfinal"}

\* faulty variant: a finish reason no adapter has normalized is overlooked
LengthOnly(r) == r.finish = "length"

IsTruncated(r) == r.finish \in {"length", "max_tokens"}

\* resp.Content once collectToolCalls has folded a JSON final into it
HasText(r) == r.text \notin {"", "thought", "jsonempty"}
Recoverable(r) == HasText(r) \/ r.text = "thought"

\* faulty variant: the first call decides for the batch
FirstIsReadOnly(calls) == Len(calls) >= 2 /\ calls[1] \in {"read", "spawn"}

\* allSpawnSubAgent or allReadOnly: the batch runs concurrently
Concurrent(calls) ==
    /\ Len(calls) >= 2
    /\ \E k \in {"read", "spawn"} : \A i \in DOMAIN calls : calls[i] = k

-----------------------------------------------------------------------------
(* Beside the loop.                                                          *)

\* InterruptAgent, StopAgent, Stop: the published cancel function
Interrupt ==
    /\ pc # "idle" /\ ~cancelled
    /\ cancelled' = TRUE
    /\ UNCHANGED <<kind, pc, turns, step, over, resp, retained, ran, said,
                   transcript, budgets, mail, ending>>

Injected == {slot} \cup SetOf(delivered) \cup SetOf(outbox) \cup dropped \cup replaced

\* InjectUserNote: the latest note wins
InjectUserNote(n) ==
    /\ n \notin Injected
    /\ slot' = n
    /\ held' = FALSE
    /\ replaced' = IF slot = NoNote THEN replaced ELSE replaced \cup {slot}
    /\ UNCHANGED <<kind, pc, turns, step, cancelled, over, resp, retained, ran,
                   said, transcript, budgets, queue, outbox, arrived, delivered,
                   dropped, ending>>

EnqueueBackgroundResult(b) ==
    /\ b \notin SetOf(arrived)
    /\ queue' = Append(queue, b)
    /\ arrived' = Append(arrived, b)
    /\ UNCHANGED <<kind, pc, turns, step, cancelled, over, resp, retained, ran,
                   said, transcript, budgets, slot, outbox, held, delivered,
                   dropped, replaced, ending>>

\* faulty variant: the queue is read and not cleared
QueueKept == queue

\* takeBackgroundResults, by the root agent only
QueueTaken == IF kind = "root" THEN <<>> ELSE queue
ResultsTaken == IF kind = "root" THEN queue ELSE <<>>

-----------------------------------------------------------------------------
(* Round-trips.                                                              *)

\* runLoop up to its first round-trip; a sub-agent has another turn only after
\* an answer that asks for clarification
StartTurn ==
    /\ pc = "idle"
    /\ turns < MaxTurns
    /\ kind = "root" \/ outcome \in {"none", "final"}
    /\ pc' = "pacing"
    /\ turns' = turns + 1
    /\ step' = 0
    /\ cancelled' = FALSE
    /\ nudges' = 0 /\ retries' = 0 /\ raises' = 0 /\ stretch' = 0
    /\ retained' = FALSE /\ said' = FALSE
    /\ ran' = <<>>
    /\ outbox' = ResultsTaken
    /\ queue' = QueueTaken
    /\ held' = (slot # NoNote)
    /\ outcome' = "none" /\ shown' = "none"
    /\ UNCHANGED <<kind, over, resp, transcript, slot, arrived, delivered,
                   dropped, replaced>>

EndTurn(how, text) ==
    /\ pc' = "idle"
    /\ outcome' = how
    /\ shown' = text

\* waitRateLimit gave up: the messages of the request were never appended
WaitCancelled ==
    /\ pc = "pacing"
    /\ RateLimited /\ cancelled
    /\ EndTurn("error", "none")
    /\ dropped' = dropped \cup SetOf(outbox)
    /\ outbox' = <<>>
    /\ UNCHANGED <<kind, turns, step, cancelled, over, resp, retained, ran, said,
                   transcript, budgets, slot, queue, held, arrived, delivered,
                   replaced>>

\* sendCtx appends the new messages and sends the transcript; calls that an
\* earlier reply left open can never be answered any more
Request ==
    /\ pc = "pacing"
    /\ pc' = "model"
    /\ delivered' = delivered \o outbox
    /\ outbox' = <<>>
    /\ broken' = (broken \/ unanswered # {})
    /\ unanswered' = {}
    /\ UNCHANGED <<kind, turns, step, cancelled, over, resp, retained, ran, said,
                   orphaned, budgets, slot, queue, held, arrived, dropped,
                   replaced, ending>>

\* the reply is appended with its calls; its tokens may use up the budget
Respond(r) ==
    /\ pc = "model"
    /\ pc' = "top"
    /\ resp' = r
    /\ unanswered' = DOMAIN r.calls
    /\ over' \in IF kind = "sub" THEN {over, TRUE} ELSE {FALSE}
    /\ stretch' = stretch + 1
    /\ UNCHANGED <<kind, turns, step, cancelled, retained, ran, said, broken,
                   orphaned, nudges, retries, raises, mail, ending>>

ModelError ==
    /\ pc = "model"
    /\ EndTurn("error", "none")
    /\ UNCHANGED <<kind, turns, step, cancelled, over, resp, retained, ran, said,
                   transcript, budgets, mail>>

\* advance; bound: the step is not counted past the cap
Advance ==
    /\ pc' = "pacing"
    /\ step' = IF step > MaxSteps \/ MaxSteps = 0 THEN step ELSE step + 1
    /\ ran' = <<>>

\* AppendToolResults: the results of executed calls and synthetic ones
AppendToolResults(executed, synthetic) ==
    /\ unanswered' = unanswered \ (executed \cup synthetic)
    /\ broken' = \/ broken
                 \/ executed \cap synthetic # {}
                 \/ ~(executed \cup synthetic \subseteq unanswered)

\* faulty variant: the executed siblings get the synthetic result as well
EveryCall(executed) == DOMAIN resp.calls

\* balanceTranscriptToolCalls: the calls that still need a result
Unexecuted(executed) == DOMAIN resp.calls \ executed

\* makeToolResultMessage: only a native call is answered by its id
Native(ids) == ids \cap DOMAIN resp.calls

-----------------------------------------------------------------------------
(* The top of the loop, its checks in their order.                           *)

calls == Collected(resp)
explicit == ExplicitFinal(resp)

\* faulty variant: only a native tool round runs into the cap
CapOnNativeCalls == MaxSteps > 0 /\ step >= MaxSteps /\ resp.calls # <<>>

CapReached == MaxSteps > 0 /\ step >= MaxSteps

Proceeds == pc = "top" /\ ~CapReached /\ ~cancelled /\ ~over

\* the text of SessionEventFinal: the reply's, else the retained one
FinalText(has) == IF has \/ retained THEN "text" ELSE "empty"
Says == said' = (said \/ HasText(resp))

\* ctx.Err() is set: the turn ends with what the transcript has
Bail ==
    /\ pc = "top" /\ ~CapReached /\ cancelled
    /\ EndTurn("cancelled", "none")
    /\ orphaned' = (orphaned \/ unanswered # {})
    /\ UNCHANGED <<kind, turns, step, cancelled, over, resp, retained, ran, said,
                   unanswered, broken, budgets, mail>>

\* stopForBudget
StopForBudget ==
    /\ pc = "top" /\ ~CapReached /\ ~cancelled /\ over
    /\ EndTurn("budget", "notice")
    /\ UNCHANGED <<kind, turns, step, cancelled, over, resp, retained, ran, said,
                   transcript, budgets, mail>>

\* a final answer at the cap is folded and balanced
CapFinal ==
    /\ pc = "top" /\ CapReached
    /\ explicit \/ ContainsTerminalFinal(calls)
    /\ LET first == CHOOSE i \in DOMAIN calls :
               Terminal(calls[i]) /\ \A j \in 1 .. (i - 1) : ~Terminal(calls[j])
       IN EndTurn("final", FinalText(HasText(resp) \/
                   (calls # <<>> /\ calls[first] = "final")))
    /\ AppendToolResults({}, Unexecuted({}))
    /\ Says
    /\ UNCHANGED <<kind, turns, step, cancelled, over, resp, retained, ran,
                   orphaned, budgets, mail>>

\* faulty variant: the calls the cap interrupted are forgotten
CapForgets == {}

\* stopForStepLimit answers the calls it does not run
CapAnswers == Unexecuted({})

CapStop ==
    /\ pc = "top" /\ CapReached
    /\ ~explicit /\ ~ContainsTerminalFinal(calls)
    /\ calls # <<>>
    /\ EndTurn("capped", "notice")
    /\ AppendToolResults({}, CapAnswers)
    /\ Says
    /\ UNCHANGED <<kind, turns, step, cancelled, over, resp, retained, ran,
                   orphaned, budgets, mail>>

CapPlain ==
    /\ pc = "top" /\ CapReached
    /\ ~explicit /\ calls = <<>>
    /\ EndTurn("capped", FinalText(HasText(resp)))
    /\ Says
    /\ UNCHANGED <<kind, turns, step, cancelled, over, resp, retained, ran,
                   transcript, budgets, mail>>

MustReissue ==
    /\ ~explicit
    /\ resp.finish = "length" /\ HasTruncatedCall(resp)
    /\ ~ContainsTerminalFinal(calls)
    /\ nudges < MaxNudges

\* every call of the reply is answered with the note to issue it again
Reissue ==
    /\ Proceeds /\ MustReissue
    /\ nudges' = nudges + 1
    /\ AppendToolResults({}, DOMAIN resp.calls)
    /\ Advance /\ outbox' = <<>>
    /\ UNCHANGED <<kind, turns, cancelled, over, resp, retained, said, orphaned,
                   retries, raises, stretch, slot, queue, held, arrived,
                   delivered, dropped, replaced, ending>>

\* a tool-free reply that the output budget cut off
CutShort == Proceeds /\ calls = <<>> /\ ~explicit /\ IsTruncated(resp)

\* faulty variant: a retry earns a fresh nudge
NudgesRenewed == 0

\* faulty variant: a retry gives a nudge back
NudgesRefunded == nudges - 1

NudgesAfterRetry == nudges

RetryWith(raise) ==
    /\ retries' = retries + 1
    /\ raises' = raises + raise
    /\ nudges' = NudgesAfterRetry
    /\ retained' = (retained \/ HasText(resp))
    /\ Says
    /\ Advance /\ outbox' = <<>>
    /\ UNCHANGED <<kind, turns, cancelled, over, resp, transcript, stretch, slot,
                   queue, held, arrived, delivered, dropped, replaced, ending>>

\* continue from where the output stopped
RetryVisible ==
    /\ CutShort
    /\ retries < MaxRetries /\ Recoverable(resp)
    /\ RetryWith(0)

\* nothing visible: raiseTruncationBudget
RetryRaised ==
    /\ CutShort
    /\ retries < MaxRetries /\ ~Recoverable(resp)
    /\ raises < MaxRaises
    /\ RetryWith(1)

\* stopForTruncation, folded onto the transcript's last message too
StopForTruncation ==
    /\ CutShort
    /\ retries >= MaxRetries \/ (~Recoverable(resp) /\ raises >= MaxRaises)
    /\ EndTurn("truncated", "notice")
    /\ Says
    /\ UNCHANGED <<kind, turns, step, cancelled, over, resp, retained, ran,
                   transcript, budgets, mail>>

\* shouldNudgeContinuation
ShouldNudge == ~explicit /\ resp.text = "preamble" /\ nudges < MaxNudges

\* faulty variant: the preamble's text is not kept
NotRetained == retained

RetainedByNudge == retained \/ HasText(resp)

Nudge ==
    /\ Proceeds /\ calls = <<>> /\ ~IsTruncated(resp) /\ ShouldNudge
    /\ nudges' = nudges + 1
    /\ retained' = RetainedByNudge
    /\ Says
    /\ Advance /\ outbox' = <<>>
    /\ UNCHANGED <<kind, turns, cancelled, over, resp, transcript, retries,
                   raises, stretch, slot, queue, held, arrived, delivered,
                   dropped, replaced, ending>>

\* the final answer; the calls of a salvaged one are balanced
Answer ==
    /\ Proceeds /\ calls = <<>>
    /\ explicit \/ (~IsTruncated(resp) /\ ~ShouldNudge)
    /\ EndTurn("final", FinalText(HasText(resp)))
    /\ AppendToolResults({}, Unexecuted({}))
    /\ Says
    /\ UNCHANGED <<kind, turns, step, cancelled, over, resp, retained, ran,
                   orphaned, budgets, mail>>

BeginTools ==
    /\ Proceeds /\ calls # <<>> /\ ~MustReissue
    /\ pc' = "tools"
    /\ nudges' = 0 /\ retries' = 0 /\ raises' = 0 /\ stretch' = 0
    /\ retained' = (retained \/ HasText(resp))
    /\ Says
    /\ UNCHANGED <<kind, turns, step, cancelled, over, resp, ran, transcript,
                   mail, ending>>

-----------------------------------------------------------------------------
(* The tool calls of a reply.                                                *)

\* the calls a runner may end next: any of a concurrent batch, else the next one
MayRun == IF Concurrent(calls) THEN DOMAIN calls \ SetOf(ran)
          ELSE {Len(ran) + 1} \cap DOMAIN calls

\* runAndEmitResult: a result, an error or a recovered panic
RunCall(i) ==
    /\ pc = "tools"
    /\ i \in MayRun /\ ~Terminal(calls[i])
    /\ ran' = Append(ran, i)
    /\ UNCHANGED <<kind, pc, turns, step, cancelled, over, resp, retained, said,
                   transcript, budgets, mail, ending>>

\* runToolCallsSerial folds structured_output{final} and stops
FoldFinal ==
    /\ pc = "tools"
    /\ \E i \in MayRun :
         /\ Terminal(calls[i])
         /\ EndTurn("final", FinalText(HasText(resp) \/ calls[i] = "final"))
    /\ AppendToolResults(Native(SetOf(ran)), Unexecuted(SetOf(ran)))
    /\ UNCHANGED <<kind, turns, step, cancelled, over, resp, retained, ran, said,
                   orphaned, budgets, mail>>

\* the note is taken by the root agent, when injection is enabled
Taken == IF kind = "root" /\ InjectNotes /\ slot # NoNote THEN <<slot>> ELSE <<>>

\* the turn boundary: results, then the queued note, then background results
ToolRoundDone ==
    /\ pc = "tools"
    /\ DOMAIN calls = SetOf(ran)
    /\ AppendToolResults(Native(SetOf(ran)), {})
    /\ outbox' = Taken \o ResultsTaken
    /\ slot' = IF Taken = <<>> THEN slot ELSE NoNote
    /\ held' = (held /\ Taken = <<>>)
    /\ queue' = QueueTaken
    /\ Advance
    /\ UNCHANGED <<kind, turns, cancelled, over, resp, retained, said, orphaned,
                   budgets, arrived, delivered, dropped, replaced, ending>>

-----------------------------------------------------------------------------
RoundTrip == WaitCancelled \/ Request \/ ModelError \/ \E r \in Responses : Respond(r)

Decision ==
    \/ Bail \/ StopForBudget
    \/ CapFinal \/ CapStop \/ CapPlain
    \/ Reissue \/ RetryVisible \/ RetryRaised \/ StopForTruncation
    \/ Nudge \/ Answer \/ BeginTools

ToolRound == FoldFinal \/ ToolRoundDone \/ \E i \in DOMAIN calls : RunCall(i)

Next ==
    \/ Interrupt \/ StartTurn
    \/ \E n \in Notes : InjectUserNote(n)
    \/ \E b \in Results : EnqueueBackgroundResult(b)
    \/ RoundTrip \/ Decision \/ ToolRound

Spec == Init /\ [][Next]_vars

(* The loop's goroutine runs; a permit comes, a request is answered or fails  *)
(* (the connector has a time-out), a tool returns.  Nothing is asked of the  *)
(* user or of the model's replies.                                           *)
FairSpec == Spec /\ WF_vars(RoundTrip \/ Decision \/ ToolRound)

-----------------------------------------------------------------------------
(* Properties.                                                               *)

\* Every variable has its type.
TypeOK ==
    /\ kind \in AgentKinds
    /\ pc \in PC
    /\ {turns, step, nudges, retries, raises, stretch} \subseteq Nat
    /\ {cancelled, over, retained, said, broken, orphaned, held} \subseteq BOOLEAN
    /\ resp \in ResponseType
    /\ ran \in Seq(Nat)
    /\ unanswered \subseteq Nat
    /\ slot \in Notes \cup {NoNote}
    /\ {queue, arrived} \subseteq Seq(Results)
    /\ {outbox, delivered} \subseteq Seq(Notes \cup Results)
    /\ dropped \subseteq Notes \cup Results
    /\ replaced \subseteq Notes
    /\ outcome \in Outcome
    /\ shown \in {"none", "text", "notice", "empty"}

\* sendCtx: every request answers each tool call of every earlier reply exactly
\* once, as OpenAI and Anthropic demand, unless the user's interruption hit the
\* moment between a reply and the check of ctx.Err().
AnsweredOneToOne == broken => orphaned

\* finalizeTranscriptToolCalls, balanceTranscriptToolCalls: a turn that ended in
\* an answer, at the cap or on a truncated reply leaves no call open for the
\* next turn of the session.
EndsBalanced ==
    pc = "idle" /\ outcome \in {"final", "capped", "truncated"} => unanswered = {}

\* runToolCallsConcurrent: a call that changes something ends after every call
\* before it and before every call after it.
EffectsInOrder ==
    \A p, q \in DOMAIN ran :
        p < q /\ ran[p] > ran[q] =>
            calls[ran[p]] # "write" /\ calls[ran[q]] # "write"

\* takePendingNote, takeBackgroundResults: notes and background results reach
\* the model at most once, results in the order they arrived; what is missing
\* was dropped by an interrupted wait for the rate limiter, or replaced by a
\* later note.
SplicedOnce ==
    LET sent == delivered \o outbox
        IsResult(x) == x \in Results
        Kept(x) == x \notin dropped
    IN /\ Cardinality(SetOf(sent)) = Len(sent)
       /\ SelectSeq(sent, IsResult) \o queue = SelectSeq(arrived, Kept)
       /\ slot \notin SetOf(sent) \cup dropped \cup replaced

\* A stretch of round-trips without a tool round is bounded by both budgets
\* together, whatever kinds of recovery alternate in it.
StretchBounded == stretch <= 1 + MaxNudges + MaxRetries

\* lastAssistant: a turn never ends on an empty final event when it had text
\* (the text of a reply that was issued again is not kept).
AnswerSurfaced == shown = "empty" => ~said

\* A tool-free reply that max_tokens cut off is never taken for the answer below
\* the cap.
TruncatedNeverFinal ==
    pc = "idle" /\ outcome = "final" =>
        ~(resp.calls = <<>> /\ ~explicit /\ resp.finish # "stop")

\* With a step cap every turn ends, whatever the model replies.
TurnEnds == MaxSteps > 0 => (pc # "idle" ~> pc = "idle")

-----------------------------------------------------------------------------
(* What the comments say and the code does not do.                           *)

\* runLoop: "a model that keeps truncating cannot loop".
TruncatingModelStops ==
    [](pc = "top" => HasTruncatedCall(resp)) => (pc # "idle" ~> pc = "idle")

\* InjectUserNote: "an idle session simply holds the note until its next turn
\* starts, where the loop drains it" (no turn answers with a note still waiting
\* that was there when it began).
IdleNoteDrained == pc = "idle" /\ outcome = "final" /\ kind = "root" => ~held
=============================================================================
