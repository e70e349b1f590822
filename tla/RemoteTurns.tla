---------------------------- MODULE RemoteTurns ----------------------------
(***************************************************************************)
(* One session of a daemon and one terminal attached to it.                *)
(*                                                                         *)
(* The daemon accepts a message or an approved plan under the session's    *)
(* busy gate (server/api.go, server/messages.go, server/sessions.go), runs *)
(* the turn on a goroutine of its own (gogent/dispatch.go) and releases    *)
(* the gate when the goroutine ends.  What the turn emits goes through the *)
(* hub (server/hub.go) into the bounded buffer of each subscribed stream,  *)
(* and from there, in order, to the window of the terminal                 *)
(* (ui/tui/remote_handlers.go, ui/tui/session_window.go), which keeps its  *)
(* own idea of whether the session is busy, one queued message and the     *)
(* supervisor that nudges an idle session.                                 *)
(*                                                                         *)
(* The stream may be lost and opened again: nothing is replayed.  Texts,   *)
(* models and the transcript are left out; a message is a number.          *)
(***************************************************************************)
EXTENDS Integers, Sequences, FiniteSets

CONSTANTS
  MaxActs,    \* bound: messages, nudges, approvals, mode changes and spawns, all in all
  MaxOther,   \* bound: those by another client of the daemon
  MaxLosses,  \* bound: times the stream is lost, or a request while the stream is up
  MaxSpawns,  \* bound: background workers started
  Buffer,     \* capacity of a subscriber's channel (128 in the code)
  MaxNudges,  \* nudges the supervisor may make without a new user message
  Goal        \* whether a goal is set and the supervisor is enabled

ASSUME BoundsAssumption ==
  /\ {MaxActs, MaxOther, MaxLosses, MaxSpawns, MaxNudges} \subseteq Nat
  /\ Buffer \in Nat \ {0}
  /\ Goal \in BOOLEAN

VARIABLES
  \* the daemon
  gate,        \* the session is in the server's busy map
  turns,       \* the turn goroutines alive: records [kind, phase, plan]
  planMode, pendingPlan,
  workers,     \* background workers registered with the session
  offDue,      \* background-off events computed under the lock, not yet emitted
  \* the stream
  chan,        \* the buffer of the terminal's live subscription
  link,        \* "up", "down" (disconnected), "opened" (resubscribed, not yet told)
  stale,       \* events in the buffer of a lost stream the server still serves; -1: none
  posts,       \* how many requests of each kind are in each state
  \* the window
  busy, background, pending, planPending,
  nudges,      \* nudgeCount
  checking,    \* supervisorBusy
  \* bounds and history
  acts, others, losses, spawned,
  sinceUser,   \* nudges sent since the last user message or met goal
  missed       \* the end of a turn was lost on its way to the window

daemon == <<gate, turns, planMode, pendingPlan, workers, offDue>>
stream == <<chan, link, stale>>
window == <<busy, background, pending, planPending, nudges, checking>>
counts == <<acts, others, losses, spawned>>
history == <<sinceUser, missed>>
vars == <<daemon, stream, posts, window, counts, history>>

Terminal == {"final", "error", "plan"}
Events == Terminal \cup {"on", "off"}
Phases == {"dispatched", "loop", "cancelled", "answered", "done"}
States == {"sent", "refused", "failed"}
Kinds == {"user", "queued", "nudge", "approve", "other", "stop"}

TypeOK ==
  /\ gate \in BOOLEAN
  /\ turns \subseteq [kind : Kinds, phase : Phases, plan : BOOLEAN]
  /\ {planMode, pendingPlan, busy, background, pending, planPending, checking, missed} \subseteq BOOLEAN
  /\ workers \in 0..MaxSpawns /\ offDue \in 0..MaxSpawns
  /\ chan \in Seq(Events) /\ Len(chan) <= Buffer
  /\ link \in {"up", "down", "opened"}
  /\ stale \in -1..Buffer
  /\ posts \in [Kinds \X States -> Nat]
  /\ nudges \in 0..MaxNudges
  /\ acts \in 0..MaxActs /\ others \in 0..MaxOther
  /\ losses \in 0..MaxLosses /\ spawned \in 0..MaxSpawns
  /\ sinceUser \in Nat

Init ==
  /\ gate = FALSE /\ turns = {} /\ planMode = FALSE /\ pendingPlan = FALSE
  /\ workers = 0 /\ offDue = 0
  /\ chan = <<>> /\ link = "up" /\ stale = -1
  /\ posts = [r \in Kinds \X States |-> 0]
  /\ busy = FALSE /\ background = FALSE /\ pending = FALSE /\ planPending = FALSE
  /\ nudges = 0 /\ checking = FALSE
  /\ acts = 0 /\ others = 0 /\ losses = 0 /\ spawned = 0
  /\ sinceUser = 0
  /\ missed = FALSE

-----------------------------------------------------------------------------
(* The hub: deliver, with its blocking send for terminal events and its    *)
(* drop of anything else when the buffer is full.                          *)

Live == link # "down"
Room == Len(chan) < Buffer
StaleFull == stale = Buffer

\* faulty variant: the send of a terminal event waits for room without a limit.
MaySendWaiting(e) == e \in Terminal => ((Live => Room) /\ ~StaleFull)

\* A terminal event may wait for room; the wait ends after 250 ms and the event
\* is dropped, for that subscriber only.
MaySend(e) == TRUE

Deliver(e) ==
  /\ MaySend(e)
  /\ chan' = IF Live /\ Room THEN Append(chan, e) ELSE chan
  /\ stale' = IF stale = -1 \/ StaleFull THEN stale ELSE stale + 1
  /\ missed' = (missed \/ (e \in {"final", "error", "off"} /\ ~(Live /\ Room)))
  /\ UNCHANGED link

-----------------------------------------------------------------------------
(* The gate and the turn goroutine.                                        *)

NewTurn(kind) == [kind |-> kind, phase |-> "dispatched", plan |-> FALSE]

\* What becomes of the requests ps when one is posted, or one is over.
With(ps, kind, st) == [ps EXCEPT ![<<kind, st>>] = @ + 1]
Without(ps, kind, st) == [ps EXCEPT ![<<kind, st>>] = @ - 1]
Move(kind, st) == posts' = With(Without(posts, kind, "sent"), kind, st)

\* faulty variant: the handler releases the gate when it returns (issue 481).
AcceptAndRelease(kind) == gate' = FALSE /\ turns' = turns \cup {NewTurn(kind)}

\* markBusy, and the dispatch of the turn's goroutine.
Accept(kind) == gate' = TRUE /\ turns' = turns \cup {NewTurn(kind)}

Refuses(kind) == gate \/ workers > 0 \/ (kind = "approve" /\ ~pendingPlan)

\* A request, or its answer, is lost: as long as the daemon is out of reach, or alone.
Fault == IF link = "down" THEN UNCHANGED losses ELSE losses < MaxLosses /\ losses' = losses + 1

\* The handlers of POST messages and plan/approve.  The request may have arrived
\* and its answer be lost or late.
Arrive(kind) ==
  /\ kind # "stop" /\ posts[kind, "sent"] > 0
  /\ IF Refuses(kind)
     THEN Move(kind, "refused") /\ UNCHANGED <<gate, turns, losses>>
     ELSE /\ Accept(kind)
          /\ \/ posts' = Without(posts, kind, "sent") /\ UNCHANGED losses
             \/ kind # "other" /\ Move(kind, "failed") /\ Fault
  /\ UNCHANGED <<planMode, pendingPlan, workers, offDue, stream, window, acts, others, spawned, history>>

\* POST stop: StopAgent cancels the loop that runs, whoever started it.
StopArrives ==
  /\ posts["stop", "sent"] > 0
  /\ posts' = Without(posts, "stop", "sent")
  /\ turns' = {IF t.phase = "loop" THEN [t EXCEPT !.phase = "cancelled"] ELSE t : t \in turns}
  /\ UNCHANGED <<gate, planMode, pendingPlan, workers, offDue, stream, window, counts, history>>

\* The request never reaches the daemon.
RequestLost(kind) ==
  /\ kind # "other" /\ posts[kind, "sent"] > 0
  /\ Move(kind, "failed") /\ Fault
  /\ UNCHANGED <<daemon, stream, window, acts, others, spawned, history>>

Step(t, phase) == turns' = (turns \ {t}) \cup {[t EXCEPT !.phase = phase]}

\* The goroutine starts: SendMessageToSessionFull and ExecuteTaskLoop read the
\* plan mode; ExecuteApprovedPlan takes the pending plan and leaves plan mode,
\* or returns without a word when the plan has gone meanwhile.
Begin(t) ==
  /\ t.phase = "dispatched"
  /\ IF t.kind = "approve"
     THEN /\ planMode' = (IF pendingPlan THEN FALSE ELSE planMode)
          /\ pendingPlan' = FALSE
          /\ Step(t, IF pendingPlan THEN "loop" ELSE "done")
          /\ missed' = (missed \/ ~pendingPlan)
     ELSE /\ turns' = (turns \ {t}) \cup {[t EXCEPT !.phase = "loop", !.plan = planMode]}
          /\ UNCHANGED <<planMode, pendingPlan, missed>>
  /\ UNCHANGED <<gate, workers, offDue, stream, posts, window, counts,
                 sinceUser>>

\* The running loop starts a background worker; the first one is announced.
SpawnWorker(t) ==
  /\ t.phase = "loop" /\ spawned < MaxSpawns /\ acts < MaxActs
  /\ workers' = workers + 1
  /\ spawned' = spawned + 1 /\ acts' = acts + 1
  /\ IF workers = 0 THEN Deliver("on") ELSE UNCHANGED <<chan, link, stale, missed>>
  /\ UNCHANGED <<gate, turns, planMode, pendingPlan, offDue, posts, window, others, losses, sinceUser>>

\* removeBackground: the last worker's edge is computed under the session's lock
\* and emitted after it.
WorkerEnds ==
  /\ workers > 0
  /\ workers' = workers - 1
  /\ offDue' = IF workers = 1 THEN offDue + 1 ELSE offDue
  /\ UNCHANGED <<gate, turns, planMode, pendingPlan, stream, posts, window, counts,
                 history>>

AnnounceIdle ==
  /\ offDue > 0
  /\ offDue' = offDue - 1
  /\ Deliver("off")
  /\ UNCHANGED <<gate, turns, planMode, pendingPlan, workers, posts, window, counts,
                 sinceUser>>

\* runLoop emits the turn's one terminal event and returns.
Answer(t) ==
  /\ t.phase \in {"loop", "cancelled"}
  /\ \/ /\ t.phase = "loop" /\ Deliver("final")
        /\ Step(t, IF t.plan THEN "answered" ELSE "done")
     \/ Deliver("error") /\ Step(t, "done")
  /\ UNCHANGED <<gate, planMode, pendingPlan, workers, offDue, posts, window, counts, sinceUser>>

\* recordPlan keeps the answer of a plan-mode turn for approval.
RecordPlan(t) ==
  /\ t.phase = "answered"
  /\ Step(t, "done")
  /\ pendingPlan' = TRUE
  /\ Deliver("plan")
  /\ UNCHANGED <<gate, planMode, workers, offDue, posts, window, counts, sinceUser>>

\* The checkpoint is committed and the session persisted; then onDone runs.
OnDone(t) ==
  /\ t.phase = "done"
  /\ turns' = turns \ {t}
  /\ gate' = FALSE
  /\ UNCHANGED <<planMode, pendingPlan, workers, offDue, stream, posts, window, counts, history>>

\* Another client: a message of its own, by Send or Stream, which take the same
\* gate, or a plan rejected.
OtherPost ==
  /\ others < MaxOther /\ acts < MaxActs
  /\ others' = others + 1 /\ acts' = acts + 1
  /\ posts' = With(posts, "other", "sent")
  /\ UNCHANGED <<daemon, stream, window, losses, spawned, history>>

OtherRejectsPlan ==
  /\ others < MaxOther /\ acts < MaxActs /\ pendingPlan
  /\ others' = others + 1 /\ acts' = acts + 1
  /\ pendingPlan' = FALSE
  /\ UNCHANGED <<gate, turns, planMode, workers, offDue, stream, posts, window, losses, spawned, history>>

-----------------------------------------------------------------------------
(* The remote client: the stream reader, the reconnect loop and the        *)
(* goroutines that post requests.                                          *)

\* The stream ends: closed by the server, by the network, or by monitorHealth.
\* What its buffer holds is lost, and the server serves it until it notices.
LoseStream ==
  /\ link = "up" /\ losses < MaxLosses
  /\ losses' = losses + 1
  /\ link' = "down"
  /\ stale' = Len(chan)
  /\ chan' = <<>>
  /\ missed' = (missed \/ \E i \in DOMAIN chan : chan[i] \in {"final", "error", "off"})
  /\ UNCHANGED <<daemon, posts, window, acts, others, spawned, sinceUser>>

\* The producer of the lost stream fails to write and unsubscribes.
Unsubscribe ==
  /\ stale # -1
  /\ stale' = -1
  /\ UNCHANGED <<daemon, chan, link, posts, window, counts, history>>

\* reconnect opens a new stream, and only then tells the workbench.
Reopen ==
  /\ link = "down"
  /\ link' = "opened"
  /\ UNCHANGED <<daemon, chan, stale, posts, window, counts, history>>

NotifyRestored ==
  /\ link = "opened"
  /\ link' = "up"
  /\ UNCHANGED <<daemon, chan, stale, posts, window, counts, history>>

-----------------------------------------------------------------------------
(* The window, on the UI thread.                                           *)

\* faulty variant: a nudge resets its own allowance.
BudgetAfterNudge(kind) == 0

\* A user message resets the nudge budget; a nudge uses one up.
BudgetAfter(kind) ==
  IF kind \in {"user", "queued"} THEN 0 ELSE IF kind = "nudge" THEN nudges + 1 ELSE nudges

\* submit past its checks, sendCommandNow and startApprovedTurn.
SendOut(ps, kind) ==
  /\ busy' = TRUE
  /\ planPending' = FALSE
  /\ nudges' = BudgetAfter(kind)
  /\ posts' = With(ps, kind, "sent")
  /\ sinceUser' = IF kind \in {"user", "queued"} THEN 0 ELSE IF kind = "nudge" THEN sinceUser + 1 ELSE sinceUser

\* Enter or Send: a message goes out at once, or into the one slot of the queue.
Submit ==
  /\ acts < MaxActs
  /\ acts' = acts + 1
  /\ IF busy
     THEN /\ pending' = TRUE
          /\ UNCHANGED <<busy, planPending, nudges, posts, sinceUser>>
     ELSE SendOut(posts, "user") /\ UNCHANGED pending
  /\ UNCHANGED <<daemon, stream, background, checking, others, losses, spawned, missed>>

\* stopTurn, and /clearqueue, which stops nothing.
StopTurn ==
  /\ busy \/ pending
  /\ \E stop \in {busy, FALSE} :
       posts' = IF stop /\ posts["stop", "sent"] = 0 THEN With(posts, "stop", "sent") ELSE posts
  /\ pending' = FALSE
  /\ UNCHANGED <<daemon, stream, busy, background, planPending, nudges, checking, counts,
                 sinceUser, missed>>

\* approvePlan does not ask whether the window is busy.
ApprovePlan ==
  /\ planPending /\ acts < MaxActs
  /\ acts' = acts + 1
  /\ SendOut(posts, "approve")
  /\ UNCHANGED <<daemon, stream, background, pending, checking, others, losses, spawned, missed>>

\* togglePlanMode; leaving plan mode drops the plan awaiting approval.
TogglePlanMode ==
  /\ acts < MaxActs
  /\ acts' = acts + 1
  /\ planMode' = ~planMode
  /\ pendingPlan' = (pendingPlan /\ ~planMode)
  /\ planPending' = FALSE
  /\ UNCHANGED <<gate, turns, workers, offDue, stream, posts, busy, background, pending,
                 nudges, checking, others, losses, spawned, history>>

\* drainQueue re-enters submit with the queued message.
DrainQueue(ps) ==
  /\ pending
  /\ pending' = FALSE
  /\ SendOut(ps, "queued")
  /\ UNCHANGED checking

\* maybeSupervise starts a check of the goal while the budget lasts.
MaybeSupervise(ps) ==
  /\ ~pending
  /\ busy' = FALSE
  /\ checking' = (checking \/ (Goal /\ nudges < MaxNudges))
  /\ posts' = ps
  /\ UNCHANGED <<pending, planPending, nudges, sinceUser>>

\* The idle edge: the queued message goes out; else the supervisor looks.
EnterIdle(ps) == DrainQueue(ps) \/ MaybeSupervise(ps)

Settle(ps, b) ==
  /\ busy' = b
  /\ posts' = ps
  /\ UNCHANGED <<pending, planPending, nudges, checking, sinceUser>>

\* setBusy(false) and setBackground, as apply calls them.
ApplyEnd(ps) ==
  /\ IF busy /\ ~background THEN EnterIdle(ps) ELSE Settle(ps, FALSE)
  /\ UNCHANGED background

\* faulty variant: the end of the background work is no idle edge.
ApplyOffQuietly(ps) == Settle(ps, busy) /\ background' = FALSE

ApplyOff(ps) ==
  /\ IF ~busy /\ background THEN EnterIdle(ps) ELSE Settle(ps, busy)
  /\ background' = FALSE

Apply(e) ==
  \/ e \in {"final", "error"} /\ ApplyEnd(posts)
  \/ e = "off" /\ ApplyOff(posts)
  \/ e = "on" /\ Settle(posts, busy) /\ background' = TRUE
  \/ /\ e = "plan" /\ planPending' = TRUE
     /\ UNCHANGED <<busy, background, pending, nudges, checking, posts, sinceUser>>

\* The client's reader forwards an event to the sink and the UI thread applies it:
\* the buffers between them are taken as part of chan.
Consume ==
  /\ link = "up" /\ chan # <<>>
  /\ Apply(Head(chan))
  /\ chan' = Tail(chan)
  /\ UNCHANGED <<daemon, link, stale, counts, missed>>

\* faulty variant: a refused or failed request is always only logged.
SurfacesNever(kind) == FALSE

\* emitSendErr: while disconnected a failure is only logged.
Surfaces(kind) == link = "up" /\ kind \notin {"other", "stop"}

Reply(kind, st) ==
  /\ st # "sent" /\ posts[kind, st] > 0
  /\ IF Surfaces(kind)
     THEN ApplyEnd(Without(posts, kind, st))
     ELSE posts' = Without(posts, kind, st) /\ UNCHANGED <<window, sinceUser>>
  /\ missed' = (missed \/ (link # "up" /\ kind \notin {"other", "stop"}))
  /\ UNCHANGED <<daemon, stream, counts>>

\* applySupervisorVerdict: a verdict is stale once the window is busy or a
\* message is queued.
Verdict ==
  /\ checking
  /\ checking' = FALSE
  /\ \/ /\ busy \/ pending
        /\ UNCHANGED <<busy, planPending, nudges, posts, sinceUser, acts>>
     \/ /\ ~busy /\ ~pending /\ nudges' = 0 /\ sinceUser' = 0
        /\ UNCHANGED <<busy, planPending, posts, acts>>
     \/ /\ ~busy /\ ~pending /\ nudges < MaxNudges /\ acts < MaxActs
        /\ acts' = acts + 1
        /\ SendOut(posts, "nudge")
     \/ /\ ~busy /\ ~pending /\ nudges >= MaxNudges
        /\ UNCHANGED <<busy, planPending, nudges, posts, sinceUser, acts>>
  /\ UNCHANGED <<daemon, stream, background, pending, others, losses, spawned, missed>>

-----------------------------------------------------------------------------

TurnStep ==
  \E t \in turns : Begin(t) \/ Answer(t) \/ RecordPlan(t) \/ OnDone(t)
Spawning == \E t \in turns : SpawnWorker(t)
Request ==
  \E kind \in Kinds : \/ Arrive(kind) \/ RequestLost(kind)
                      \/ \E st \in States : Reply(kind, st)
Background == WorkerEnds \/ AnnounceIdle
Reconnect == Reopen \/ NotifyRestored
\* The modal raised by notifyLost keeps the user from the window until notifyRestored.
User == link = "up" /\ (Submit \/ StopTurn \/ ApprovePlan \/ TogglePlanMode)
Others == OtherPost \/ OtherRejectsPlan

Next ==
  \/ TurnStep \/ Spawning \/ Request \/ StopArrives \/ Background
  \/ Consume \/ LoseStream \/ Unsubscribe \/ Reconnect
  \/ Verdict \/ User \/ Others

Spec == Init /\ [][Next]_vars

\* The goroutines of the daemon and of the client go on; nothing obliges the
\* user, another client or the network to do anything.  The server need not
\* ever notice a lost stream.
FairSpec ==
  /\ Spec
  /\ WF_vars(TurnStep) /\ WF_vars(Request) /\ WF_vars(StopArrives) /\ WF_vars(Background)
  /\ WF_vars(Consume) /\ WF_vars(Reconnect) /\ WF_vars(Verdict)

-----------------------------------------------------------------------------
(* Properties.                                                             *)

\* The busy gate spans the turn: it is held exactly while a turn goroutine is
\* alive, and there is never more than one, whatever the terminals post and
\* however streams come and go (markBusy, onDone).
GateSpansTurn == gate = (turns # {}) /\ Cardinality(turns) <= 1

\* A queued message never waits in a window that shows the session idle: each
\* idle edge, of the turn or of the background work, sends it.
QueueNotStranded == pending => (busy \/ background)

\* Between two user messages (or met goals) the supervisor nudges at most
\* MaxNudges times, however turns end, fail or are refused.
NudgesBounded == sinceUser <= MaxNudges

\* Every accepted turn ends and frees the session, whether or not a client
\* listens: a full buffer nobody reads delays it by a bounded time only.
TurnFreesGate == gate ~> ~gate

\* A busy window becomes idle, unless the end of a turn was lost on its way.
BusyEnds == busy ~> (~busy \/ missed)

\* session_window.go: "When the agent returns to idle it auto-fires as the next
\* turn".  With no other client, a queued message is not refused as busy.
QueuedBecomesTurn == posts["queued", "refused"] = 0

\* dispatch.go: "so a connected or reconnecting client renders the answer and
\* idles".  A window is not busy for ever.
ReconnectedIdles == []<>(~busy)

=============================================================================
