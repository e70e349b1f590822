# A TLA+ verification project for gogent

gogent is a coding agent written in Go: a terminal client and a daemon drive
conversations with language models, run the tools the models call, delegate work
to sub-agents, fire recurring watchers, and ask a human for approval where the
configuration says so. This directory holds TLA+ models of the parts whose
correctness depends on interleavings, orderings and failures, the TLC
configurations that check them on small instances, and TLAPS proofs of the
safety properties that matter most, for every value of the constants.

## 1. Inventory

| Component | Source | State it keeps | Operations and neighbours | Modelled in |
| --- | --- | --- | --- | --- |
| Watcher engine | `internal/watcher` | the registered Runners, one schedule loop per enabled watcher, one fire per watcher, the slot channel | `Add`, `Start`, `Stop`, `Toggle`, `RunNow`, `StopWatcher`, `Remove`; calls back into the host to run a fire | `WatcherManager` |
| Watcher host | `internal/gogent/watcher.go`, `watcher_store.go` | watcher definitions of sessions and of `watchers.json` | create, update, enable, delete, session closed or restored; registers with the engine | `WatcherHost` |
| Approval bridge | `internal/server/approvals*.go` | pending approvals with a one-slot decision channel, a ring of recent ones | a tool call waits, an HTTP client decides, a ticker denies after a time-out | `ApprovalBridge` |
| Event hub and handlers | `internal/server/hub.go`, `events.go`, `messages.go`, `api.go` | subscribers with bounded channels, a replay ring, the busy gate of each session | publish, subscribe with replay, send, act on a plan, cancel | `HubFeed`, `RemoteTurns` |
| Session turn loop | `internal/agent/user_session.go` | transcript, pending notes, step and token budgets, cancel function | one model round trip, tool execution, truncation recovery, final answer | `AgentLoop` |
| Compression and migration | `internal/compression`, `user_session.go` | none of their own: they rewrite the transcript | compact before a request, migrate to a smaller window | `Compaction` |
| Sub-agents | `internal/agent` (`user_session.go`, `agent.go`, `limiter.go`) | the agent tree, background and interactive workers, inboxes, event channel, the limiter | spawn, join, clarify, answer, terminate, stop | `SubAgents` |
| Session store | `internal/gogent/session_store.go` | per session an index and a row of shards on disk, the frontier of the last save | save, rewrite, archive, reopen, restore | `SessionStore` |
| Permissions | `internal/permission` | rules, sticky decisions in memory and in `permissions.json`, yolo mode | check, ask, remember, persist | `Permissions` |
| File operations | `internal/fileops`, `gogent.go`, `lsp.go` | the open checkpoint of each session, a bounded history | write, snapshot, commit, undo, rewind | `Checkpoints` |
| LSP client | `internal/lsp`, `internal/gogent/lsp.go` | language servers per root, open documents, findings | start, sync, request, shut down | `LanguageServers`, `DocumentSync` |
| MCP client | `internal/mcp`, `internal/gogent/mcp.go` | server processes, their pipes, their tools | start, list, call, close | `McpServers` |
| Daemon and handoff | `cmd`, `internal/daemon` | lock, socket and pidfile, the process that owns the sessions | start, attach, hand off, return, stop | `DaemonLifecycle`, `Handoff` |
| Attached terminal | `ui/tui` (`remote_handlers.go`, `session_window.go`, `permission_dialog.go`, `disconnect_modal.go`) | busy flags, a queued message, nudges, the prompts it has seen and their modals | consume events, reconnect, present prompts, answer | `RemoteTurns`, `PromptClient` |
| Diagnostics | `internal/diag`, `internal/server/logs.go`, `logs_window.go` | a ring of log records, a cursor, the records shown last | append, stream, resume | `LogTail` |
| Rate limiter | `internal/agent/ratelimiter.go` | tokens and a clock | wait | only that a wait can be interrupted |
| Session registry | `internal/gogent/gogent.go`, `dispatch.go` | maps of sessions and options | forwards to the other parts | where it reaches them |
| Provider connections, tools, SSH tunnel, configuration, statistics, skills, the rest of the terminal | `internal/model`, `tool`, `sshtunnel`, `config`, ... | requests, files, screens | translate, read, write, draw | not |

Components interact by direct calls inside one process. A client reaches the
registry over HTTP or, embedded, by a function call; the registry dispatches a
turn on a goroutine of its own; the turn loop calls the provider, the tools and,
through the permission service, the approval bridge; whatever it does is
published to the event hub; the registry saves the session when the turn ends.
The watcher engine calls back into the registry, which runs a fire as a turn.

What is hard in each, and the property that would show it right:

| Component | Hard behaviour | Correct when |
| --- | --- | --- |
| Watcher engine | loops and fires that outlive the control call that ended them, a lock held while another goroutine starts, slots released on every exit | one fire and one schedule per watcher, no slot leaked, `Stop` final and certain to return |
| Watcher host | load-change-save of one file without a lock, sessions restored while the engine starts | what is scheduled is what is stored |
| Approval bridge | the answer, a second answer and the clock race; answers after the end | the first answer wins, the clock denies only with cause, no acknowledged grant is forgotten |
| Event hub | delivery outside the lock, subscribers that come and go | a notification is handed over or held, never neither |
| Turn gate and terminal | the window learns of the end before the gate is free, events are not replayed | the gate spans the turn; no message is stranded; the window does not stay busy |
| Session turn loop | many ways to recover and to end one turn, parallel tools, input that arrives meanwhile | every tool call answered once, recovery bounded, effects in order |
| Compaction | cuts at places it chooses, rounds that give up half-way | no call is parted from its result, nothing said is dropped unsummarised |
| Sub-agents | workers that wait for an answer, places taken and given back on every path, an event channel that overflows | every worker ends and gives its place back; every end is reported once |
| Session store | files replaced one by one, agents that speak during a save, crashes | what was saved can be read again, once and in order |
| Permissions | a decision made under a lock and written outside it | nobody is allowed or refused without a cause |
| File operations | undo against background writers and language servers | undo restores the state before the turn |
| LSP client | start and launch gate against shutdown; requests that overtake `didOpen` | every process has an owner; answers are about the current file |
| MCP client | calls of several agents on one pipe, servers that do not answer | each call gets its own reply; what a close is to release is released, although a start may overlap it |
| Daemon and handoff | starting, stopping and spawning in any order | one daemon owns the store, one side serves the windows |
| Prompts of a terminal | one slot for a held-back modal, ids that a restarted daemon counts anew | no waiting tool loses its dialog |
| Log stream | records out of order, a cursor that moves back | no record is shown twice |

The hazards behind these, each at its line, are listed in `PROJECT.json`.

## 2. Modules

A critical section under a Go mutex is one step. Where the code releases a lock
between reading and acting, or touches a file, a channel or another lock, the
model has separate steps. Operators named "faulty variant" in a comment are not
part of the model: each is a mistake one could make in the definition that
follows it, and each property was seen to fail with one of them.

| Module | Models | Proofs |
| --- | --- | --- |
| `WatcherManager` | the watcher engine | `WatcherManagerProofs` |
| `WatcherHost` | its host | `ServicesProofs` |
| `ApprovalBridge` | the approval bridge and the Decide handler | `ApprovalBridgeProofs` |
| `AgentLoop` | the turn loop of an agent | `AgentLoopProofs` |
| `Compaction` | compaction and migration of a transcript | `ServicesProofs` |
| `SubAgents` | the workers of a session | `SubAgentsProofs` |
| `SessionStore` | saving, closing, reopening and restoring a session | `SessionStoreProofs` |
| `NotificationFeed`, `HubFeed` | what the hub promises, and the hub | `AttachedProofs` |
| `RemoteTurns` | the gate of a session, its event streams, one window | `RemoteTurnsProofs` |
| `PromptClient` | the prompts in an attached terminal | `AttachedProofs` |
| `LogTail` | the log stream | `AttachedProofs` |
| `Checkpoints` | snapshots, undo and rewind | `AttachedProofs` |
| `Permissions` | the permission service | `AttachedProofs` |
| `LanguageServers`, `DocumentSync` | the server processes; one document | `ServicesProofs` |
| `McpServers` | MCP servers and their pipes | `ServicesProofs` |
| `DaemonLifecycle`, `Handoff` | daemons; the terminal's controller over them | `AttachedProofs` |
| `MCWatcherManager`, `MCApprovalBridge`, `MCAgentLoop`, `MCServices` | constants for the instances that TLC checks; `MCServices` runs eleven components side by side | |

### WatcherManager (`internal/watcher/manager.go`)

A Runner has `enabled`, `status`, `running`, `removed`, `done` and `cancelFire`
as in the code. A schedule loop is a record with its place (`arming`, `waiting`,
`firing`), its Runner and whether its `done` channel is closed; a fire is one
with its place from `queued` to `exit`. `sem` is the set of fires that hold a
slot, `wg` the goroutines counted by the wait group.

`Add`, `Start`, `Stop`, `ToggleOn`, `ToggleOff`, `RunNow`, `StopWatcher`,
`Remove` and `RemoveAttachedForSession` are the control calls. The manager's
lock `m.mu` is held over several steps by the calls that wait for a new loop's
first `Next` (`LaunchLoop`) and by removal (`Teardown`, `TeardownCancel`);
`MuFree` says that nobody is in such a stretch. `LoopArm`, `LoopPanic`,
`LoopTimer`, `LoopExit` and `LoopFire` are the schedule loop; `AcquireSlot`,
`AbortQueued`, `BeginFire`, `HostReturn`, `HostPanic`, `RecordOutcome`,
`Notify` and `FireExit` are `runFire` with its deferred calls in their order.
A loop's timer may expire at any moment, which stands for every schedule.

### WatcherHost (`internal/gogent/watcher.go`, `watcher_store.go`)

`file` is `watchers.json`, `attached` and `index` the watchers of a session in
memory and in its stored index, `runners` what the engine has. A client's call
is cut where `watchers.json` is loaded and saved and where a lock is released;
`Build` to `Started` are `StartWatchers`. A crash between load and save and a
restart are in it. The two loads of an enable are one step.

### ApprovalBridge (`internal/server/approvals.go`, `approvals_handlers.go`)

`pending` and `recent` are the map and the recall ring under `b.mu`, `decided`
is the one-slot channel of each approval, `waiter` the goroutine of the tool
that asked, with its two clocks, `handler` the HTTP request of each client.
`Alloc`, `Tick`, `Receive`, `Remove` and `Return` (which also persists an
answer in time) are the waiter; `List`, `Decide`, `Lookup`, `Send`, `Refused`,
`Late` and `NotFound` are the handlers, cut where the code releases `b.mu`;
`Connect` and `Disconnect` are the event streams that count as clients. Time is
counted in ticks of `pollInterval`; what a tick charges depends on two separate
looks, at the hub and at `observed`.

### AgentLoop (`internal/agent/user_session.go`, `runLoop`)

`pc` is the place in the loop: `pacing` (notes are taken and the rate limiter is
waited for), `model` (a request is out), `top` (a reply is there), `tools` (its
calls run), `idle`. A reply keeps the kinds of its tool calls, its finish reason
and what its text is. There is an action for each way a reply can be dealt with:
`Bail`, `StopForBudget`, `CapFinal`, `CapStop`, `CapPlain`, `Reissue`,
`RetryVisible`, `RetryRaised`, `StopForTruncation`, `Nudge`, `Answer`,
`BeginTools`, and under it `RunCall`, `FoldFinal`, `ToolRoundDone`. `Interrupt`,
`InjectUserNote` and `EnqueueBackgroundResult` come from other goroutines.

### Compaction (`internal/compression`, `user_session.go`)

A message is its role, a size and the stretch of the conversation it stands
for; a digest stands for all it summarises. `Compact` is what happens before a
request, `FoldChunk`, `FoldDone`, `FoldFails` and `FoldFewerTurns` the rounds of
a migration. Whether a stretch is folded depends on the estimates alone.

### SubAgents (`internal/agent`)

A worker is one agent from launch to end; its loop is one step that returns some
outcome, since `AgentLoop` has the loop. `StartBatch` and `StartCall` are a
batch of one-shot agents, whose members run inline when the limiter is full;
`Launch`, `Ask`, `Send`, `LoopEnds` an interactive or background agent;
`Wait` the coordinator, which looks at the parked ends and then waits on the
event channel, so that an end parked in between is seen only at the next call.
`StopAgent`, `Stop` and `TerminateInteractiveAgent` cancel.

### SessionStore (`internal/gogent/session_store.go`, `gogent.go`)

Memory, store and disk are kept apart so that `Crash` can forget the first two.
On disk are the index (its shard table) and the shard files of the active and
of the archived base. A save is `SaveBegin`, `Encode` for each agent, `Roll` and
`WriteLine` for each file operation, `RemoveOrphans`, `WriteIndex`, and
`RecordLength` and `RecordEpoch` for each agent, or `SaveFails`; it holds the
store's lock throughout, and `Say`, `Compact` and `Spawn` happen meanwhile.
`Remove` and `ArchiveBegin` to `ArchiveEnd` close a session, `Continue` to
`UnarchiveEnd` reopen it, `Restart` restores it. `damage` remembers what the
code openly leaves half-done (an interrupted rewrite or unarchiving, a save that
began after its session was removed); `raced` and `reused` the agents that
changed while a save looked at them and the ids used again after a restart.

Not in it: the title and the watchers of the index (whether they changed is left
open), usage records, the shard cache, the browser, fsync and power failures
(a killed process keeps what it wrote), and `FoldLastAssistantContent`, which
rewrites the last message in place. After a late save of a session restored from
disk the code picks a new base name; the model reuses the old one, and no
property speaks of the disk after such a save.

### NotificationFeed, HubFeed (`internal/server/hub.go`, `events.go`, `notify.go`)

`NotificationFeed` says what clients are promised: a notification that is raised
is given to somebody or held for the next client, who gets everything held, and
only the last few are kept. `HubFeed` is the hub: streams with bounded buffers,
a turn's last event sent to a snapshot of the subscribers outside the lock, its
notification sent or put into the ring under it, and the local fallback. It
implements the feed under the mapping `raised` = routed, `given` = in some
stream's buffer, `held` = the ring. "Given" means put into a buffer: a client
that disconnects takes what it has not read along.

### RemoteTurns (`internal/server`, `ui/tui`)

One session, one window and the other clients. `gate` is the busy flag of the
session, `turns` the goroutines that run; what a turn emits goes through one
bounded buffer, which stands for the stream, the client's channel and the posts
to the event loop. The window has its busy and background flags, one queued
message, a plan and the supervisor. A lost stream blocks the window until it is
reconnected and replays nothing. A request or its answer may be lost (`Fault`): at
any time while the link is down, as often as the bound says while it is up, when the
window is told of it. A stop request is idempotent; a plan is acted on
once; nobody is obliged to unsubscribe.

### PromptClient (`ui/tui/remote_handlers.go`, `permission_dialog.go`)

A prompt is a life of the daemon and a number, since the ids start anew with
each life. `List` and `Scan` are the poller, `Prompt` and `PromptReturns` the
serialized modal of a handler goroutine, `Present`, `TimerFires`, `Recheck` and
`Submit` the one slot in which a modal is held back while the user types,
`Decide`, `Unsent` and `TryAgain` the answer with its retries, `Quit` and `Exit`
the end of the terminal. What the daemon does with an answer is reduced to who
came first; `ApprovalBridge` has the details.

### LogTail (`internal/diag/ring.go`, `internal/server/logs.go`, `ui/tui`)

A record is its time, taken before the lock of the ring, so records reach the
ring out of order. `Snapshot`, `Send` and `Subscribe` are the stream, whose
buffers are one; `Connect`, `Read` and `Ended` the client with its cursor and
the keys it remembers; `Cut` loses the connection and perhaps the daemon.

### Checkpoints (`internal/fileops`, `gogent.go`, `lsp.go`)

A content is the number of the write that made it. `StartCall`, `NextFile`,
`Write` and `CallFails` are a write tool, whose snapshots precede its writes;
`BeginTurn`, `EndTurn` and `Undo` the checkpoint of a turn; `BeginEdit` to
`EditFails` an edit that a language server applies, with its own rollback. The
user changes files, too. `Lists` are the orders in which one call names its files.
A checkpoint carries, besides what the code keeps (`files`), what the files held
when it began (`start`) and which of them it no longer answers for, since somebody
else changed them or they were undone while the turn went on (`cut`). One undo
runs at a time, though the code has no lock that says so; the snapshots of an edit
are one step.

### Permissions (`internal/permission/permission.go`)

A request has a key (action and resource); patterns of rules are sets of
requests, and the rules are fixed at the start. `Check` is the cascade,
`Answer` the prompter, `LateAnswer` the approvals handler, `Keep` the map and the
snapshot under the lock, `Open` and `Write` the two steps of `os.WriteFile`: the
file is cut to nothing, then the text is written, so that two writers may mix
their texts or a crash leave half of one (`Torn`, which the next start does not
load). `Restart` loads the file.

### LanguageServers, DocumentSync (`internal/lsp`)

`LanguageServers` has the slots of the manager's table, the callers that start a
server on first use while others wait, the launch gate, the death of a server,
and `Shutdown`, which swaps the table, closes what it took and cancels the
context. `DocumentSync` has one file and one server: `Stat`, `Read`, `Sync`,
`Expect`, `Notify` and `Use` are a call that touches the document, cut where the
client's lock is released; the server takes notifications in order and publishes
findings with the version they are about. Servers that give no versions are left
out, `stat` and the fast path are one step, and a notification that fails after
the table moved on (`cut`) is outside `ViewIsCurrent`.

### McpServers (`internal/mcp`, `internal/gogent/mcp.go`)

`Write`, `Read` and `EndOfFile` are a call on the stdio transport, which holds
the mutex from its request to its response and skips lines with another id;
`Launch`, `Proceed`, `NextPage`, `CloseFailed` and `Started` the start with
handshake and listing; `CallTool` the tool calls; `CloseMCPServers`, `CloseNext`
and `CloseReturns` a call of `CloseMCPServers`, which takes the list and closes
one client after the other. Two callers make one each: `main` at its end, and the
goroutine of a handoff. The core is the first of its process, which `main` starts
while the menus are up, so that a handoff may close it under the start; or one
that a handoff has rebuilt (`rebuilt`), which its own goroutine starts and `main`
does not know. A server answers when it likes, writes notifications, log lines
and requests of its own, and may exit. The HTTP transport holds no mutex over a
call and is left out, and so is a write that blocks on a full pipe.

### DaemonLifecycle, Handoff (`internal/daemon`, `cmd`)

`DaemonStep` takes a daemon from the lock over the socket, the pidfile and the
core to serving, and back through the flush, the unlinking and the release;
crashes come anywhere, and a signal while it starts is one. `StopStep` is the
stop command: probe, ask to exit, signal, unlink. It is the Unix transport.
`Handoff` adds the controller of the terminal: spawn, wait, switch, shut down
the source, or roll back; and the return. `starting` and `FinishStart` are
`main`'s start of servers and watchers, which goes on beside the menus and is not
stopped when a handoff overtakes it. Its daemons are those of
`DaemonLifecycle`, its only Stop the controller's.

## 3. Runs

| Run | Instance | Shows |
| --- | --- | --- |
| `watchers` | one watcher with a schedule, two loops and two fires alive at once; or two fired by hand that share one slot | no overlap, one schedule, an armed loop for every enabled watcher, nothing after `Stop`; with fairness `Stop` returns and a queued fire proceeds |
| `approval_prompt` | one permission prompt and two clients, or a second prompt that evicts it from the ring and one client; bounds of 2 and 3 ticks | the first answer wins, no unpresented prompt dies of the connected bound, at most one grant is lost, an answer releases the tool |
| `agent_turns` | two turns, every kind of reply, one note, two background results | results one to one, balanced ends, order of effects, bounded recovery, and every turn ends |
| `store_crashes` | a sub-agent, two persisting goroutines, shards of one, one crash | the frontier is exact, what was saved survives, once and in order; a closed session stays closed |
| `sub_agents` | three workers of all kinds over two places, nested batches, an event channel of one | exact places, each end reported once and heard, cancelled workers end, batches end |
| `remote_turns` | three acts of the user, one of another client, one lost stream, two background workers, a supervisor | the gate spans the turn, no queued message is stranded, the gate is freed, the window becomes idle |
| `services` | eleven components, one per behaviour | `ImplementsFeed`, `UndoRestoresStart`, `TranscriptWhole`, `ScheduledAsDefined`, `OneSideServes`, `OneOwner`, `EveryProcessOwned`, `ViewIsCurrent`, `DecidedForCause`, `ModalNotLost`, `ShownOnce`, `AwaitedReplyKept` |
| `approval_grant_race` | one prompt without bounds, two clients | finding 1 |
| `store_rewrite` | one persisting goroutine, one crash | finding 2 |
| `remote_queue` | one client, two messages | finding 3 |
| `daemon_unlinked` | two daemons, one stop command | finding 4 |
| `lsp_first_touch` | two tool calls on one file | finding 5 |

`services` puts components that share no state side by side: which of them runs
is chosen at the start, and the others rest, so that the states add up instead
of multiplying (1.5 million, a bit over two minutes). `Handoff` is a true composition: its
daemons are `DaemonLifecycle`'s.

Bounds and why they are enough:

* Two loops and two fires of one Runner are what it takes for a stale loop to
  meet its successor and for a fire to meet the next one; a third would have to
  wait for one of them. One slot and two fires show the contest for a slot.
* Two clients are the winner and the loser of a prompt; a third only adds
  another loser, whose sticky answer is persisted like the second's. The bounds
  of 2 and 3 ticks let either clock run out, reset and run out again.
* Recovery budgets of one are spent and refused within a turn; a step cap of 3
  allows a recovery, a tool round and the cap in one turn; the second turn sees
  what the first left in the transcript. `EveryReply` in `MCAgentLoop` has one
  reply for each branch of the loop.
* Shards of one record make two of them, which is what archiving, reopening and
  orphans need. Two goroutines make a save wait for another. One crash may hit
  any step, and the restart after it is complete; a second crash would start
  from a state that a failed save or a closing reaches too.
* Three workers over two places: one waits, or runs inline, while the others
  hold the places; a channel of one overflows with the second end.
* A buffer of one is full as soon as the turn has said something; one lost
  stream may fall on any event of a turn; the nudge budget of one is spent and
  refused.
* The hub has three notifications for a ring and buffers of two, so that one is
  evicted; two streams overlap or follow each other. The transcripts grow to
  seven messages, which allows three rounds of folding. Two checks of
  permissions write at once. Two daemons and one stop command are an old daemon,
  its successor and who mistakes one for the other. Three processes serve two
  callers and one death. Two prompts are the one that holds the modal and the
  one that waits, or the same number in two lives of the daemon. Four records
  overflow a ring of two and a memory of three. Two tool calls and the core
  contend for one pipe.

Further instances, not part of the runs but kept because they found nothing
either: `MoreWatchers` (`SlotBound`, `RunningFlag`, `SlotsAccounted`,
`ExactIdWins`, `MuReleased`, `ClosedLoopEnds`), `MoreApprovalPrompt`
(`ExpiryJustified`, `PromptsEnd`), `MoreApprovalRing` (`NeverDiesEarly`,
`KnownUntilEvicted`, `RingIsRecent`), `MoreAgentTurns` (`TruncatedNeverFinal`,
`AnswerSurfaced`, `SplicedOnce`), `MoreStoreSaves` (`SavesReturn` and a longer
transcript; module `SessionStore`), `MoreRemoteTurns` (`NudgesBounded`),
`MoreHandoff` (`HandoffEnds`; module `Handoff`), `MoreServices` (types,
`FramesInOrder`, `NoneOutlives`, `PresentedOnce`, with larger bounds for some
components; five minutes on four workers). The type invariants are checked there.

`CHECK_DEADLOCK FALSE` stands where the system may really stop: a loop whose
turns, or a store whose messages, are used up is idle.

## 4. Fairness

* Watcher engine: goroutines that can step do (weak fairness); Go's `select`
  picks among ready branches at random and a channel serves blocked senders in
  order, so a loop's exit and a queued fire's slot are strongly fair. That hosts
  return is asked for only by `QueuedFireProceeds`. Nothing is asked of callers.
* Approval bridge: goroutines and tickers run; the receive of a decision is
  strongly fair for the same reason. Clients may never answer. `PromptsEnd`
  assumes that clients in the end stay or stay away, because each change resets
  a clock.
* Turn loop: the loop's goroutine runs, requests are answered or fail (the
  connector has a time-out), tools return. Nothing is asked of the model.
* Session store: file operations return. `sync.Mutex` hands the lock to a waiter
  that starved for a millisecond, hence strong fairness of `SaveBegin`.
* Sub-agents: a worker that can step does, a one-shot or cancelled worker's loop
  ends, calls of a batch start; the coordinator's look at the parked ends and
  its receive are strongly fair, since it comes by again and again and takes
  either. That a worker which may run on ends by itself is not assumed.
* Remote turns: turns proceed, requests arrive or fail, posted closures run, a
  lost stream is opened again, the supervisor's model answers. Nothing is asked
  of the users, the other clients or the streams.
* Handoff (by hand): the steps of the controller and of the daemon it waits for.
* MCP (by hand): goroutines run, a call of `CloseMCPServers` goes through its
  list. A server owes no answer, and when a core is closed is the user's choice.

## 5. Proofs

Each theorem holds for all values of the constants that satisfy the assumptions
named in the modules (`ConcurrencyAssumption`, `ClientAssumption`,
`LoopAssumption`, `StoreAssumption`, `WorkersAssumption`, `HubAssumption`;
`ServicesAssumption` collects those of the components of `MCServices`). They say that sets are what they are meant to be,
that sentinels differ from data, that numbers of goroutines are finite; in
`HubFeed` also that a client's buffer has room for the ring (128 and 50 in the
code). The runs evaluate them. Four theorems have a hypothesis more.
`ViewStaysCurrent` is about tool calls that follow one another and servers that
take every notification, as its property is. `WatchersStayScheduled` is about one
client and `UndoReachesStart` about one language server: with two, both are false
(section 6). `RecordsShownOnce` needs a table of `2 * RingSize - 1` records or
more. The comment in the code asks of the table
only that it "must exceed the ring size" (`remote_handlers.go:421`), which is not
enough for any sizes; its own sizes, 4096 over 2000, satisfy both.

The components of `MCServices` have no variable in common. Each of its proofs
starts with a lemma that says so ("the servers run alone"): a behaviour of
`ServicesSpec` is a behaviour of the component, so that what is proved of the
component holds in the composition the runs check.

* `WatcherManagerProofs`. Type correctness comes first and is used everywhere.
  `NoOverlap` is not inductive: a fire is started when `running` is false, so one
  has to know that `running` is true whenever a fire exists (`FireInv`).
  `SlotBound` needs that `sem` is held by exactly the fires past the slot
  (`SlotInv`). `OneArmedLoop` needs that a channel in `done` belongs to a live,
  unclosed loop of that Runner (`LoopInv`). `StopQuiesces` needs that the wait
  group counts exactly the live goroutines and that `Stop` excludes launches in
  progress (`QuiesceInv`). `EnabledIsArmed` needs to know what each stretch under
  `m.mu` has done so far (`ArmInv`). Of the further instances, `SlotsAccounted` is
  the other half of `SlotInv`, and `ExactIdWins` needs that no two registered
  watchers have one id (`IdsDiffer`).
* `ApprovalBridgeProofs`. `IInv` adds to the types `AnswerFlow`: where every
  accepted and every acknowledged answer is, in the channel, with the waiter or
  on disk. From it follow that the first accepted answer wins and that at most
  one acknowledged grant is lost, the one left in the channel (the theorem is
  the exact extent of finding 1). `UnpresentedKept` needs that no clock counts
  more ticks than there were (`ClockInv`). Of the further instances,
  `ExpiryJustified` and `NeverDiesEarly` need more: a clock is the length of the
  run of like ticks that ends the history (`TickInv`). `RingIsRecent` and
  `KnownUntilEvicted` need that a prompt somebody was shown is pending or has
  ended and never both, and that the ring is the end of the sequence of those
  that ended (`RingInv`).
* `AgentLoopProofs`. `StretchPaid` accounts for each round trip without a tool
  round by a nudge or a retry that paid for it, which bounds the stretch by both
  budgets together. `OpenCalls` says at which places of the loop calls may be
  unanswered; a request is sent only where none is, or where an interruption
  orphaned some. `EffectsInOrder` needs what has run of a batch so far
  (`RanInOrder`). `AnswerSurfaced` needs that a turn in progress has kept exactly
  the text it had (`SurfaceInv`).
* `SessionStoreProofs`. `ClosedStaysClosed` speaks of the moments when nobody
  holds the store's lock. In between, the invariant says which operations run
  for a session that is open, being closed or closed (`PhasesFit`), that the
  store knows the base of every active index, since `Archive` goes by its memory
  and the next start by the disk (`BaseKnown`), and that a save of a closed
  session began after the removal (`SaveIsLate`).
  The other three speak of what the files hold. `SavedSurvives` needs that a
  store that knows a session at all knows the name its index has (`StoreKnows`),
  that a save under way only adds to what the index says (`SaveGrows`), that no
  two sessions share a file (`Apart`) and that everything once saved is under
  one of its two names (`Kept`). `FrontierExact` (`FrontInv`) relates the
  frontier in memory, the one a save has yet to commit and the shards of the
  index. `ListedInOrder` (`OrderInv`) says that what a save has still to write
  continues what the shards hold. What the shards of an index hold is a function
  defined by recursion over them; the proofs use only that it is built step by
  step, that it does not see files outside the index, and that it grows by what
  the last shard grows by.
* `SubAgentsProofs`. `SlotsExact` (`SlotsInv`): the limiter counts the workers
  that hold a place, a cardinality that each step changes as it changes the
  counter. `EndReportedOnce` (`EndInv`): every end is in one of three places, and
  once, with lemmas on how often an element occurs in a sequence.
* `RemoteTurnsProofs`. `GateSpansTurn` (`GateInv`) ties the gate to the place of
  the turn that holds it; `QueueNotStranded` and `NudgesBounded` (`BudgetInv`)
  tie the window's queue and counters to what the stream has yet to deliver.
* `AttachedProofs`, what people see and take back. The refinement comes first:
  initial states of `HubFeed` map to initial states of `NotificationFeed`, each
  step to a step or a stutter, under an invariant that ties what is in the
  buffers to what is in the ring (`HubInv`). `FramesInOrder` compares
  streams: a notification of the ring has reached no stream yet, the event of a
  turn is put before its notification is routed, and a stream that lacks a
  notification others have will never have it (`OrderInv`). `DecidedForCause` (`PermInv`): memory,
  the file and every text on its way to it hold only answers that somebody gave,
  so that whatever is lost or mixed, nothing is made up. `ModalNotLost` (`ModalInv`): the
  holder of `promptMu` is the one prompt that has a modal shown or held back.
  `ShownOnce` (`LogInv`): the table of the terminal is a window on what the daemon
  has sent, and what may still be sent again is inside it (`RingOrder`).
  `OneOwner` is inductive once one knows that who owns the store holds the lock
  (`HoldsLock`); around handoffs one also has to know how far the controller is
  (`SideInv`).
  `UndoRestoresStart` (`Store`, with `Control` for who may write): a checkpoint
  vouches for the files it was not cut off from, and what it says of the start of
  its turn is found in the first later checkpoint that changed the file, or in the
  turn in progress, or in the undo under way, or on the disk. Each write, snapshot,
  commit, eviction of the oldest checkpoint and step of an undo moves the content
  from one of these places to the next. `TurnsAreUndone` is the part of it for the
  user's turns, and needs no hypothesis.
* `ServicesProofs`, the rest. `EveryProcessOwned` (`LSInv`) says
  where a process may be at each step of a caller and of `Shutdown`, and that a
  slot is occupied by one caller at a time. `AwaitedReplyKept` (`PipeInv`): who
  reads a pipe holds its mutex. `NoneOutlives` (`ChildrenHeld`): a server process
  that runs is registered, on the list of a call of `CloseMCPServers`, or the one
  in the handshake. So after the call that follows the start only the list of the
  other call is left. That the first call of the two releases everything is not
  true: section 6, `SourceReleased`.
  `ViewIsCurrent` (`SyncInv`) says what server, file
  and open document know of each other at each step of a call.
  `TranscriptWhole` (`WholeInv`): whatever is folded, the transcript with its
  digests covers the messages once and in their places. `ScheduledAsDefined`
  (`HostInv`): with one client, where watchers.json, the definitions in memory, the
  index of a session and the runners differ, the call under way has still to
  write the one that is behind.

Induction over data is out of the prover's reach as a rule of its library; where
a number is counted up to, the proofs use that a non-empty set of naturals has a
least element, from which a set that has 0 and is closed under successor has all
of them (`Least`, `Counting`).

Only model-checked: the liveness properties (`StopTerminates`,
`QueuedFireProceeds`, `AnswerReleases`, `TurnEnds`, `EndIsHeard`, `DoomedEnds`,
`BatchesEnd`, `TurnFreesGate`, `BusyEnds`), since the prover has neither fairness
nor `ENABLED`; of the further instances the liveness ones (`MuReleased`,
`ClosedLoopEnds`, `PromptsEnd`, `SavesReturn`, `HandoffEnds`), and `SplicedOnce`,
which counts with `SelectSeq`, a function recursive over its sequence that the
provers do not see into. Every invariant and every action property of the runs of
section 3 that hold is stated by a theorem, and so is every other one of the
further instances but some of their types.

## 6. Findings

Each is a sentence of the repository that the code does not keep; the run finds
the shortest way there.

1. `GrantNeverLost`. "The user's answer is never silently lost", but an answer
   sent between the receive of another one and the removal of the prompt is
   acknowledged and never read.
2. `NoHalfWrittenShard`. Shards are created "via a temp file + rename so a crash
   can't leave a half-written shard behind", but what is renamed into place is
   an empty file.
3. `QueuedBecomesTurn`. A queued message "auto-fires as the next turn", but the
   final answer is broadcast before the gate is free; the message may be refused
   as busy and is then gone.
4. `NeverUnlinked`. A stop command takes a daemon that still builds its core for
   a dead one and unlinks its socket and pidfile; an old daemon that ends slowly
   may do the same to its successor.
5. `RequestFindsDocument`. "ensureOpen guarantees the server has a current view",
   but the second of two first touches sends its request before the first has
   sent `didOpen`.

Further disagreements, each with a configuration that shows it (`Gap*.cfg`; those
of `MCServices` and `McpServers` hold several properties, all of them violated):

| Property | Configuration | What the repository says, and what happens |
| --- | --- | --- |
| `NeverOverlapsById` | `GapWatcherById` | "The Manager never overlaps a watcher with itself": an update in place makes a new Runner under the old id while the old fire goes on |
| `TruncatingModelStops`, `IdleNoteDrained` | `GapAgent` | "a model that keeps truncating cannot loop": a cut call that is executed renews the budget; "the loop drains it": a turn without tool calls leaves the note |
| `ReconnectedIdles` | `GapRemoteReconnect` | "a connected or reconnecting client renders the answer and idles": a final answer lost in an outage leaves the window busy |
| `StopEndsAll` | `GapSubAgentsStop` | "Stop cancels every in-flight task loop in the session": an interactive worker that was waiting for an answer when `Stop` was called does not end |
| `FirstTurnFits` | `GapServices` | "makes a session safe to run on cfg's model before its first turn there": the migration may give up above the window |
| `DieWithSession`, `CreatedSurvives` | `GapServices` | watchers of a session that is removed while the engine starts stay scheduled; of two clients that save `watchers.json` one is overwritten |
| `RollbackStopsSpawned`, `SourceIsQuiet`, `SourceStaysDown` | `GapServices` | a daemon that boots slower than the rollback waits comes up later; "no split-brain": a turn of the source goes on after the handoff; "stop its watchers and MCP" (handoff.go:255): `main` still goes through `StartMCPServers` and `StartWatchers` and brings them up beside the daemon |
| `NoneLeaked`, `FindingsAreCurrent` | `GapServices` | a touch between the two steps of `Shutdown` leaves a server running; a late push about a closed document settles the wait |
| `DenialHolds`, `AnswersAreKept` | `GapServices` | "always_deny": an allowed parent directory may win over it, by the random order of a map; "persisted": the older of two snapshots may be written last, or the texts mix |
| `AnswerMeetsItsPrompt`, `ListedIsPresented` | `GapServices` | "a future approval that happens to reuse an id is still presented": not after a restart of the daemon between two polls; and the answer to an old dialog meets the new prompt |
| `QuitDecidesNothing` | `GapServices` | detaching leaves the daemon running, but denies every prompt that was open in the terminal |
| `LateIsLate`, `SurfacedBeforeDenied` | `GapServices` | a retry after a lost response is told that the prompt had closed before it; "no longer auto-denies a prompt before any client has surfaced it": one that waits behind another modal is denied |
| `OnlyShownSkipped` | `GapServices` | "excludes records it already has": also older ones it never had |
| `AnswerIsReply` | `GapServices` | "a notification or an unrelated response" is skipped: a request of the server with the same id is taken for the response |
| `RewindReachesStart`, `RollbackIsWhole` | `GapRewind` | "restoring each touched file to its state before the earliest reverted turn": not after an undo from under a turn in progress, whose checkpoint still holds what the undone turn wrote, and a later rewind writes that back; "so the on-disk state matches the applied:false we report": not when two servers edit at once, since they share one open checkpoint |
| `StartReturns`, `ReleaseReturns` | `GapMcpServers` | "one misconfigured server never blocks startup": a server that reads and never answers does, and one that leaves a tool call unanswered blocks the shutdown before the sessions are flushed |
| `SourceReleased`, `ExitReleases` | `GapMcpServers` | the same in detail: a server that the start registers after the handoff took the list is left running; "Release any MCP servers (terminates stdio subprocesses)" (main.go:309): not those of a core that a handoff has rebuilt |

## 7. Plan

What remains, in the order of its worth:

1. The registry as a module of its own: create, dispatch, rename, remove and
   continue with turns in flight, over `SessionStore`; property: a removed
   session does not come back by any path.
2. An abstract store, saved messages as one sequence per agent, that
   `SessionStore` implements while `damage`, `raced` and `reused` are empty.
3. `WatcherHost` over `WatcherManager` instead of beside it.
4. The SSH tunnel: redial against close, once it does more than that.
5. The pull of findings and watched files of the LSP client.

### Not modelled

Most of the repository's 72,000 lines are the terminal's layout and drawing
(`ui/tui`), the wire formats of model providers (`internal/model`), tools that
are functions of their arguments, configuration, statistics and their windows.
They have no protocol between actors and little state that outlives a call; a
model of them would repeat their code. That is why the models cover a small share
of all lines while they cover most of those where goroutines, processes or files
meet. The reasons are given component by component in `PROJECT.json`.

## 8. Running

    tlc -workers 2 -config Watchers.cfg MCWatcherManager
    tlc -workers 2 -config Services.cfg MCServices
    tlapm WatcherManagerProofs.tla

and in the same way for the other rows of section 3 (the module of each run is
in `PROJECT.json`) and the other proof modules. `GapAgent` goes with
`MCAgentLoop`, `GapWatcherById` with `MCWatcherManager`, `GapRemoteReconnect`
with `RemoteTurns`, `GapSubAgentsStop` with `SubAgents`, `GapMcpServers` with
`McpServers`, the others with `MCServices`. Every run takes less than three
minutes on two workers, `RewindReachesStart` four. Of the proof modules,
`ServicesProofs` and `AttachedProofs` take up to half an hour each, the others
some minutes.
