------------------------------ MODULE SubAgents ------------------------------
(***************************************************************************)
(* The sub-agents of a session, internal/agent: limiter.go, agent.go and the *)
(* second half of user_session.go, with the tools of gogent.go that drive    *)
(* them.  An agent delegates in three ways.  A batch of one-shot agents      *)
(* blocks its caller; those that find no free place in the process-wide      *)
(* limiter run inline.  An interactive agent runs on its own, may stop to    *)
(* ask and reports to the coordinator through a bounded channel.  A          *)
(* background agent runs on its own and leaves its result for the next       *)
(* request.                                                                  *)
(*                                                                           *)
(* A worker is one agent from its launch to its end; the loop it runs is     *)
(* AgentLoop and stands here for one step that returns some outcome.  Names  *)
(* are taken to be distinct.                                                 *)
(***************************************************************************)
EXTENDS Integers, Sequences, FiniteSets, FiniteSetsExt

CONSTANTS
    Root, OneShot, Interactive, Background,   \* the root agent; workers by kind
    MaxConcurrent,  \* size of the shared SubAgentLimiter
    MaxSubAgents,   \* running children of one parent
    MaxDepth,       \* depth of the tree
    EventCap,       \* capacity of agentEvents
    InboxCap,       \* capacity of an inbox
    None,           \* no worker
    MaxWorkers, BatchMax, MaxAsks  \* bounds: workers in all, calls in a batch, questions
                                   \* of a worker

Workers == OneShot \cup Interactive \cup Background
Agents == Workers \cup {Root}
Detached == Interactive \cup Background

ASSUME WorkersAssumption ==
    /\ IsFiniteSet(Workers)
    /\ OneShot \cap Detached = {} /\ Interactive \cap Background = {}
    /\ Root \notin Workers /\ None \notin Agents
    /\ {MaxConcurrent, EventCap} \subseteq Nat

VARIABLES
    slots,      \* places taken in the limiter
    pc, parent, \* of each worker
    held,       \* workers that acquired a place
    done,       \* closed done channels
    stop,       \* agents whose running loop is cancelled
    inbox, asks,
    todo, inline,       \* an agent's batch: calls not yet started, the one run inline
    events, pending,    \* agentEvents and pendingTerminal
    look,               \* the coordinator in NextAgentEvent
    background,         \* s.background
    stopped,            \* Stop was called
    \* history
    heard,              \* ends of a worker the coordinator received
    doomed              \* workers whose done channel Stop, StopAgent or
                        \* TerminateInteractiveAgent closed

tree == <<pc, parent, held, done, stop, slots>>
talk == <<inbox, asks, events, pending, look, heard>>
batch == <<todo, inline>>
vars == <<tree, talk, batch, background, stopped, doomed>>

PC == {"unborn", "admitted", "counted", "added", "top", "running", "waiting",
       "answered", "finishing", "spill", "releasing", "removing", "idle", "ended"}

Init ==
    /\ slots = 0 /\ held = {} /\ done = {} /\ stop = {}
    /\ pc = [w \in Workers |-> "unborn"]
    /\ parent = [w \in Workers |-> None]
    /\ inbox = [w \in Workers |-> 0]
    /\ asks = [w \in Workers |-> 0]
    /\ todo = [a \in Agents |-> 0]
    /\ inline = [a \in Agents |-> None]
    /\ events = <<>> /\ pending = <<>> /\ look = "free"
    /\ heard = [w \in Interactive |-> 0]
    /\ background = {}
    /\ stopped = FALSE /\ doomed = {}

-----------------------------------------------------------------------------
(* The tree.                                                                 *)

InTree(w) == pc[w] \notin {"unborn", "admitted", "counted"} /\ parent[w] # None

\* completed or failed
Terminal(w) == pc[w] \in {"spill", "releasing", "removing", "idle", "ended"}

\* the status an interactive worker shows while it asks, until its loop goes on
Waiting(w) == pc[w] \in {"waiting", "answered"}

ActiveSubAgents(p) == {w \in Workers : InTree(w) /\ parent[w] = p /\ ~Terminal(w)}

\* the agent and those above it
Lineage(a) ==
    LET up[k \in 0 .. MaxDepth] ==
            IF k = 0 THEN a
            ELSE IF up[k - 1] = Root THEN Root ELSE parent[up[k - 1]]
    IN {up[k] : k \in 0 .. MaxDepth}

\* the agents a one-shot worker inherits its context from: up to the first detached one
Above(w) == {a \in Lineage(w) : Lineage(w) \cap Detached \subseteq Lineage(a)}

\* an agent waits for its one-shot agents
InBatch(a) ==
    \/ todo[a] > 0 \/ inline[a] # None
    \/ \E w \in OneShot : parent[w] = a /\ pc[w] \notin {"unborn", "ended"}

\* an agent whose loop is between two steps can call a tool
CanCall(a) ==
    /\ ~InBatch(a)
    /\ IF a = Root THEN ~stopped /\ look = "free" ELSE pc[a] = "running" /\ a \notin stop

Goto(w, place) == pc' = [pc EXCEPT ![w] = place]

-----------------------------------------------------------------------------
(* The limiter.                                                              *)

tryAcquire == slots < MaxConcurrent

Acquire(w) == slots' = slots + 1 /\ held' = held \cup {w}

\* faulty variant: every call gives a place back, also one that ran inline
ReleaseAny(w) == slots' = (IF slots > 0 THEN slots - 1 ELSE 0) /\ held' = held \ {w}

\* the slot is given back when one is held
Release(w) ==
    /\ slots' = IF w \in held /\ slots > 0 THEN slots - 1 ELSE slots
    /\ held' = held \ {w}

-----------------------------------------------------------------------------
(* Launching.                                                                *)

\* the bound on workers, those a batch still has to start included
Room(n) == Cardinality({w \in Workers : pc[w] # "unborn"})
             + MapThenSumSet(LAMBDA a : todo[a], Agents) + n <= MaxWorkers

\* the next worker of a kind; before they are launched they are all alike
Fresh(kind) == CHOOSE w \in kind : pc[w] = "unborn"

\* spawn_subagent with several tasks: a batch of one-shot agents
StartBatch(a, n) ==
    /\ CanCall(a) /\ Room(n)
    /\ todo' = [todo EXCEPT ![a] = n]
    /\ stop' = stop \ {a}
    /\ UNCHANGED <<pc, parent, held, done, slots, talk, inline, background, stopped, doomed>>

\* faulty variant: a call without a place waits for one
WaitsForPlace(a) == FALSE

RunsInline(a) == ~tryAcquire

\* RunSubAgentsBounded: with a place the call gets a goroutine, without one it runs
\* inline, and the next call waits for it
StartCall(a) ==
    /\ todo[a] > 0 /\ inline[a] = None
    /\ \E w \in OneShot : pc[w] = "unborn"
    /\ todo' = [todo EXCEPT ![a] = @ - 1]
    /\ LET w == Fresh(OneShot)
       IN /\ parent' = [parent EXCEPT ![w] = a]
          /\ Goto(w, "admitted")
          /\ \/ tryAcquire /\ Acquire(w) /\ UNCHANGED inline
             \/ /\ RunsInline(a)
                /\ inline' = [inline EXCEPT ![a] = w]
                /\ UNCHANGED <<slots, held>>
    /\ UNCHANGED <<done, stop, talk, background, stopped, doomed>>

\* spawn_subagent with one task: SpawnSubAgent runs it in the caller's goroutine
SpawnSubAgent(a) ==
    /\ CanCall(a) /\ Room(1)
    /\ \E w \in OneShot : pc[w] = "unborn"
    /\ LET w == Fresh(OneShot)
       IN /\ parent' = [parent EXCEPT ![w] = a]
          /\ inline' = [inline EXCEPT ![a] = w]
          /\ Goto(w, "admitted")
    /\ stop' = stop \ {a}
    /\ UNCHANGED <<held, done, slots, talk, todo, background, stopped, doomed>>

\* launch_agent and spawn_subagent{async}: without a place the launch is refused
Launch(a, kind) ==
    /\ CanCall(a) /\ Room(1)
    /\ tryAcquire
    /\ \E w \in kind : pc[w] = "unborn"
    /\ LET w == Fresh(kind)
       IN /\ Acquire(w)
          /\ parent' = [parent EXCEPT ![w] = a]
          /\ Goto(w, "admitted")
    /\ UNCHANGED <<done, stop, talk, batch, background, stopped, doomed>>

TooMany(w) == Cardinality(ActiveSubAgents(parent[w])) >= MaxSubAgents

TooDeep(w) == Cardinality(Lineage(parent[w])) > MaxDepth

\* newSubAgent refuses; the caller gives its place back
Refuse(w) ==
    /\ pc[w] = "admitted" /\ (TooMany(w) \/ TooDeep(w))
    /\ IF w \in OneShot
       THEN Goto(w, "idle") /\ UNCHANGED <<slots, held>>
       ELSE Goto(w, "ended") /\ Release(w)
    /\ parent' = [parent EXCEPT ![w] = IF w \in OneShot THEN @ ELSE None]
    /\ UNCHANGED <<done, stop, talk, batch, background, stopped, doomed>>

\* newSubAgent: the children are counted, and only later the child is added
Count(w) ==
    /\ pc[w] = "admitted" /\ ~TooMany(w) /\ ~TooDeep(w)
    /\ Goto(w, "counted")
    /\ UNCHANGED <<parent, held, done, stop, slots, talk, batch, background, stopped, doomed>>

AddSubAgent(w) ==
    /\ pc[w] = "counted"
    /\ Goto(w, IF w \in OneShot THEN "top" ELSE "added")
    /\ UNCHANGED <<parent, held, done, stop, slots, talk, batch, background, stopped, doomed>>

\* s.interactive or addBackground
Register(w) ==
    /\ pc[w] = "added"
    /\ background' = IF w \in Background THEN background \cup {w} ELSE background
    /\ Goto(w, "top")
    /\ UNCHANGED <<parent, held, done, stop, slots, talk, batch, stopped, doomed>>

-----------------------------------------------------------------------------
(* A worker.                                                                 *)

\* runInteractive: a terminated worker ends at the top of its loop; else runLoop
\* publishes its cancel function.  The context of a detached worker ends with its
\* done channel, that of a one-shot worker with its parent's loop.
EnterLoop(w) ==
    /\ pc[w] \in {"top", "answered"}
    /\ IF w \in Interactive /\ w \in done
       THEN Goto(w, "finishing") /\ UNCHANGED stop
       ELSE /\ Goto(w, "running")
            /\ stop' = IF w \in done \/ (w \in OneShot /\ parent[w] \in stop)
                       THEN stop \cup {w} ELSE stop
    /\ UNCHANGED <<parent, held, done, slots, talk, batch, background, stopped, doomed>>

\* runLoop returns an answer or an error
LoopEnds(w) ==
    /\ pc[w] = "running"
    /\ ~InBatch(w)
    /\ Goto(w, IF w \in OneShot THEN "idle" ELSE "finishing")
    /\ stop' = stop \ {w}
    /\ UNCHANGED <<parent, held, done, slots, talk, batch, background, stopped, doomed>>

Event(w, type) == [from |-> w, type |-> type]

Push(event) == events' = Append(events, event)

\* the reply begins with CLARIFY; pushAgentEvent drops a question when the channel is
\* full
Ask(w) ==
    /\ w \in Interactive /\ pc[w] = "running" /\ w \notin stop
    /\ ~InBatch(w)
    /\ asks[w] < MaxAsks
    /\ asks' = [asks EXCEPT ![w] = @ + 1]
    /\ IF Len(events) < EventCap THEN Push(Event(w, "clarify")) ELSE UNCHANGED events
    /\ Goto(w, "waiting")
    /\ UNCHANGED <<parent, held, done, stop, slots, inbox, pending, look, heard, batch,
                   background, stopped, doomed>>

TakeAnswer(w) ==
    /\ pc[w] = "waiting" /\ inbox[w] > 0
    /\ inbox' = [inbox EXCEPT ![w] = @ - 1]
    /\ Goto(w, "answered")
    /\ UNCHANGED <<parent, held, done, stop, slots, asks, events, pending, look,
                   heard, batch, background, stopped, doomed>>

GiveUp(w) ==
    /\ pc[w] = "waiting" /\ w \in done
    /\ Goto(w, "finishing")
    /\ UNCHANGED <<parent, held, done, stop, slots, talk, batch, background, stopped, doomed>>

\* faulty variant: a terminal event is dropped like a question
Dropped(w) == "releasing"

\* a terminal event that finds the channel full goes to pendingTerminal
OnFull(w) == "spill"

\* finishBackground queues a result (see AgentLoop), finishInteractive an event
Finish(w) ==
    /\ pc[w] = "finishing"
    /\ IF w \in Background
       THEN Goto(w, "releasing") /\ UNCHANGED events
       ELSE IF Len(events) < EventCap
       THEN Push(Event(w, "terminal")) /\ Goto(w, "releasing")
       ELSE Goto(w, OnFull(w)) /\ UNCHANGED events
    /\ UNCHANGED <<parent, held, done, stop, slots, inbox, asks, pending, look, heard,
                   batch, background, stopped, doomed>>

Spill(w) ==
    /\ pc[w] = "spill"
    /\ pending' = Append(pending, Event(w, "terminal"))
    /\ Goto(w, "releasing")
    /\ UNCHANGED <<parent, held, done, stop, slots, inbox, asks, events, look,
                   heard, batch, background, stopped, doomed>>

\* the deferred release of a detached worker
GiveBack(w) ==
    /\ pc[w] = "releasing"
    /\ Release(w)
    /\ Goto(w, IF w \in Background THEN "removing" ELSE "ended")
    /\ UNCHANGED <<parent, done, stop, talk, batch, background, stopped, doomed>>

RemoveBackground(w) ==
    /\ pc[w] = "removing"
    /\ background' = background \ {w}
    /\ Goto(w, "ended")
    /\ UNCHANGED <<parent, held, done, stop, slots, talk, batch, stopped, doomed>>

\* a call of RunSubAgentsBounded is over
CallEnds(w) ==
    /\ w \in OneShot /\ pc[w] = "idle"
    /\ Release(w)
    /\ inline' = [a \in Agents |-> IF inline[a] = w THEN None ELSE inline[a]]
    /\ Goto(w, "ended")
    /\ UNCHANGED <<parent, done, stop, talk, todo, background, stopped, doomed>>

-----------------------------------------------------------------------------
(* The coordinator.                                                          *)

Hear(event) == [w \in Interactive |->
                  heard[w] + (IF event = Event(w, "terminal") THEN 1 ELSE 0)]

\* NextAgentEvent takes from the channel, then from pendingTerminal, then waits for
\* the channel or the time-out
Receive ==
    /\ IF look = "free" THEN CanCall(Root) ELSE look = "blocked"
    /\ events # <<>>
    /\ heard' = Hear(Head(events))
    /\ events' = Tail(events)
    /\ look' = "free"
    /\ UNCHANGED <<tree, inbox, asks, pending, batch, background, stopped, doomed>>

LookPending ==
    /\ CanCall(Root) /\ events = <<>>
    /\ look' = "drained"
    /\ UNCHANGED <<tree, inbox, asks, events, pending, heard, batch, background,
                   stopped, doomed>>

\* faulty variant: what was spilled is not looked at again
Unseen == <<>>

\* popPendingTerminal
Spilled == pending

PopPending ==
    /\ look = "drained"
    /\ IF Spilled # <<>>
       THEN /\ heard' = Hear(Head(pending))
            /\ pending' = Tail(pending)
            /\ look' = "free"
       ELSE look' = "blocked" /\ UNCHANGED <<pending, heard>>
    /\ UNCHANGED <<tree, inbox, asks, events, batch, background, stopped, doomed>>

TimeOut ==
    /\ look = "blocked"
    /\ look' = "free"
    /\ UNCHANGED <<tree, inbox, asks, events, pending, heard, batch, background,
                   stopped, doomed>>

\* SendToInteractiveAgent, by an agent that found the worker waiting
Send(w) ==
    /\ CanCall(Root) /\ w \in Interactive
    /\ Waiting(w)
    /\ inbox[w] < InboxCap
    /\ inbox' = [inbox EXCEPT ![w] = @ + 1]
    /\ UNCHANGED <<tree, asks, events, pending, look, heard, batch, background, stopped,
                   doomed>>

\* the agents whose loops run and get their context from a cancelled one; of the
\* root's turn only the batch it waits for matters
Cancelled(agents) ==
    {w \in Workers : pc[w] = "running" /\
        (w \in agents \/ (w \in OneShot /\ Above(w) \cap agents # {}))}
    \cup {a \in agents \cap {Root} : InBatch(a)}

\* a closed done channel ends the loop that runs, and the one-shot loops under it
Close(ws) ==
    /\ done' = done \cup ws
    /\ doomed' = doomed \cup ws

TerminateInteractiveAgent(w) ==
    /\ CanCall(Root) /\ w \in Interactive
    /\ InTree(w) /\ pc[w] # "added"
    /\ w \notin done
    /\ Close({w})
    /\ stop' = stop \cup Cancelled({w})
    /\ UNCHANGED <<pc, parent, held, slots, talk, batch, background, stopped>>

\* faulty variant: only the loops that run are cancelled, no channel is closed
NotClosed == {}

\* Stop: the background workers registered now
ToClose == background

\* Stop, when the session is removed: every loop that runs is cancelled
Stop ==
    /\ ~stopped
    /\ stopped' = TRUE
    /\ done' = done \cup ToClose
    /\ doomed' = doomed \cup background
    /\ stop' = stop \cup Cancelled(Agents)
    /\ UNCHANGED <<pc, parent, held, slots, talk, batch, background>>

\* StopAgent: the background workers under the agent, and its own loop
StopAgent(a) ==
    /\ a # Root => InTree(a) /\ pc[a] = "running" /\ a \notin stop
    /\ LET under == {w \in background : a \in Lineage(w)}
       IN /\ Close(under)
          /\ stop' = stop \cup Cancelled(under \cup {a})
          /\ <<done', stop'>> # <<done, stop>>
    /\ UNCHANGED <<pc, parent, held, slots, talk, batch, background, stopped>>

-----------------------------------------------------------------------------
WorkerStep(w) ==
    \/ Refuse(w) \/ Count(w) \/ AddSubAgent(w) \/ Register(w)
    \/ EnterLoop(w) \/ TakeAnswer(w) \/ GiveUp(w)
    \/ Finish(w) \/ Spill(w) \/ GiveBack(w) \/ RemoveBackground(w) \/ CallEnds(w)

Wait == Receive \/ LookPending \/ PopPending \/ TimeOut

Next ==
    \/ \E a \in Agents :
        \/ \E n \in 1 .. BatchMax : StartBatch(a, n)
        \/ \E kind \in {Interactive, Background} : Launch(a, kind)
        \/ StartCall(a) \/ SpawnSubAgent(a)
        \/ StopAgent(a)
    \/ \E w \in Workers :
        WorkerStep(w) \/ LoopEnds(w) \/ Ask(w) \/ Send(w) \/ TerminateInteractiveAgent(w)
    \/ Wait \/ Stop

Spec == Init /\ [][Next]_vars

(* Goroutines run; a cancelled loop returns, and so does one whose children   *)
(* have ended (the turn loop ends, see AgentLoop).  The coordinator goes on   *)
(* waiting for events as long as the session is there.                        *)
FairSpec ==
    /\ Spec
    /\ \A w \in Workers :
        WF_vars(WorkerStep(w) \/ (LoopEnds(w) /\ (w \in OneShot \/ w \in stop)))
    /\ \A a \in Agents : WF_vars(StartCall(a))
    /\ SF_vars(Receive) /\ SF_vars(LookPending) /\ WF_vars(PopPending)
    /\ WF_vars(TimeOut)

-----------------------------------------------------------------------------
TypeOK ==
    /\ slots \in 0 .. MaxConcurrent
    /\ pc \in [Workers -> PC] /\ parent \in [Workers -> Agents \cup {None}]
    /\ held \subseteq Workers /\ done \subseteq Detached /\ stop \subseteq Agents
    /\ inbox \in [Workers -> 0 .. InboxCap]
    /\ asks \in [Workers -> 0 .. MaxAsks]
    /\ todo \in [Agents -> 0 .. BatchMax] /\ inline \in [Agents -> OneShot \cup {None}]
    /\ look \in {"free", "drained", "blocked"}
    /\ background \subseteq Background
    /\ stopped \in BOOLEAN /\ doomed \subseteq Detached

Past(w) == pc[w] \in {"releasing", "ended"}

\* Whatever launches are refused, calls run inline and workers are terminated, the
\* limiter counts exactly the workers that took a place and have not ended: a
\* refused launch gives its place back, an inline call gives back none.
SlotsExact ==
    /\ slots = Cardinality(held) /\ slots <= MaxConcurrent
    /\ \A w \in held : pc[w] \notin {"unborn", "ended"}
    /\ \A w \in Detached :
        pc[w] \notin {"unborn", "removing", "idle", "ended"} => w \in held

Ends(w, seq) == Cardinality({i \in DOMAIN seq : seq[i] = Event(w, "terminal")})

\* The end of an interactive worker is reported once, however full the channel of
\* events is: it lies in the channel, in pendingTerminal, or was heard by the coordinator
\* (pushAgentEvent, "Terminal events are never dropped").
EndReportedOnce ==
    \A w \in Interactive :
        Ends(w, events) + Ends(w, pending) + heard[w]
        = IF Past(w) /\ parent[w] # None THEN 1 ELSE 0

\* A coordinator that goes on waiting for events hears of every end.
EndIsHeard ==
    []<>(stopped \/ \A w \in Interactive : Past(w) /\ parent[w] # None => heard[w] = 1)

\* A worker whose done channel was closed ends, whatever it was doing then: between
\* registration and loop, in a request, before or in its wait for an answer.
DoomedEnds == []<>(\A w \in doomed : pc[w] = "ended")

\* A batch ends, also when every place is taken and its workers have batches of their
\* own: "tasks that cannot get a slot run inline ... never deadlocks under recursion".
BatchesEnd == []<>(\A a \in Agents : ~InBatch(a))

\* "Stop cancels every in-flight task loop in the session": a worker that was waiting for
\* an answer when Stop was called ends.
StopEndsAll == \A w \in Detached : (stopped /\ Waiting(w)) ~> (pc[w] = "ended")

=============================================================================
