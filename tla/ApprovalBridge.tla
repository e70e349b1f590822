--------------------------- MODULE ApprovalBridge ---------------------------
(***************************************************************************)
(* The bridge from the blocking gates of a running turn (permission prompts  *)
(* and edit reviews) to remote clients: internal/server/approvals.go and the *)
(* Decide handler of approvals_handlers.go.                                  *)
(*                                                                           *)
(* A tool goroutine allocates an approval and waits; HTTP handlers, one per  *)
(* client here, list the pending approvals and post decisions; SSE streams   *)
(* come and go.  Sections under b.mu are one step each; the send and the     *)
(* receive on ap.decided, whose buffer holds one decision, take no lock.     *)
(* Time is counted in ticks of the waiter's ticker (pollInterval).           *)
(***************************************************************************)
EXTENDS Integers, FiniteSets, Sequences

CONSTANTS
    Approvals,          \* approval ids
    Permission,         \* those of kind "permission"; the others are edit reviews
    Clients,            \* remote clients; bound: each answers an approval once
    Decisions,          \* decisions a client may post
    Sticky,             \* DecisionAlways and DecisionAlwaysDeny
    Default,            \* the safe default: DecisionDeny, EditReject
    ConnectedTimeout,   \* configured bounds, in ticks; 0 means never
    UnattendedTimeout,
    RecentCap           \* recentCap

ASSUME ApprovalAssumption ==
    /\ Approvals # {}
    /\ Permission \subseteq Approvals
    /\ Sticky \subseteq Decisions
    /\ Default \in Decisions \ Sticky
    /\ ConnectedTimeout \in Nat
    /\ UnattendedTimeout \in Nat
    /\ RecentCap \in Nat \ {0}

NoClient == "no client"
ASSUME ClientAssumption == NoClient \notin Clients

VARIABLES
    streams,        \* clients with an open event stream (hub.clientCount)
    pending,        \* the b.pending map
    observed,       \* approvals whose observed flag was set
    recent,         \* recentOrder: ids of the recall ring, oldest first
    waiter,         \* the goroutine in wait, per approval
    decided,        \* the buffer of ap.decided
    handler,        \* the Decide handler serving each client
    saved,          \* answers given to the permission service's persist
    \* history
    trail,          \* what the last ticks of each waiter saw
    concluded,      \* approvals in the order they were removed
    posted,         \* clients that have answered
    acked,          \* sticky permission answers acknowledged to their client
    accepted,       \* answers put in the channel, in order
    unknown         \* approvals a client was told are not found

vars == <<streams, pending, observed, recent, waiter, decided, handler, saved,
          trail, concluded, posted, acked, accepted, unknown>>

Answer == [by : Clients, d : Decisions]
NoAnswer == [by |-> NoClient, d |-> Default]
WaiterPC == {"unborn", "waiting", "online", "offline", "answered", "expired",
             "removed", "done"}
WaiterType == [pc : WaiterPC, connectedFor : Nat, unattendedFor : Nat,
               result : Answer \cup {NoAnswer}]
HandlerPC == {"idle", "found", "missing", "sending", "refused"}
HandlerType == [pc : HandlerPC, ap : Approvals, d : Decisions]

AnyApproval == CHOOSE a \in Approvals : TRUE
Unborn == [pc |-> "unborn", connectedFor |-> 0, unattendedFor |-> 0,
           result |-> NoAnswer]
Idle == [pc |-> "idle", ap |-> AnyApproval, d |-> Default]

Init ==
    /\ streams = {}
    /\ pending = {}
    /\ observed = {}
    /\ recent = <<>>
    /\ waiter = [a \in Approvals |-> Unborn]
    /\ decided = [a \in Approvals |-> NoAnswer]
    /\ handler = [c \in Clients |-> Idle]
    /\ saved = [a \in Approvals |-> {}]
    /\ trail = [a \in Approvals |-> <<>>]
    /\ concluded = <<>>
    /\ posted = [a \in Approvals |-> {}]
    /\ acked = [a \in Approvals |-> {}]
    /\ accepted = [a \in Approvals |-> <<>>]
    /\ unknown = {}

-----------------------------------------------------------------------------
(* The bounds newApprovalBridge keeps.                                       *)

\* faulty variant: the configured bound is taken as it is
RawUnattended == UnattendedTimeout

\* an unattended prompt is given at least the grace of a connected one
UnattendedBound ==
    IF /\ ConnectedTimeout > 0 /\ UnattendedTimeout > 0
       /\ UnattendedTimeout < ConnectedTimeout
    THEN ConnectedTimeout ELSE UnattendedTimeout

Bounded == ConnectedTimeout > 0 \/ UnattendedTimeout > 0

\* how many ticks the history remembers
Memory == IF ConnectedTimeout > UnattendedTimeout THEN ConnectedTimeout
          ELSE IF UnattendedTimeout > 0 THEN UnattendedTimeout ELSE 1

-----------------------------------------------------------------------------
(* Clients' streams and polls.                                               *)

Connect(c) ==
    /\ c \notin streams
    /\ streams' = streams \cup {c}
    /\ UNCHANGED <<pending, observed, recent, waiter, decided, handler, saved,
                   trail, concluded, posted, acked, accepted, unknown>>

Disconnect(c) ==
    /\ c \in streams
    /\ streams' = streams \ {c}
    /\ UNCHANGED <<pending, observed, recent, waiter, decided, handler, saved,
                   trail, concluded, posted, acked, accepted, unknown>>

\* GET /approvals: list marks every pending approval observed
List ==
    /\ pending \ observed # {}
    /\ observed' = observed \cup pending
    /\ UNCHANGED <<streams, pending, recent, waiter, decided, handler, saved,
                   trail, concluded, posted, acked, accepted, unknown>>

-----------------------------------------------------------------------------
(* The waiting goroutine.                                                    *)

WaiterStep(a, pc) == waiter' = [waiter EXCEPT ![a].pc = pc]

\* alloc, up to wait's loop (only the waiter itself removes its approval)
Alloc(a) ==
    /\ waiter[a].pc = "unborn"
    /\ pending' = pending \cup {a}
    /\ WaiterStep(a, "waiting")
    /\ UNCHANGED <<streams, observed, recent, decided, handler, saved, trail,
                   concluded, posted, acked, accepted, unknown>>

\* faulty variant: a decision is looked for only before the first tick
TakenBeforeTicks(a) == decided[a] # NoAnswer /\ trail[a] = <<>>

\* case d := <-ap.decided
Taken(a) == decided[a] # NoAnswer

Receive(a) ==
    /\ waiter[a].pc = "waiting"
    /\ Taken(a)
    /\ waiter' = [waiter EXCEPT ![a] = [@ EXCEPT !.pc = "answered",
                                                 !.result = decided[a]]]
    /\ decided' = [decided EXCEPT ![a] = NoAnswer]
    /\ UNCHANGED <<streams, pending, observed, recent, handler, saved, trail,
                   concluded, posted, acked, accepted, unknown>>

\* case now := <-ticker.C: clientCount is read under the hub's lock
Tick(a) ==
    /\ Bounded
    /\ waiter[a].pc = "waiting"
    /\ WaiterStep(a, IF streams # {} THEN "online" ELSE "offline")
    /\ UNCHANGED <<streams, pending, observed, recent, decided, handler, saved,
                   trail, concluded, posted, acked, accepted, unknown>>

\* faulty variant: a prompt no client has fetched counts as attended
ConnectedIsEnough(a) == waiter[a].pc = "online"

\* isObserved is read next, under b.mu
Attended(a) == waiter[a].pc = "online" /\ a \in observed

\* faulty variant: a clock that is not charged keeps its value
ChargeWithoutReset(w, attended) ==
    IF attended THEN [w EXCEPT !.connectedFor = @ + 1]
                ELSE [w EXCEPT !.unattendedFor = @ + 1]

\* faulty variant: the clock of an unattended prompt counts down
ChargeDown(w, attended) ==
    IF attended THEN [w EXCEPT !.connectedFor = @ + 1, !.unattendedFor = 0]
                ELSE [w EXCEPT !.unattendedFor = @ - 1, !.connectedFor = 0]

\* faulty variant: a prompt waiting for its first poll is charged to no clock
ChargeAttendedOnly(w, attended) ==
    IF attended THEN [w EXCEPT !.connectedFor = @ + 1, !.unattendedFor = 0] ELSE w

Charge(w, attended) ==
    IF attended THEN [w EXCEPT !.connectedFor = @ + 1, !.unattendedFor = 0]
                ELSE [w EXCEPT !.unattendedFor = @ + 1, !.connectedFor = 0]

Reached(clock, bound) == bound > 0 /\ clock >= bound

\* a clock that nothing bounds may be forgotten
Relevant(w) ==
    [w EXCEPT !.connectedFor = IF ConnectedTimeout > 0 THEN @ ELSE 0,
              !.unattendedFor = IF UnattendedTimeout > 0 THEN @ ELSE 0]

Remember(t, x) ==
    IF Len(t) < Memory THEN Append(t, x) ELSE Append(Tail(t), x)

ChargeTick(a) ==
    LET w == Charge(waiter[a], Attended(a))
        expired == IF Attended(a) THEN Reached(w.connectedFor, ConnectedTimeout)
                                  ELSE Reached(w.unattendedFor, UnattendedBound)
    IN
    /\ waiter[a].pc \in {"online", "offline"}
    /\ waiter' = [waiter EXCEPT ![a] =
                    [Relevant(w) EXCEPT !.pc = IF expired THEN "expired" ELSE "waiting"]]
    /\ trail' = [trail EXCEPT ![a] = Remember(@, Attended(a))]
    /\ UNCHANGED <<streams, pending, observed, recent, decided, handler, saved,
                   concluded, posted, acked, accepted, unknown>>

\* faulty variant: the approval is dropped without a trace
RememberNothing(a) == recent

\* faulty variant: the ring makes room before it is full
RememberOneLess(a) ==
    IF Len(recent) < RecentCap - 1 THEN Append(recent, a)
    ELSE IF recent = <<>> THEN <<>> ELSE Append(Tail(recent), a)

\* rememberLocked
Remembered(a) ==
    IF Len(recent) < RecentCap THEN Append(recent, a) ELSE Append(Tail(recent), a)

\* the deferred remove: the ring and the map change under one lock
Remove(a) ==
    /\ waiter[a].pc \in {"answered", "expired"}
    /\ pending' = pending \ {a}
    /\ recent' = Remembered(a)
    /\ concluded' = Append(concluded, a)
    /\ WaiterStep(a, "removed")
    /\ UNCHANGED <<streams, observed, decided, handler, saved, trail, posted,
                   acked, accepted, unknown>>

StickyAnswer(a, x) == a \in Permission /\ x.d \in Sticky
Persisted(a, x) == IF StickyAnswer(a, x) THEN saved[a] \cup {x} ELSE saved[a]

\* CheckWithContext persists a sticky decision it was given
PersistedInTime(a) == Persisted(a, waiter[a].result)

\* the gate returns to the tool
Return(a) ==
    /\ waiter[a].pc = "removed"
    /\ saved' = [saved EXCEPT ![a] = PersistedInTime(a)]
    /\ WaiterStep(a, "done")
    /\ UNCHANGED <<streams, pending, observed, recent, decided, handler, trail,
                   concluded, posted, acked, accepted, unknown>>

-----------------------------------------------------------------------------
(* POST /approvals/:aid/decision.                                            *)

Posted(c) == [by |-> c, d |-> handler[c].d]
HandlerStep(c, pc) == handler' = [handler EXCEPT ![c].pc = pc]

\* the handler returns 200; the client knows its answer was taken
Reply(c) ==
    LET a == handler[c].ap IN
    /\ handler' = [handler EXCEPT ![c] = Idle]
    /\ acked' = IF StickyAnswer(a, Posted(c))
                THEN [acked EXCEPT ![a] = @ \cup {Posted(c)}] ELSE acked

\* Decide's get; a client answers what a client has seen
Decide(c, a, d) ==
    /\ handler[c].pc = "idle"
    /\ a \in observed
    /\ c \notin posted[a]
    /\ posted' = [posted EXCEPT ![a] = @ \cup {c}]
    /\ handler' = [handler EXCEPT ![c] =
                     [pc |-> IF a \in pending THEN "found" ELSE "missing",
                      ap |-> a, d |-> d]]
    /\ UNCHANGED <<streams, pending, observed, recent, waiter, decided, saved,
                   trail, concluded, acked, accepted, unknown>>

\* resolve's get
Lookup(c) ==
    /\ handler[c].pc = "found"
    /\ HandlerStep(c, IF handler[c].ap \in pending THEN "sending" ELSE "refused")
    /\ UNCHANGED <<streams, pending, observed, recent, waiter, decided, saved,
                   trail, concluded, posted, acked, accepted, unknown>>

\* faulty variant: a decision replaces the one waiting in the channel
BufferOverwritten(a) == TRUE

\* ap.decided <- d does not block
BufferFree(a) == decided[a] = NoAnswer

\* resolve's select: send, or the default branch
Send(c) ==
    LET a == handler[c].ap IN
    /\ handler[c].pc = "sending"
    /\ IF BufferFree(a)
       THEN /\ decided' = [decided EXCEPT ![a] = Posted(c)]
            /\ accepted' = [accepted EXCEPT ![a] = Append(@, Posted(c))]
            /\ Reply(c)
       ELSE /\ HandlerStep(c, "refused")
            /\ UNCHANGED <<decided, accepted, acked>>
    /\ UNCHANGED <<streams, pending, observed, recent, waiter, saved, trail,
                   concluded, posted, unknown>>

\* faulty variant: the loser of a race is acknowledged and forgotten
LoserForgotten(c) == saved[handler[c].ap]

\* a sticky answer that lost the race is persisted by the handler
LoserPersisted(c) == Persisted(handler[c].ap, Posted(c))

\* resolve returned false
Refused(c) ==
    /\ handler[c].pc = "refused"
    /\ saved' = [saved EXCEPT ![handler[c].ap] = LoserPersisted(c)]
    /\ Reply(c)
    /\ UNCHANGED <<streams, pending, observed, recent, waiter, decided, trail,
                   concluded, posted, accepted, unknown>>

\* recall found the removed approval: "late"
Late(c) ==
    LET a == handler[c].ap IN
    /\ handler[c].pc = "missing"
    /\ \E i \in DOMAIN recent : recent[i] = a
    /\ saved' = [saved EXCEPT ![a] = Persisted(a, Posted(c))]
    /\ Reply(c)
    /\ UNCHANGED <<streams, pending, observed, recent, waiter, decided, trail,
                   concluded, posted, accepted, unknown>>

\* recall found nothing: 404
NotFound(c) ==
    LET a == handler[c].ap IN
    /\ handler[c].pc = "missing"
    /\ \A i \in DOMAIN recent : recent[i] # a
    /\ unknown' = unknown \cup {a}
    /\ handler' = [handler EXCEPT ![c] = Idle]
    /\ UNCHANGED <<streams, pending, observed, recent, waiter, decided, saved,
                   trail, concluded, posted, acked, accepted>>

-----------------------------------------------------------------------------
WaiterWork(a) == Receive(a) \/ ChargeTick(a) \/ Remove(a) \/ Return(a)

HandlerWork(c) == Lookup(c) \/ Send(c) \/ Refused(c) \/ Late(c) \/ NotFound(c)

Next ==
    \/ List
    \/ \E c \in Clients : Connect(c) \/ Disconnect(c) \/ HandlerWork(c)
    \/ \E a \in Approvals : Alloc(a) \/ Tick(a) \/ WaiterWork(a)
    \/ \E c \in Clients, a \in Approvals, d \in Decisions : Decide(c, a, d)

Spec == Init /\ [][Next]_vars

(* Goroutines run and tickers tick; Go's select picks at random, so a wait    *)
(* that finds a decision again and again takes it (SF).  Nothing is asked of *)
(* the clients.                                                              *)
Fairness ==
    /\ \A a \in Approvals : /\ WF_vars(WaiterWork(a)) /\ WF_vars(Tick(a))
                            /\ SF_vars(Receive(a))
    /\ \A c \in Clients : WF_vars(HandlerWork(c))

FairSpec == Spec /\ Fairness

-----------------------------------------------------------------------------
(* Properties.                                                               *)

\* Every variable has its type.
TypeOK ==
    /\ streams \subseteq Clients
    /\ pending \subseteq Approvals
    /\ observed \subseteq Approvals
    /\ recent \in Seq(Approvals)
    /\ waiter \in [Approvals -> WaiterType]
    /\ decided \in [Approvals -> Answer \cup {NoAnswer}]
    /\ handler \in [Clients -> HandlerType]
    /\ saved \in [Approvals -> SUBSET Answer]
    /\ trail \in [Approvals -> Seq(BOOLEAN)]
    /\ concluded \in Seq(Approvals)
    /\ posted \in [Approvals -> SUBSET Clients]
    /\ acked \in [Approvals -> SUBSET Answer]
    /\ accepted \in [Approvals -> Seq(Answer)]
    /\ unknown \subseteq Approvals

\* wait: a prompt is denied by the clock only after its bound's worth of ticks
\* that all saw the same state: attended for ConnectedTimeout, unattended for the
\* unattended bound.  With ConnectedTimeout = 0 an attended prompt waits for ever.
ExpiryJustified ==
    \A a \in Approvals : waiter[a].pc = "expired" =>
        LET n == Len(trail[a])
            bound == IF trail[a][n] THEN ConnectedTimeout ELSE UnattendedTimeout
        IN /\ bound > 0
           /\ n >= bound
           /\ \A i \in (n - bound + 1) .. n : trail[a][i] = trail[a][n]

\* newApprovalBridge: an unattended prompt never dies sooner than a connected one
\* would, whatever was configured.
NeverDiesEarly ==
    \A a \in Approvals :
        waiter[a].pc = "expired" => Len(trail[a]) >= ConnectedTimeout

\* wait: a prompt no client has fetched is denied only by the unattended bound,
\* however long a client has been connected.
UnpresentedKept ==
    \A a \in Approvals : waiter[a].pc = "expired" /\ a \notin observed =>
        UnattendedTimeout > 0 /\ Len(trail[a]) >= UnattendedTimeout

\* resolve: of several answers the one the channel took first is the one the
\* tool gets.
FirstAnswerWins ==
    \A a \in Approvals : waiter[a].result # NoAnswer =>
        accepted[a] # <<>> /\ waiter[a].result = Head(accepted[a])

\* Decide: whatever the clients and the clock do, at most one acknowledged sticky
\* answer per prompt is not persisted, the one left in the channel that nobody
\* reads any more.
AtMostOneGrantLost ==
    \A a \in Approvals : waiter[a].pc = "done" =>
        Cardinality(acked[a] \ saved[a]) <= 1

\* recall: a client that was shown a prompt is told 404 only if recentCap prompts
\* were concluded after it; there is no moment between pending and recent.
KnownUntilEvicted ==
    \A a \in unknown :
        \E i \in DOMAIN concluded :
            concluded[i] = a /\ Len(concluded) - i >= RecentCap

\* remove: an approval is in the map or in the ring, never in both, and the ring
\* holds the latest recentCap conclusions in their order.
RingIsRecent ==
    /\ \A i \in DOMAIN recent : recent[i] \notin pending
    /\ LET n == Len(concluded)
           k == IF n < RecentCap THEN n ELSE RecentCap
       IN recent = SubSeq(concluded, n - k + 1, n)

\* wait: with both bounds set, a prompt ends once the clients stay or stay away.
PromptsEnd ==
    \A a \in Approvals :
        (<>[](streams = {}) \/ <>[](streams # {}))
            => (waiter[a].pc = "waiting" ~> waiter[a].pc = "done")

\* A decision in the channel ends the prompt, with or without bounds.
AnswerReleases ==
    \A a \in Approvals :
        (waiter[a].pc = "waiting" /\ decided[a] # NoAnswer) ~> waiter[a].pc = "done"

-----------------------------------------------------------------------------
(* What the comments say and the code does not do.                           *)

\* Decide: "so the user's answer is never silently lost" (an acknowledged sticky
\* permission grant is persisted by the time the prompt is over).
GrantNeverLost ==
    \A a \in Approvals : waiter[a].pc = "done" => acked[a] \subseteq saved[a]
=============================================================================
