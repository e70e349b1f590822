------------------------------ MODULE HubFeed -------------------------------
(***************************************************************************)
(* The event hub of the daemon (server/hub.go) as far as the global stream *)
(* goes: turns that end and watchers that complete raise notifications     *)
(* (server/notify.go) while clients open, read and leave GET /events       *)
(* (server/events.go).                                                     *)
(*                                                                         *)
(* A turn's last event is sent to a snapshot of the subscribers, outside   *)
(* the lock; its notification follows and is sent, or kept in the ring,    *)
(* under the lock.  A notification is a model value; titles, reasons and   *)
(* the per-session streams, which carry no notifications, are left out.    *)
(***************************************************************************)
EXTENDS Integers, Sequences, FiniteSets

CONSTANTS
  Notes,        \* bound: notifications, each raised once
  AgentNotes,   \* those raised by the end of a turn, after its event
  Streams,      \* bound: global streams, each opened once
  Buffer,       \* capacity of a subscriber's channel (128 in the code)
  RingSize      \* notificationRingSize (50 in the code)

\* A client's channel has room for the whole ring.
ASSUME HubAssumption ==
  /\ AgentNotes \subseteq Notes
  /\ Buffer \in Nat /\ RingSize \in Nat /\ RingSize <= Buffer

VARIABLES
  stream,    \* each stream: "none", "open" (in h.global) or "left"
  log,       \* what was put into the channel of each stream, in order
  read,      \* how many of those the producer has taken out
  ring,      \* notifications kept while no client took them
  stage,     \* each notification: "new", "sending", "gated", "muted", "sent", "kept", "local"
  todo       \* of a turn's last event: the streams of the snapshot not yet tried

hubvars == <<stream, log, read, ring, stage, todo>>

Event(n) == <<"event", n>>
Note(n) == <<"note", n>>
Frames == {Event(n) : n \in AgentNotes} \cup {Note(n) : n \in Notes}

TypeOK ==
  /\ stream \in [Streams -> {"none", "open", "left"}]
  /\ log \in [Streams -> Seq(Frames)]
  /\ read \in [Streams -> Nat]
  /\ ring \in Seq(Notes)
  /\ stage \in [Notes -> {"new", "sending", "gated", "muted", "sent", "kept", "local"}]
  /\ todo \in [AgentNotes -> SUBSET Streams]

Init ==
  /\ stream = [s \in Streams |-> "none"]
  /\ log = [s \in Streams |-> <<>>] /\ read = [s \in Streams |-> 0]
  /\ ring = <<>>
  /\ stage = [n \in Notes |-> "new"]
  /\ todo = [n \in AgentNotes |-> {}]

-----------------------------------------------------------------------------
(* Streams.                                                                *)

Open == {s \in Streams : stream[s] = "open"}
Room(s) == Len(log[s]) - read[s] < Buffer

\* The missed notifications, ahead of anything else; what does not fit is dropped.
Preload(s) ==
  [i \in 1 .. (IF Len(ring) > Buffer THEN Buffer ELSE Len(ring)) |-> Note(ring[i])]

Subscribe(s) ==
  /\ stream[s] = "none"
  /\ stream' = [stream EXCEPT ![s] = "open"]
  /\ log' = [log EXCEPT ![s] = Preload(s)]
  /\ ring' = <<>>
  /\ UNCHANGED <<read, stage, todo>>

Read(s) ==
  /\ stream[s] = "open" /\ read[s] < Len(log[s])
  /\ read' = [read EXCEPT ![s] = @ + 1]
  /\ UNCHANGED <<stream, log, ring, stage, todo>>

\* The client goes, with whatever its channel still holds.
Leave(s) ==
  /\ stream[s] = "open"
  /\ stream' = [stream EXCEPT ![s] = "left"]
  /\ UNCHANGED <<log, read, ring, stage, todo>>

-----------------------------------------------------------------------------
(* The last event of a turn: deliver up to its notification.               *)

Publish(n) ==
  /\ n \in AgentNotes /\ stage[n] = "new"
  /\ stage' = [stage EXCEPT ![n] = "sending"]
  /\ todo' = [todo EXCEPT ![n] = Open]
  /\ UNCHANGED <<stream, log, read, ring>>

\* The send to one subscriber, gone or not; a terminal event waits 250 ms for
\* room and is then dropped.
SendEvent(n, s) ==
  /\ s \in todo[n]
  /\ todo' = [todo EXCEPT ![n] = @ \ {s}]
  /\ log' = [log EXCEPT ![s] = IF Room(s) THEN Append(@, Event(n)) ELSE @]
  /\ UNCHANGED <<stream, read, ring, stage>>

-----------------------------------------------------------------------------
(* Notifications: emitAgentNotification of a turn, NotificationSink of a   *)
(* watcher.                                                                *)

\* faulty variant: the notification does not wait for the event to be sent.
DueEarly(n) == IF n \in AgentNotes THEN stage[n] = "sending" ELSE stage[n] = "new"

Due(n) == IF n \in AgentNotes THEN stage[n] = "sending" /\ todo[n] = {} ELSE stage[n] = "new"

\* The notify configuration of the moment lets it through or not.
Gate(n) ==
  /\ Due(n)
  /\ \E verdict \in {"gated", "muted"} : stage' = [stage EXCEPT ![n] = verdict]
  /\ UNCHANGED <<stream, log, read, ring, todo>>

\* faulty variant: connected clients count as reached, room or not.
TakersConnected(n) == Open

\* The subscribers whose channel accepts the notification.
Takers(n) == {s \in Open : Room(s)}

LastOnes(s) == IF Len(s) > RingSize THEN SubSeq(s, 1 + Len(s) - RingSize, Len(s)) ELSE s

\* deliverNotification: the choice between sending and keeping is one step.
Broadcast(n) ==
  /\ stage[n] = "gated" /\ Takers(n) # {}
  /\ log' = [s \in Streams |-> IF s \in Open /\ Room(s) THEN Append(log[s], Note(n)) ELSE log[s]]
  /\ stage' = [stage EXCEPT ![n] = "sent"]
  /\ UNCHANGED <<stream, read, ring, todo>>

KeepInRing(n) ==
  /\ stage[n] = "gated" /\ Takers(n) = {}
  /\ ring' = LastOnes(Append(ring, n))
  /\ stage' = [stage EXCEPT ![n] = "kept"]
  /\ UNCHANGED <<stream, log, read, todo>>

\* Nobody took it: the daemon notifies on its own host, after the lock is released.
Local(n) ==
  /\ stage[n] = "kept"
  /\ stage' = [stage EXCEPT ![n] = "local"]
  /\ UNCHANGED <<stream, log, read, ring, todo>>

-----------------------------------------------------------------------------

Next ==
  \/ \E s \in Streams : Subscribe(s) \/ Read(s) \/ Leave(s)
  \/ \E n \in AgentNotes : Publish(n)
  \/ \E n \in AgentNotes, s \in Streams : SendEvent(n, s)
  \/ \E n \in Notes : Gate(n) \/ Broadcast(n) \/ KeepInRing(n) \/ Local(n)

Spec == Init /\ [][Next]_hubvars

-----------------------------------------------------------------------------
(* Properties.                                                             *)

Put(s) == {log[s][i] : i \in DOMAIN log[s]}
Routed == {n \in Notes : stage[n] \in {"sent", "kept", "local"}}
Handed == {n \in Notes : \E s \in Streams : Note(n) \in Put(s)}

Feed == INSTANCE NotificationFeed WITH Keep <- RingSize, raised <- Routed, given <- Handed, held <- ring

\* The hub implements the feed: whatever the order in which clients come and go
\* and notifications are raised, each is handed to a client or held for the
\* next one, never both and never neither (deliverNotification, subscribeGlobal).
ImplementsFeed == Feed!Spec

Place(s, f) == CHOOSE i \in DOMAIN log[s] : log[s][i] = f

\* Every stream carries a frame once; a turn's event comes ahead of its
\* notification, and two streams that carry the same two notifications carry
\* them in the same order, whether live or replayed from the ring.
FramesInOrder ==
  /\ \A s \in Streams : \A i, j \in DOMAIN log[s] : log[s][i] = log[s][j] => i = j
  /\ \A s \in Streams, n \in AgentNotes :
       {Event(n), Note(n)} \subseteq Put(s) => Place(s, Event(n)) < Place(s, Note(n))
  /\ \A s, t \in Streams, m, n \in Notes :
       {Note(m), Note(n)} \subseteq Put(s) \cap Put(t) =>
         (Place(s, Note(m)) < Place(s, Note(n)) <=> Place(t, Note(m)) < Place(t, Note(n)))
=============================================================================
