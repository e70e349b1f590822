--------------------------- MODULE AttachedProofs ---------------------------
(***************************************************************************)
(* What reaches the people at their terminals, from whom, and what they    *)
(* take back, for all notifications, streams, requests, answers, prompts,  *)
(* daemons, files, workers, turns and bounds: the notification feed, the   *)
(* decisions of the permission service, the prompts of an attached         *)
(* terminal, its log window, the daemons it attaches to, and the undo of   *)
(* file changes.  Each is a component of MCServices that runs by itself.   *)
(*                                                                         *)
(* The hub implements the notification feed (ImplementsFeed) as long as a  *)
(* buffer has room for a ring.  The invariant says what the mapping of a   *)
(* subscription needs: the ring is never longer than it may be, and        *)
(* nothing was put, or is about to be put, into a stream nobody opened, so *)
(* that the new stream takes the ring whole.  Streams carry the            *)
(* notifications in one order, since those of the ring reached no stream   *)
(* yet and the others are routed to all of them at once.                   *)
(*                                                                         *)
(* Permissions: whatever is asked, answered, written and lost, the file    *)
(* and the memory of the service hold answers a human gave.                *)
(*                                                                         *)
(* Prompts: a prompt that is known to the terminal stays known to it, and  *)
(* only the one whose goroutine holds promptMu has a modal on its way.     *)
(*                                                                         *)
(* The log: the records have places in the order in which they reached the *)
(* ring.  Two that go to the window one after the other are less than a    *)
(* ring apart, so that less than two rings of others can come between the  *)
(* two times a record is sent; the table of the window is larger.          *)
(*                                                                         *)
(* Daemons and handoff: the socket and the pidfile do not show who owns    *)
(* the store, since they are unlinked by path, whoever they belong to.     *)
(* What does is the lock.  Whom the windows talk to follows the step of    *)
(* the controller.                                                         *)
(*                                                                         *)
(* Undo: a checkpoint vouches for the files it was not cut off from.  The  *)
(* content it has of the start of its turn is what the first later         *)
(* checkpoint that changed the file recorded; without one, what the turn   *)
(* in progress or the undo under way recorded; and without those, what is  *)
(* on the disk.                                                            *)
(***************************************************************************)
EXTENDS MCServices, FiniteSetTheorems, SequenceTheorems, WellFoundedInduction, TLAPS

-----------------------------------------------------------------------------
(* Each component runs by itself.                                          *)

LEMMA HubAlone == ServicesSpec => Spec
<1>1. ServicesInit => Init
  BY DEF ServicesInit
<1>2. [ServicesNext]_servicesvars => [Next]_hubvars
  BY DEF ServicesNext, servicesvars, hubvars, HubRuns, FilesRun, TranscriptRuns, WatchersRun,
         HandoffRuns, ServersRun, DocumentRuns, PermissionsRun, PromptsRun, LogsRun, McpRuns
<1> QED
  BY <1>1, <1>2, PTL DEF ServicesSpec, Spec

LEMMA PermissionsAlone == ServicesSpec => PM!Spec
<1>1. ServicesInit => PM!Init
  BY DEF ServicesInit
<1>2. [ServicesNext]_servicesvars => [PM!Next]_(PM!pmvars)
  BY DEF ServicesNext, servicesvars, permissions, PM!pmvars, HubRuns, FilesRun, TranscriptRuns, WatchersRun,
         HandoffRuns, ServersRun, DocumentRuns, PermissionsRun, PromptsRun, LogsRun, McpRuns
<1> QED
  BY <1>1, <1>2, PTL DEF ServicesSpec, PM!Spec

LEMMA PromptsAlone == ServicesSpec => PC!Spec
<1>1. ServicesInit => PC!Init
  BY DEF ServicesInit
<1>2. [ServicesNext]_servicesvars => [PC!Next]_(PC!pcvars)
  BY DEF ServicesNext, servicesvars, prompts, PC!pcvars, PC!daemon, HubRuns, FilesRun, TranscriptRuns, WatchersRun,
         HandoffRuns, ServersRun, DocumentRuns, PermissionsRun, PromptsRun, LogsRun, McpRuns
<1> QED
  BY <1>1, <1>2, PTL DEF ServicesSpec, PC!Spec

LEMMA LogsAlone == ServicesSpec => LT!Spec
<1>1. ServicesInit => LT!Init
  BY DEF ServicesInit
<1>2. [ServicesNext]_servicesvars => [LT!Next]_(LT!ltvars)
  BY DEF ServicesNext, servicesvars, logs, LT!ltvars, HubRuns, FilesRun, TranscriptRuns, WatchersRun,
         HandoffRuns, ServersRun, DocumentRuns, PermissionsRun, PromptsRun, LogsRun, McpRuns
<1> QED
  BY <1>1, <1>2, PTL DEF ServicesSpec, LT!Spec

LEMMA HandoffAlone == ServicesSpec => HO!HandoffInit /\ [][HO!HandoffNext]_(HO!hovars)
<1>1. ServicesInit => HO!HandoffInit
  BY DEF ServicesInit
<1>2. [ServicesNext]_servicesvars => [HO!HandoffNext]_(HO!hovars)
  BY DEF ServicesNext, servicesvars, daemons, HO!hovars, HO!dlvars, HubRuns, FilesRun, TranscriptRuns, WatchersRun,
         HandoffRuns, ServersRun, DocumentRuns, PermissionsRun, PromptsRun, LogsRun, McpRuns
<1> QED
  BY <1>1, <1>2, PTL DEF ServicesSpec

-----------------------------------------------------------------------------
(* The notification feed.                                                  *)

RingFits == Len(ring) <= RingSize
UnopenedEmpty ==
  \A s \in Streams : stream[s] = "none" => log[s] = <<>> /\ \A n \in AgentNotes : s \notin todo[n]

Stages == {"new", "sending", "gated", "muted", "sent", "kept", "local"}

HubInv == TypeOK /\ RingFits /\ UnopenedEmpty

-----------------------------------------------------------------------------
\* The newest notifications are notifications, and no more than the ring takes.
LEMMA LastOnesFit ==
  ASSUME NEW r \in Seq(Notes)
  PROVE  LastOnes(r) \in Seq(Notes) /\ Len(LastOnes(r)) <= RingSize
<1>1. CASE Len(r) <= RingSize
  BY <1>1, HubAssumption DEF LastOnes
<1>2. CASE Len(r) > RingSize
  <2>1. LastOnes(r) = SubSeq(r, 1 + Len(r) - RingSize, Len(r))
    BY <1>2, HubAssumption DEF LastOnes
  <2>2. /\ Len(r) \in Nat /\ 1 + Len(r) - RingSize \in 1 .. Len(r) + 1
        /\ \A i \in 1 .. Len(r) : r[i] \in Notes
    BY <1>2, HubAssumption
  <2> QED
    BY <2>1, <2>2, HubAssumption
<1> QED
  BY <1>1, <1>2, HubAssumption

\* What a new stream is given is the ring, as frames.
LEMMA PreloadIsRing ==
  ASSUME HubInv, NEW s \in Streams
  PROVE  /\ Preload(s) \in Seq(Frames)
         /\ DOMAIN Preload(s) = DOMAIN ring
         /\ \A i \in DOMAIN ring : Preload(s)[i] = Note(ring[i])
<1>1. ring \in Seq(Notes) /\ Len(ring) \in Nat /\ Len(ring) <= Buffer
  BY HubAssumption DEF HubInv, TypeOK, RingFits
<1>2. Preload(s) = [i \in 1 .. Len(ring) |-> Note(ring[i])]
  BY <1>1, HubAssumption DEF Preload
<1>3. \A i \in 1 .. Len(ring) : Note(ring[i]) \in Frames
  BY <1>1 DEF Frames
<1> QED
  BY <1>1, <1>2, <1>3

-----------------------------------------------------------------------------
\* At first no stream is open and the ring is empty.
LEMMA InitHubInv == Init => HubInv
BY HubAssumption DEF Init, HubInv, TypeOK, RingFits, UnopenedEmpty

\* A client that comes takes the ring with it.
LEMMA SubscribeKeepsHubInv ==
  ASSUME HubInv, NEW s \in Streams, Subscribe(s)
  PROVE  HubInv'
<1>1. Preload(s) \in Seq(Frames)
  BY PreloadIsRing
<1>2. TypeOK'
  BY <1>1 DEF HubInv, TypeOK, Subscribe
<1>3. RingFits'
  BY HubAssumption DEF RingFits, Subscribe
<1>4. UnopenedEmpty'
  BY DEF HubInv, TypeOK, UnopenedEmpty, Subscribe
<1> QED
  BY <1>2, <1>3, <1>4 DEF HubInv

\* Only open streams are read and left.
LEMMA ClientKeepsHubInv ==
  ASSUME HubInv, NEW s \in Streams, Read(s) \/ Leave(s)
  PROVE  HubInv'
<1>1. /\ stream[s] = "open" /\ stream' \in [Streams -> {"none", "open", "left"}]
      /\ \A t \in Streams : stream'[t] = "none" => stream[t] = "none"
      /\ read' \in [Streams -> Nat] /\ UNCHANGED <<log, ring, stage, todo>>
  <2>1. CASE Read(s)
    BY <2>1 DEF HubInv, TypeOK, Read
  <2>2. CASE Leave(s)
    BY <2>2 DEF HubInv, TypeOK, Leave
  <2> QED
    BY <2>1, <2>2
<1> QED
  BY <1>1 DEF HubInv, TypeOK, RingFits, UnopenedEmpty

\* The event of a turn goes to the streams that were open when it was published.
LEMMA EventKeepsHubInv ==
  ASSUME HubInv, NEW n \in AgentNotes,
         Publish(n) \/ \E s \in Streams : SendEvent(n, s)
  PROVE  HubInv'
<1>1. CASE Publish(n)
  BY <1>1, HubAssumption DEF HubInv, TypeOK, RingFits, UnopenedEmpty, Publish, Open
<1>2. ASSUME NEW s \in Streams, SendEvent(n, s)
      PROVE  HubInv'
  <2>1. /\ s \in todo[n] /\ UNCHANGED <<stream, read, ring, stage>>
        /\ todo' = [todo EXCEPT ![n] = @ \ {s}]
        /\ log' = [log EXCEPT ![s] = IF Room(s) THEN Append(@, Event(n)) ELSE @]
    BY <1>2 DEF SendEvent
  <2>2. log[s] \in Seq(Frames) /\ Event(n) \in Frames
    BY DEF HubInv, TypeOK, Frames
  <2>3. log' \in [Streams -> Seq(Frames)]
    BY <2>1, <2>2 DEF HubInv, TypeOK
  <2>4. TypeOK'
    BY <2>1, <2>3 DEF HubInv, TypeOK
  <2>5. UnopenedEmpty'
    BY <2>1 DEF HubInv, TypeOK, UnopenedEmpty
  <2> QED
    BY <2>1, <2>4, <2>5 DEF HubInv, RingFits
<1> QED
  BY <1>1, <1>2

\* A notification passes the gate or is shown by the daemon itself.
LEMMA GateKeepsHubInv ==
  ASSUME HubInv, NEW n \in Notes, Gate(n) \/ Local(n)
  PROVE  HubInv'
BY DEF HubInv, TypeOK, RingFits, UnopenedEmpty, Gate, Local

\* It goes to open streams with room, or into the ring.
LEMMA RouteKeepsHubInv ==
  ASSUME HubInv, NEW n \in Notes, Broadcast(n) \/ KeepInRing(n)
  PROVE  HubInv'
<1>1. CASE Broadcast(n)
  <2>1. Note(n) \in Frames
    BY DEF Frames
  <2>2. \A s \in Streams : log[s] \in Seq(Frames) /\ Append(log[s], Note(n)) \in Seq(Frames)
    BY <2>1 DEF HubInv, TypeOK
  <2>3. log' \in [Streams -> Seq(Frames)]
    BY <1>1, <2>2 DEF Broadcast
  <2>4. TypeOK'
    BY <1>1, <2>3 DEF HubInv, TypeOK, Broadcast
  <2>5. UnopenedEmpty'
    BY <1>1 DEF HubInv, UnopenedEmpty, Broadcast, Open
  <2> QED
    BY <1>1, <2>4, <2>5 DEF HubInv, RingFits, Broadcast
<1>2. CASE KeepInRing(n)
  <2>1. Append(ring, n) \in Seq(Notes)
    BY DEF HubInv, TypeOK
  <2>2. ring' \in Seq(Notes) /\ Len(ring') <= RingSize
    BY <1>2, <2>1, LastOnesFit DEF KeepInRing
  <2> QED
    BY <1>2, <2>2 DEF HubInv, TypeOK, RingFits, UnopenedEmpty, KeepInRing
<1> QED
  BY <1>1, <1>2

\* Every step keeps the invariant.
LEMMA NextKeepsHubInv == HubInv /\ [Next]_hubvars => HubInv'
<1> SUFFICES ASSUME HubInv, [Next]_hubvars
             PROVE  HubInv'
  OBVIOUS
<1>1. CASE \E s \in Streams : Subscribe(s) \/ Read(s) \/ Leave(s)
  BY <1>1, SubscribeKeepsHubInv, ClientKeepsHubInv
<1>2. CASE \/ \E n \in AgentNotes : Publish(n)
           \/ \E n \in AgentNotes, s \in Streams : SendEvent(n, s)
  BY <1>2, EventKeepsHubInv
<1>3. CASE \E n \in Notes : Gate(n) \/ Broadcast(n) \/ KeepInRing(n) \/ Local(n)
  BY <1>3, GateKeepsHubInv, RouteKeepsHubInv
<1>4. CASE UNCHANGED hubvars
  BY <1>4 DEF HubInv, TypeOK, RingFits, UnopenedEmpty, hubvars
<1> QED
  BY <1>1, <1>2, <1>3, <1>4 DEF Next

-----------------------------------------------------------------------------
(* The mapping of each step.                                               *)

\* A channel that takes a frame carries it and what it carried before.
LEMMA AppendAdds ==
  ASSUME NEW q \in Seq(Frames), NEW f \in Frames
  PROVE  {Append(q, f)[i] : i \in DOMAIN Append(q, f)} = {q[i] : i \in DOMAIN q} \cup {f}
<1>1. /\ Len(q) \in Nat /\ DOMAIN q = 1 .. Len(q)
      /\ DOMAIN Append(q, f) = 1 .. Len(q) + 1
      /\ \A i \in 1 .. Len(q) : Append(q, f)[i] = q[i]
      /\ Append(q, f)[Len(q) + 1] = f
  OBVIOUS
<1>2. 1 .. Len(q) + 1 = (1 .. Len(q)) \cup {Len(q) + 1}
  BY <1>1
<1>3. {Append(q, f)[i] : i \in 1 .. Len(q) + 1}
        = {Append(q, f)[i] : i \in 1 .. Len(q)} \cup {Append(q, f)[Len(q) + 1]}
  BY <1>2
<1>4. {Append(q, f)[i] : i \in 1 .. Len(q)} = {q[i] : i \in 1 .. Len(q)}
  BY <1>1
<1> QED
  BY <1>1, <1>3, <1>4

\* A new client is handed what the feed holds.
LEMMA SubscribeHandsOver ==
  ASSUME HubInv, NEW s \in Streams, Subscribe(s)
  PROVE  Feed!HandOver
<1>1. /\ log[s] = <<>> /\ log' = [log EXCEPT ![s] = Preload(s)]
      /\ log \in [Streams -> Seq(Frames)] /\ ring \in Seq(Notes)
      /\ ring' = <<>> /\ UNCHANGED stage
  BY DEF HubInv, TypeOK, UnopenedEmpty, Subscribe
<1>2. Put(s) = {}
  BY <1>1 DEF Put
<1>3. Put(s)' = {Note(ring[i]) : i \in DOMAIN ring}
  BY <1>1, PreloadIsRing DEF Put
<1>4. \A t \in Streams \ {s} : Put(t)' = Put(t)
  BY <1>1 DEF Put
<1>5. \A m \in Notes : Note(m) \in Put(s)' <=> \E i \in DOMAIN ring : ring[i] = m
  BY <1>3 DEF Note
<1>6. \A i \in DOMAIN ring : ring[i] \in Notes
  BY <1>1
<1>7. Handed' = Handed \cup {ring[i] : i \in DOMAIN ring}
  BY <1>2, <1>4, <1>5, <1>6 DEF Handed
<1>8. Routed' = Routed
  BY <1>1 DEF Routed
<1> QED
  BY <1>1, <1>7, <1>8 DEF Feed!HandOver

\* The event of a turn is no notification.
LEMMA EventIsNoNote ==
  ASSUME HubInv, NEW n \in AgentNotes, NEW s \in Streams, SendEvent(n, s)
  PROVE  Handed' = Handed
<1>1. /\ log \in [Streams -> Seq(Frames)]
      /\ log' = [log EXCEPT ![s] = IF Room(s) THEN Append(@, Event(n)) ELSE @]
  BY DEF HubInv, TypeOK, SendEvent
<1>2. \A t \in Streams \ {s} : Put(t)' = Put(t)
  BY <1>1 DEF Put
<1>3. Put(s)' \in {Put(s), Put(s) \cup {Event(n)}}
  <2>1. CASE ~Room(s)
    BY <1>1, <2>1 DEF Put
  <2>2. CASE Room(s)
    <3>1. /\ log'[s] = Append(log[s], Event(n)) /\ log[s] \in Seq(Frames)
          /\ Event(n) \in Frames
      BY <1>1, <2>2 DEF Frames
    <3>2. Put(s)' = Put(s) \cup {Event(n)}
      BY <3>1, AppendAdds DEF Put
    <3> QED
      BY <3>2
  <2> QED
    BY <2>1, <2>2
<1>4. \A m \in Notes : Note(m) \in Put(s)' <=> Note(m) \in Put(s)
  BY <1>3 DEF Note, Event
<1> QED
  BY <1>2, <1>4 DEF Handed

\* A notification that is broadcast is given, to every taker.
LEMMA BroadcastGives ==
  ASSUME HubInv, NEW n \in Notes, Broadcast(n)
  PROVE  Feed!Give(n)
<1>1. /\ log \in [Streams -> Seq(Frames)] /\ stage \in [Notes -> Stages]
      /\ log' = [s \in Streams |-> IF s \in Takers(n) THEN Append(log[s], Note(n)) ELSE log[s]]
      /\ Takers(n) # {} /\ Takers(n) \subseteq Streams
      /\ stage[n] = "gated" /\ stage' = [stage EXCEPT ![n] = "sent"] /\ ring' = ring
  <2>1. \A s \in Streams : s \in Takers(n) <=> s \in Open /\ Room(s)
    BY DEF Takers, Open
  <2>2. log' = [s \in Streams |-> IF s \in Takers(n) THEN Append(log[s], Note(n)) ELSE log[s]]
    BY <2>1 DEF Broadcast
  <2> QED
    BY <2>2 DEF HubInv, TypeOK, Stages, Broadcast, Takers, Open
<1>2. \A s \in Streams : Put(s)' = IF s \in Takers(n) THEN Put(s) \cup {Note(n)} ELSE Put(s)
  <2> SUFFICES ASSUME NEW s \in Streams
               PROVE  Put(s)' = IF s \in Takers(n) THEN Put(s) \cup {Note(n)} ELSE Put(s)
    OBVIOUS
  <2>1. CASE s \notin Takers(n)
    BY <1>1, <2>1 DEF Put
  <2>2. CASE s \in Takers(n)
    <3>1. /\ log'[s] = Append(log[s], Note(n)) /\ log[s] \in Seq(Frames)
          /\ Note(n) \in Frames
      BY <1>1, <2>2 DEF Frames
    <3>2. Put(s)' = Put(s) \cup {Note(n)}
      BY <3>1, AppendAdds DEF Put
    <3> QED
      BY <2>2, <3>2
  <2> QED
    BY <2>1, <2>2
<1>3. \A m \in Notes, s \in Streams :
        Note(m) \in Put(s)' <=> (Note(m) \in Put(s) \/ (m = n /\ s \in Takers(n)))
  BY <1>2 DEF Note
<1>4. Handed' = {m \in Notes : \E s \in Streams : Note(m) \in Put(s)'}
  BY DEF Handed
<1>5. Handed' = Handed \cup {n}
  BY <1>1, <1>3, <1>4 DEF Handed
<1>6. n \notin Routed /\ Routed' = Routed \cup {n}
  BY <1>1 DEF Routed, Stages
<1> QED
  BY <1>1, <1>5, <1>6 DEF Feed!Give

\* One that nobody takes is held, at the cost of the oldest.
LEMMA KeepInRingHolds ==
  ASSUME HubInv, NEW n \in Notes, KeepInRing(n)
  PROVE  Feed!Hold(n)
<1>1. /\ stage \in [Notes -> Stages]
      /\ stage[n] = "gated" /\ stage' = [stage EXCEPT ![n] = "kept"]
      /\ log' = log /\ ring' = LastOnes(Append(ring, n))
  BY DEF HubInv, TypeOK, Stages, KeepInRing
<1>2. n \notin Routed /\ Routed' = Routed \cup {n}
  BY <1>1 DEF Routed, Stages
<1>3. Handed' = Handed
  BY <1>1 DEF Handed, Put
<1>4. ring' = Feed!Newest(Append(ring, n))
  BY <1>1 DEF LastOnes, Feed!Newest
<1> QED
  BY <1>2, <1>3, <1>4 DEF Feed!Hold

\* The other steps are none of the feed's.
LEMMA OthersStutter ==
  ASSUME HubInv,
         \/ \E s \in Streams : Read(s) \/ Leave(s)
         \/ \E n \in AgentNotes : Publish(n)
         \/ \E n \in Notes : Gate(n) \/ Local(n)
  PROVE  UNCHANGED <<Routed, Handed, ring>>
<1>1. UNCHANGED <<log, ring>>
  BY DEF Read, Leave, Publish, Gate, Local
<1>2. Handed' = Handed
  BY <1>1 DEF Handed, Put
<1>3. Routed' = Routed
  <2>1. CASE \E s \in Streams : Read(s) \/ Leave(s)
    BY <2>1 DEF Read, Leave, Routed
  <2>2. CASE \E n \in AgentNotes : Publish(n)
    BY <2>2, HubAssumption DEF HubInv, TypeOK, Publish, Routed
  <2>3. CASE \E n \in Notes : Gate(n) \/ Local(n)
    BY <2>3 DEF HubInv, TypeOK, Gate, Due, Local, Routed
  <2> QED
    BY <2>1, <2>2, <2>3
<1> QED
  BY <1>1, <1>2, <1>3

\* Every step of the hub is a step of the feed, or none.
LEMMA StepMaps == HubInv /\ [Next]_hubvars => [Feed!Next]_<<Routed, Handed, ring>>
<1> SUFFICES ASSUME HubInv, [Next]_hubvars
             PROVE  Feed!Next \/ UNCHANGED <<Routed, Handed, ring>>
  OBVIOUS
<1>1. CASE \E s \in Streams : Subscribe(s)
  BY <1>1, SubscribeHandsOver DEF Feed!Next
<1>2. CASE \E n \in Notes : Broadcast(n)
  BY <1>2, BroadcastGives DEF Feed!Next
<1>3. CASE \E n \in Notes : KeepInRing(n)
  BY <1>3, KeepInRingHolds DEF Feed!Next
<1>4. CASE \E n \in AgentNotes, s \in Streams : SendEvent(n, s)
  <2>1. Routed' = Routed /\ ring' = ring
    BY <1>4 DEF SendEvent, Routed
  <2> QED
    BY <1>4, <2>1, EventIsNoNote
<1>5. CASE \/ \E s \in Streams : Read(s) \/ Leave(s)
           \/ \E n \in AgentNotes : Publish(n)
           \/ \E n \in Notes : Gate(n) \/ Local(n)
  BY <1>5, OthersStutter
<1>6. CASE UNCHANGED hubvars
  BY <1>6 DEF hubvars, Routed, Handed, Put
<1> QED
  BY <1>1, <1>2, <1>3, <1>4, <1>5, <1>6 DEF Next

\* At first nothing was routed.
LEMMA InitMaps == Init => Feed!Init
<1> SUFFICES ASSUME Init
             PROVE  Feed!Init
  OBVIOUS
<1>1. \A s \in Streams : Put(s) = {}
  BY DEF Init, Put
<1> QED
  BY <1>1 DEF Init, Feed!Init, Routed, Handed

-----------------------------------------------------------------------------
\* The hub implements the feed (deliverNotification, subscribeGlobal, deliver).
THEOREM HubImplementsFeed == ServicesSpec => ImplementsFeed
<1>1. Spec => []HubInv
  BY InitHubInv, NextKeepsHubInv, PTL DEF Spec
<1>2. Init => Feed!Init
  BY InitMaps
<1>3. HubInv /\ [Next]_hubvars => [Feed!Next]_<<Routed, Handed, ring>>
  BY StepMaps
<1> QED
  BY <1>1, <1>2, <1>3, HubAlone, PTL DEF Spec, ImplementsFeed, Feed!Spec, Feed!feed

-----------------------------------------------------------------------------
(* The order of the frames.                                                *)

On(q) == {q[i] : i \in DOMAIN q}
Distinct(q) == \A i, j \in DOMAIN q : q[i] = q[j] => i = j
Precedes(q, f, g) == \E i, j \in DOMAIN q : i < j /\ q[i] = f /\ q[j] = g

\* A notification reaches streams after it is routed, and those of the ring none.
NotesRouted ==
  /\ \A s \in Streams, n \in Notes : Note(n) \in On(log[s]) => stage[n] \in {"sent", "kept", "local"}
  /\ \A i \in DOMAIN ring : /\ stage[ring[i]] \in {"kept", "local"}
                            /\ \A s \in Streams : Note(ring[i]) \notin On(log[s])

\* The event of a turn is put while it is sent, at most once into a stream.
EventsSent ==
  \A n \in AgentNotes :
    /\ todo[n] # {} => stage[n] = "sending"
    /\ \A s \in Streams : Event(n) \in On(log[s]) => stage[n] # "new" /\ s \notin todo[n]

EventsFirst ==
  \A s \in Streams, n \in AgentNotes :
    Event(n) \in On(log[s]) /\ Note(n) \in On(log[s]) => Precedes(log[s], Event(n), Note(n))

SameOrder ==
  \A s, t \in Streams, m, n \in Notes :
    Precedes(log[s], Note(m), Note(n)) /\ {Note(m), Note(n)} \subseteq On(log[t])
      => Precedes(log[t], Note(m), Note(n))

OrderInv ==
  /\ \A s \in Streams : Distinct(log[s])
  /\ Distinct(ring) /\ NotesRouted /\ EventsSent /\ EventsFirst /\ SameOrder

\* Who is ahead of another is in the sequence, and so is the other.
LEMMA PrecedesIsOn ==
  ASSUME NEW q, NEW f, NEW g, Precedes(q, f, g)
  PROVE  f \in On(q) /\ g \in On(q)
BY DEF Precedes, On

\* A frame that is appended is behind all others.
LEMMA AppendedLast ==
  ASSUME NEW q \in Seq(Frames), NEW f \in Frames, f \notin On(q), Distinct(q)
  PROVE  /\ On(Append(q, f)) = On(q) \cup {f}
         /\ Distinct(Append(q, f))
         /\ \A g, h : Precedes(Append(q, f), g, h) <=> Precedes(q, g, h) \/ (g \in On(q) /\ h = f)
<1> DEFINE r == Append(q, f)
           k == Len(q)
<1>1. /\ k \in Nat /\ DOMAIN q = 1 .. k /\ DOMAIN r = 1 .. k + 1
      /\ \A i \in 1 .. k : r[i] = q[i]
      /\ r[k + 1] = f
  OBVIOUS
<1>2. On(r) = On(q) \cup {f}
  BY AppendAdds DEF On
<1> HIDE DEF r, k
<1>3. \A i \in 1 .. k : q[i] # f
  BY <1>1 DEF On
<1>4. 1 .. k + 1 = (1 .. k) \cup {k + 1} /\ \A i \in 1 .. k : i < k + 1 /\ ~(k + 1 < i)
  BY <1>1
<1>5. Distinct(r)
  BY <1>1, <1>3, <1>4 DEF Distinct
<1>6. ASSUME NEW g, NEW h PROVE Precedes(r, g, h) <=> Precedes(q, g, h) \/ (g \in On(q) /\ h = f)
  <2>1. ASSUME Precedes(r, g, h) PROVE Precedes(q, g, h) \/ (g \in On(q) /\ h = f)
    <3>1. PICK i \in 1 .. k + 1, j \in 1 .. k + 1 : i < j /\ r[i] = g /\ r[j] = h
      BY <1>1, <2>1 DEF Precedes
    <3>2. i \in 1 .. k
      BY <1>1, <3>1
    <3>3. CASE j \in 1 .. k
      BY <1>1, <3>1, <3>2, <3>3 DEF Precedes
    <3>4. CASE j = k + 1
      BY <1>1, <3>1, <3>2, <3>4 DEF On
    <3> QED
      BY <1>4, <3>3, <3>4
  <2>2. ASSUME Precedes(q, g, h) PROVE Precedes(r, g, h)
    BY <1>1, <1>4, <2>2 DEF Precedes
  <2>3. ASSUME g \in On(q), h = f PROVE Precedes(r, g, h)
    <3>1. PICK i \in 1 .. k : q[i] = g
      BY <1>1, <2>3 DEF On
    <3>2. i \in DOMAIN r /\ k + 1 \in DOMAIN r /\ i < k + 1 /\ r[i] = g /\ r[k + 1] = h
      BY <1>1, <1>4, <2>3, <3>1
    <3> QED
      BY <3>2 DEF Precedes
  <2> QED
    BY <2>1, <2>2, <2>3
<1> QED
  BY <1>2, <1>5, <1>6 DEF r

\* What a step that appends f to some of the streams does to all of them.
LEMMA AppendedSome ==
  ASSUME HubInv, \A s \in Streams : Distinct(log[s]), NEW f \in Frames, NEW T \in SUBSET Streams,
         \A s \in T : f \notin On(log[s]),
         \A s \in Streams : log'[s] = IF s \in T THEN Append(log[s], f) ELSE log[s]
  PROVE  \A s \in Streams :
           /\ \A g : g \in On(log'[s]) <=> g \in On(log[s]) \/ (s \in T /\ g = f)
           /\ Distinct(log'[s])
           /\ \A g, h : Precedes(log'[s], g, h) <=> Precedes(log[s], g, h) \/ (s \in T /\ g \in On(log[s]) /\ h = f)
<1> SUFFICES ASSUME NEW s \in Streams
             PROVE  /\ \A g : g \in On(log'[s]) <=> g \in On(log[s]) \/ (s \in T /\ g = f)
                    /\ Distinct(log'[s])
                    /\ \A g, h : Precedes(log'[s], g, h) <=> Precedes(log[s], g, h) \/ (s \in T /\ g \in On(log[s]) /\ h = f)
  OBVIOUS
<1>1. log[s] \in Seq(Frames)
  BY DEF HubInv, TypeOK
<1>2. CASE s \in T
  <2>1. log'[s] = Append(log[s], f)
    BY <1>2
  <2> QED
    BY <1>1, <1>2, <2>1, AppendedLast
<1>3. CASE s \notin T
  BY <1>3
<1> QED
  BY <1>2, <1>3

\* The last ones of a sequence are some of its entries, in their order.
LEMMA LastOnesAreSome ==
  ASSUME NEW r \in Seq(Notes)
  PROVE  \E d \in Nat : \A i \in DOMAIN LastOnes(r) : i \in Nat /\ i + d \in DOMAIN r /\ LastOnes(r)[i] = r[i + d]
<1>1. CASE Len(r) <= RingSize
  <2>1. LastOnes(r) = r
    BY <1>1, HubAssumption DEF LastOnes
  <2>2. \A i \in DOMAIN r : i \in Nat /\ i + 0 = i
    OBVIOUS
  <2> QED
    BY <2>1, <2>2
<1>2. CASE Len(r) > RingSize
  <2> DEFINE d == Len(r) - RingSize
             q == SubSeq(r, 1 + Len(r) - RingSize, Len(r))
  <2>1. LastOnes(r) = q
    BY <1>2, HubAssumption DEF LastOnes
  <2>2. /\ d \in Nat /\ Len(r) \in Nat /\ RingSize \in Nat /\ DOMAIN r = 1 .. Len(r)
        /\ 1 + Len(r) - RingSize = d + 1 /\ d + RingSize = Len(r)
    BY <1>2, HubAssumption
  <2>3. DOMAIN q = 1 .. RingSize /\ \A i \in 1 .. RingSize : q[i] = r[i + d]
    BY <1>2, <2>2
  <2> HIDE DEF d, q
  <2>4. \A i \in 1 .. RingSize : i \in Nat /\ i + d \in 1 .. Len(r)
    BY <2>2
  <2> QED
    BY <2>1, <2>2, <2>3, <2>4
<1> QED
  BY <1>1, <1>2, HubAssumption

\* Frames of different notifications differ, and no event is a notification.
LEMMA FramesDiffer ==
  /\ \A m, n : (Note(m) = Note(n) <=> m = n) /\ (Event(m) = Event(n) <=> m = n)
  /\ \A m, n : Event(m) # Note(n)
BY DEF Note, Event

LEMMA BroadcastKeepsOrder ==
  ASSUME HubInv, OrderInv, NEW n \in Notes, Broadcast(n)
  PROVE  OrderInv'
<1>1. /\ Takers(n) \in SUBSET Streams /\ UNCHANGED <<ring, todo>>
      /\ stage[n] = "gated" /\ stage' = [stage EXCEPT ![n] = "sent"] /\ stage \in [Notes -> Stages]
      /\ Note(n) \in Frames
  BY DEF Broadcast, Takers, Open, HubInv, TypeOK, Stages, Frames
<1>2. \A s \in Streams : log'[s] = IF s \in Takers(n) THEN Append(log[s], Note(n)) ELSE log[s]
  BY DEF Broadcast, Takers, Open
<1>3. \A s \in Streams : Note(n) \notin On(log[s])
  BY <1>1 DEF OrderInv, NotesRouted
<1>4. \A s \in Streams :
        /\ \A g : g \in On(log'[s]) <=> g \in On(log[s]) \/ (s \in Takers(n) /\ g = Note(n))
        /\ Distinct(log'[s])
        /\ \A g, h : Precedes(log'[s], g, h)
             <=> Precedes(log[s], g, h) \/ (s \in Takers(n) /\ g \in On(log[s]) /\ h = Note(n))
  BY <1>1, <1>2, <1>3, AppendedSome DEF OrderInv
<1>5. \A i \in DOMAIN ring : ring[i] \in Notes \ {n}
  <2>1. \A i \in DOMAIN ring : ring[i] \in Notes
    BY DEF HubInv, TypeOK
  <2>2. \A i \in DOMAIN ring : stage[ring[i]] # "gated"
    BY DEF OrderInv, NotesRouted
  <2> QED
    BY <1>1, <2>1, <2>2
<1>6. NotesRouted'
  <2>1. \A s \in Streams, m \in Notes \ {n} : Note(m) \in On(log'[s]) => Note(m) \in On(log[s])
    BY <1>4 DEF Note
  <2>2. \A m \in Notes \ {n} : stage'[m] = stage[m]
    BY <1>1
  <2>3. stage'[n] = "sent"
    BY <1>1
  <2>4. \A s \in Streams, m \in Notes : Note(m) \in On(log'[s]) => stage'[m] \in {"sent", "kept", "local"}
    BY <2>1, <2>2, <2>3 DEF OrderInv, NotesRouted
  <2>5. \A i \in DOMAIN ring : /\ stage'[ring[i]] \in {"kept", "local"}
                              /\ \A s \in Streams : Note(ring[i]) \notin On(log'[s])
    BY <1>5, <2>1, <2>2 DEF OrderInv, NotesRouted
  <2> QED
    BY <1>1, <2>4, <2>5 DEF NotesRouted
<1>7. EventsSent'
  <2>1. AgentNotes \subseteq Notes
    BY HubAssumption
  <2>2. \A m \in AgentNotes, s \in Streams : Event(m) \in On(log'[s]) => Event(m) \in On(log[s])
    BY <1>4 DEF Note, Event
  <2>3. \A m \in AgentNotes : (stage[m] = "sending" => stage'[m] = "sending") /\ (stage[m] # "new" => stage'[m] # "new")
    BY <1>1, <2>1
  <2> QED
    BY <1>1, <2>2, <2>3 DEF OrderInv, EventsSent
<1>8. EventsFirst'
  <2> SUFFICES ASSUME NEW s \in Streams, NEW m \in AgentNotes,
                      Event(m) \in On(log'[s]), Note(m) \in On(log'[s])
               PROVE  Precedes(log'[s], Event(m), Note(m))
    BY DEF EventsFirst
  <2>1. Event(m) \in On(log[s])
    BY <1>4 DEF Note, Event
  <2> QED
    BY <1>4, <2>1 DEF OrderInv, EventsFirst
<1>9. SameOrder'
  <2> SUFFICES ASSUME NEW s \in Streams, NEW t \in Streams, NEW m \in Notes, NEW k \in Notes,
                      Precedes(log'[s], Note(m), Note(k)),
                      Note(m) \in On(log'[t]), Note(k) \in On(log'[t])
               PROVE  Precedes(log'[t], Note(m), Note(k))
    BY DEF SameOrder
  <2>1. CASE Precedes(log[s], Note(m), Note(k))
    <3>1. Note(m) \in On(log[s]) /\ Note(k) \in On(log[s])
      BY <2>1, PrecedesIsOn
    <3>2. m # n /\ k # n
      BY <1>3, <3>1
    <3>3. Note(m) \in On(log[t]) /\ Note(k) \in On(log[t])
      BY <1>4, <3>2 DEF Note, Event
    <3> QED
      BY <1>4, <2>1, <3>3 DEF OrderInv, SameOrder
  <2>2. CASE Note(m) \in On(log[s]) /\ k = n
    <3>1. m # n
      BY <1>3, <2>2
    <3>2. t \in Takers(n) /\ Note(m) \in On(log[t])
      BY <1>3, <1>4, <2>2, <3>1 DEF Note, Event
    <3> QED
      BY <1>4, <2>2, <3>2
  <2> QED
    BY <1>4, <2>1, <2>2 DEF Note, Event
<1> QED
  BY <1>1, <1>4, <1>6, <1>7, <1>8, <1>9 DEF OrderInv

LEMMA SendEventKeepsOrder ==
  ASSUME HubInv, OrderInv, NEW n \in AgentNotes, NEW x \in Streams, SendEvent(n, x)
  PROVE  OrderInv'
<1> DEFINE T == IF Room(x) THEN {x} ELSE {}
<1>1. /\ x \in todo[n] /\ UNCHANGED <<ring, stage>> /\ todo' = [todo EXCEPT ![n] = @ \ {x}]
      /\ T \in SUBSET Streams /\ Event(n) \in Frames /\ todo \in [AgentNotes -> SUBSET Streams]
  BY DEF SendEvent, HubInv, TypeOK, Frames
<1>2. \A s \in Streams : log'[s] = IF s \in T THEN Append(log[s], Event(n)) ELSE log[s]
  BY DEF SendEvent, HubInv, TypeOK
<1>3. Event(n) \notin On(log[x]) /\ stage[n] = "sending"
  BY <1>1 DEF OrderInv, EventsSent
<1>4. \A s \in Streams :
        /\ \A g : g \in On(log'[s]) <=> g \in On(log[s]) \/ (s \in T /\ g = Event(n))
        /\ Distinct(log'[s])
        /\ \A g, h : Precedes(log'[s], g, h)
             <=> Precedes(log[s], g, h) \/ (s \in T /\ g \in On(log[s]) /\ h = Event(n))
  <2>1. \A s \in T : Event(n) \notin On(log[s])
    BY <1>3
  <2>2. \A s \in Streams : Distinct(log[s])
    BY DEF OrderInv
  <2> HIDE DEF T
  <2> QED
    BY <1>1, <1>2, <2>1, <2>2, AppendedSome
<1>5. \A s \in Streams, m \in Notes : Note(m) \in On(log'[s]) <=> Note(m) \in On(log[s])
  BY <1>4 DEF Note, Event
<1>6. NotesRouted'
  <2>1. \A i \in DOMAIN ring : ring[i] \in Notes
    BY DEF HubInv, TypeOK
  <2> QED
    BY <1>1, <1>5, <2>1 DEF OrderInv, NotesRouted
<1>7. EventsSent'
  <2> SUFFICES ASSUME NEW m \in AgentNotes
               PROVE  /\ todo'[m] # {} => stage'[m] = "sending"
                      /\ \A s \in Streams : Event(m) \in On(log'[s]) => stage'[m] # "new" /\ s \notin todo'[m]
    BY DEF EventsSent
  <2>1. CASE m = n
    <3>1. todo'[n] = todo[n] \ {x}
      BY <1>1
    <3>2. \A s \in Streams : Event(n) \in On(log'[s]) => s = x \/ Event(n) \in On(log[s])
      BY <1>4
    <3> QED
      BY <1>1, <1>3, <2>1, <3>1, <3>2 DEF OrderInv, EventsSent
  <2>2. CASE m # n
    <3>1. todo'[m] = todo[m] /\ \A s \in Streams : Event(m) \in On(log'[s]) => Event(m) \in On(log[s])
      BY <1>1, <1>4, <2>2 DEF Note, Event
    <3> QED
      BY <1>1, <3>1 DEF OrderInv, EventsSent
  <2> QED
    BY <2>1, <2>2
<1>8. EventsFirst'
  <2> SUFFICES ASSUME NEW s \in Streams, NEW m \in AgentNotes,
                      Event(m) \in On(log'[s]), Note(m) \in On(log'[s])
               PROVE  Precedes(log'[s], Event(m), Note(m))
    BY DEF EventsFirst
  <2>1. Note(m) \in On(log[s]) /\ m \in Notes
    BY <1>5, HubAssumption
  <2>2. m # n
    BY <1>3, <2>1 DEF OrderInv, NotesRouted
  <2>3. Event(m) \in On(log[s])
    BY <1>4, <2>2 DEF Note, Event
  <2> QED
    BY <1>4, <2>1, <2>3 DEF OrderInv, EventsFirst
<1>9. SameOrder'
  <2>1. \A s \in Streams, m \in Notes, k \in Notes : Precedes(log'[s], Note(m), Note(k)) <=> Precedes(log[s], Note(m), Note(k))
    BY <1>4 DEF Note, Event
  <2> QED
    BY <1>5, <2>1 DEF OrderInv, SameOrder
<1> QED
  BY <1>1, <1>4, <1>6, <1>7, <1>8, <1>9 DEF OrderInv

LEMMA SubscribeKeepsOrder ==
  ASSUME HubInv, OrderInv, NEW x \in Streams, Subscribe(x)
  PROVE  OrderInv'
<1>1. /\ log[x] = <<>> /\ \A n \in AgentNotes : x \notin todo[n]
      /\ log' = [log EXCEPT ![x] = Preload(x)] /\ log \in [Streams -> Seq(Frames)]
      /\ ring' = <<>> /\ UNCHANGED <<stage, todo>> /\ ring \in Seq(Notes)
  BY DEF HubInv, UnopenedEmpty, Subscribe, TypeOK
<1>2. /\ DOMAIN log'[x] = DOMAIN ring /\ \A i \in DOMAIN ring : log'[x][i] = Note(ring[i])
      /\ \A s \in Streams \ {x} : log'[s] = log[s]
  BY <1>1, PreloadIsRing
<1>3. On(log'[x]) = {Note(ring[i]) : i \in DOMAIN ring}
  BY <1>2 DEF On
<1>4. \A s \in Streams : Distinct(log'[s])
  BY <1>2, FramesDiffer DEF OrderInv, Distinct
<1>5. Distinct(ring') /\ DOMAIN ring' = {}
  BY <1>1 DEF Distinct
<1>6. NotesRouted'
  <2>1. \A n \in Notes : Note(n) \in On(log'[x]) => stage[n] \in {"kept", "local"}
    BY <1>3, FramesDiffer DEF OrderInv, NotesRouted
  <2> QED
    BY <1>1, <1>2, <1>5, <2>1 DEF OrderInv, NotesRouted
<1>7. \A n : Event(n) \notin On(log'[x])
  BY <1>3, FramesDiffer
<1>8. EventsSent'
  BY <1>1, <1>2, <1>7 DEF OrderInv, EventsSent
<1>9. EventsFirst'
  BY <1>2, <1>7 DEF OrderInv, EventsFirst
<1>10. SameOrder'
  <2> SUFFICES ASSUME NEW s \in Streams, NEW t \in Streams, NEW m \in Notes, NEW k \in Notes,
                      Precedes(log'[s], Note(m), Note(k)), Note(m) \in On(log'[t]), Note(k) \in On(log'[t])
               PROVE  Precedes(log'[t], Note(m), Note(k))
    BY DEF SameOrder
  <2>1. Note(m) \in On(log'[s])
    BY PrecedesIsOn
  <2>2. \A y \in Streams \ {x} : ~(Note(m) \in On(log'[x]) /\ Note(m) \in On(log'[y]))
    BY <1>2, <1>3 DEF OrderInv, NotesRouted
  <2>3. s = t \/ (s # x /\ t # x)
    BY <2>1, <2>2
  <2> QED
    BY <1>2, <2>3 DEF OrderInv, SameOrder
<1> QED
  BY <1>4, <1>5, <1>6, <1>8, <1>9, <1>10 DEF OrderInv

LEMMA KeepInRingKeepsOrder ==
  ASSUME HubInv, OrderInv, NEW n \in Notes, KeepInRing(n)
  PROVE  OrderInv'
<1> DEFINE r == Append(ring, n)
<1>1. /\ stage[n] = "gated" /\ stage' = [stage EXCEPT ![n] = "kept"] /\ stage \in [Notes -> Stages]
      /\ UNCHANGED <<log, todo>> /\ ring' = LastOnes(r) /\ ring \in Seq(Notes) /\ r \in Seq(Notes)
  BY DEF KeepInRing, HubInv, TypeOK, Stages
<1>2. /\ Len(ring) \in Nat /\ DOMAIN ring = 1 .. Len(ring) /\ DOMAIN r = 1 .. Len(ring) + 1
      /\ \A i \in 1 .. Len(ring) : r[i] = ring[i]
      /\ r[Len(ring) + 1] = n
  BY <1>1
<1>3. 1 .. Len(ring) + 1 = (1 .. Len(ring)) \cup {Len(ring) + 1}
  BY <1>2
<1> HIDE DEF r
<1>4. \A i \in DOMAIN ring : ring[i] \in Notes /\ stage[ring[i]] \in {"kept", "local"}
  BY <1>1 DEF OrderInv, NotesRouted
<1>5. Distinct(r)
  BY <1>1, <1>2, <1>3, <1>4 DEF OrderInv, Distinct
<1>6. \A i \in DOMAIN r : /\ stage'[r[i]] \in {"kept", "local"}
                          /\ \A s \in Streams : Note(r[i]) \notin On(log[s])
  BY <1>1, <1>2, <1>3, <1>4 DEF OrderInv, NotesRouted
<1>7. PICK d \in Nat : \A i \in DOMAIN ring' : i \in Nat /\ i + d \in DOMAIN r /\ ring'[i] = r[i + d]
  BY <1>1, LastOnesAreSome
<1>8. Distinct(ring')
  BY <1>5, <1>7 DEF Distinct
<1>9. NotesRouted'
  <2>1. \A i \in DOMAIN ring' : /\ stage'[ring'[i]] \in {"kept", "local"}
                                /\ \A s \in Streams : Note(ring'[i]) \notin On(log[s])
    BY <1>6, <1>7
  <2>2. \A s \in Streams, m \in Notes : Note(m) \in On(log[s]) => stage'[m] \in {"sent", "kept", "local"}
    BY <1>1 DEF OrderInv, NotesRouted
  <2> QED
    BY <1>1, <2>1, <2>2 DEF NotesRouted
<1>10. EventsSent'
  <2>1. AgentNotes \subseteq Notes
    BY HubAssumption
  <2>2. \A m \in AgentNotes : (stage[m] = "sending" => stage'[m] = "sending") /\ (stage[m] # "new" => stage'[m] # "new")
    BY <1>1, <2>1
  <2> QED
    BY <1>1, <2>2 DEF OrderInv, EventsSent
<1> QED
  BY <1>1, <1>8, <1>9, <1>10 DEF OrderInv, EventsFirst, SameOrder

\* The steps that put nothing into a channel.
LEMMA OthersKeepOrder ==
  ASSUME HubInv, OrderInv,
         \/ \E s \in Streams : Read(s) \/ Leave(s)
         \/ \E n \in AgentNotes : Publish(n)
         \/ \E n \in Notes : Gate(n) \/ Local(n)
  PROVE  OrderInv'
<1>0. AgentNotes \subseteq Notes /\ stage \in [Notes -> Stages] /\ todo \in [AgentNotes -> SUBSET Streams]
      /\ ring \in Seq(Notes)
  BY HubAssumption DEF HubInv, TypeOK, Stages
<1>1. UNCHANGED <<log, ring>>
  BY DEF Read, Leave, Publish, Gate, Local
<1>2. ASSUME NotesRouted', EventsSent' PROVE OrderInv'
  BY <1>1, <1>2 DEF OrderInv, EventsFirst, SameOrder
<1>3. CASE \E s \in Streams : Read(s) \/ Leave(s)
  BY <1>1, <1>2, <1>3 DEF Read, Leave, OrderInv, NotesRouted, EventsSent
<1>4. ASSUME NEW n \in Notes, n \in AgentNotes => todo'[n] = {} /\ todo[n] = {},
             \A m \in AgentNotes \ {n} : todo'[m] = todo[m],
             NEW v \in Stages \ {"new"}, stage' = [stage EXCEPT ![n] = v],
             stage[n] \in {"kept", "local"} => v \in {"kept", "local"},
             stage[n] \in {"sent", "kept", "local"} => v \in {"sent", "kept", "local"}
      PROVE  OrderInv'
  <2>1. NotesRouted'
    BY <1>0, <1>1, <1>4 DEF OrderInv, NotesRouted
  <2>2. EventsSent'
    BY <1>0, <1>1, <1>4 DEF OrderInv, EventsSent
  <2> QED
    BY <1>2, <2>1, <2>2
<1>5. ASSUME NEW n \in Notes, Gate(n) PROVE OrderInv'
  <2>1. PICK v \in {"gated", "muted"} : stage' = [stage EXCEPT ![n] = v]
    BY <1>5 DEF Gate
  <2>2. stage[n] \in {"new", "sending"} /\ todo' = todo
    BY <1>5 DEF Gate, Due
  <2>3. n \in AgentNotes => todo[n] = {}
    BY <1>5 DEF Gate, Due
  <2> QED
    BY <1>4, <2>1, <2>2, <2>3 DEF Stages
<1>6. ASSUME NEW n \in Notes, Local(n) PROVE OrderInv'
  <2>1. stage[n] = "kept" /\ stage' = [stage EXCEPT ![n] = "local"] /\ todo' = todo
    BY <1>6 DEF Local
  <2>2. n \in AgentNotes => todo[n] = {}
    BY <2>1 DEF OrderInv, EventsSent
  <2> QED
    BY <1>4, <2>1, <2>2 DEF Stages
<1>7. ASSUME NEW n \in AgentNotes, Publish(n) PROVE OrderInv'
  <2>1. /\ stage[n] = "new" /\ stage' = [stage EXCEPT ![n] = "sending"]
        /\ todo' = [todo EXCEPT ![n] = Open]
    BY <1>7 DEF Publish
  <2>2. NotesRouted'
    BY <1>0, <1>1, <2>1 DEF OrderInv, NotesRouted
  <2>3. EventsSent'
    BY <1>0, <1>1, <2>1 DEF OrderInv, EventsSent
  <2> QED
    BY <1>2, <2>2, <2>3
<1> QED
  BY <1>3, <1>5, <1>6, <1>7

LEMMA NextKeepsOrder == HubInv /\ OrderInv /\ [Next]_hubvars => OrderInv'
<1> SUFFICES ASSUME HubInv, OrderInv, [Next]_hubvars
             PROVE  OrderInv'
  OBVIOUS
<1>1. CASE \E s \in Streams : Subscribe(s)
  BY <1>1, SubscribeKeepsOrder
<1>2. CASE \E n \in Notes : Broadcast(n)
  BY <1>2, BroadcastKeepsOrder
<1>3. CASE \E n \in Notes : KeepInRing(n)
  BY <1>3, KeepInRingKeepsOrder
<1>4. CASE \E n \in AgentNotes, s \in Streams : SendEvent(n, s)
  BY <1>4, SendEventKeepsOrder
<1>5. CASE \/ \E s \in Streams : Read(s) \/ Leave(s)
           \/ \E n \in AgentNotes : Publish(n)
           \/ \E n \in Notes : Gate(n) \/ Local(n)
  BY <1>5, OthersKeepOrder
<1>6. CASE UNCHANGED hubvars
  BY <1>6 DEF hubvars, OrderInv, NotesRouted, EventsSent, EventsFirst, SameOrder
<1> QED
  BY <1>1, <1>2, <1>3, <1>4, <1>5, <1>6 DEF Next

\* Where a frame is found is where it is.
LEMMA PlaceOrder ==
  ASSUME HubInv, OrderInv, NEW s \in Streams, NEW f \in Put(s), NEW g \in Put(s)
  PROVE  Place(s, f) < Place(s, g) <=> Precedes(log[s], f, g)
<1>1. \A h \in Put(s) : Place(s, h) \in DOMAIN log[s] /\ log[s][Place(s, h)] = h
  <2> SUFFICES ASSUME NEW h \in Put(s) PROVE Place(s, h) \in DOMAIN log[s] /\ log[s][Place(s, h)] = h
    OBVIOUS
  <2>1. \E i \in DOMAIN log[s] : log[s][i] = h
    BY DEF Put
  <2> QED
    BY <2>1, Zenon DEF Place
<1>2. \A i, j \in DOMAIN log[s] : log[s][i] = log[s][j] => i = j
  BY DEF OrderInv, Distinct
<1>3. \A i, j \in DOMAIN log[s] : log[s][i] = f /\ log[s][j] = g => i = Place(s, f) /\ j = Place(s, g)
  BY <1>1, <1>2
<1> HIDE DEF Place
<1> QED
  BY <1>1, <1>3 DEF Precedes

\* Every stream carries a frame once, a turn's event ahead of its notification, and two
\* streams carry two notifications in the same order, live or replayed from the ring.
THEOREM HubKeepsOrder == ServicesSpec => []FramesInOrder
<1>1. Init => HubInv /\ OrderInv
  <2>1. ASSUME Init PROVE \A s \in Streams : On(log[s]) = {} /\ DOMAIN log[s] = {}
    BY <2>1 DEF Init, On
  <2>2. Init => OrderInv
    <3> SUFFICES ASSUME Init PROVE OrderInv
      OBVIOUS
    <3>1. ring = <<>> /\ DOMAIN ring = {} /\ \A n \in AgentNotes : todo[n] = {}
      BY DEF Init
    <3> QED
      BY <2>1, <3>1 DEF OrderInv, Distinct, NotesRouted, EventsSent, EventsFirst, SameOrder, Precedes
  <2> QED
    BY <2>2, InitHubInv
<1>2. HubInv /\ OrderInv /\ [Next]_hubvars => HubInv' /\ OrderInv'
  BY NextKeepsHubInv, NextKeepsOrder
<1>3. HubInv /\ OrderInv => FramesInOrder
  <2> SUFFICES ASSUME HubInv, OrderInv PROVE FramesInOrder
    OBVIOUS
  <2>1. \A s \in Streams : \A i, j \in DOMAIN log[s] : log[s][i] = log[s][j] => i = j
    BY DEF OrderInv, Distinct
  <2>2. \A s \in Streams : Put(s) = On(log[s])
    BY DEF Put, On
  <2>3. ASSUME NEW s \in Streams, NEW n \in AgentNotes, {Event(n), Note(n)} \subseteq Put(s)
        PROVE  Place(s, Event(n)) < Place(s, Note(n))
    BY <2>2, <2>3, PlaceOrder DEF OrderInv, EventsFirst
  <2>4. ASSUME NEW s \in Streams, NEW t \in Streams, NEW m \in Notes, NEW n \in Notes,
               {Note(m), Note(n)} \subseteq Put(s) \cap Put(t)
        PROVE  Place(s, Note(m)) < Place(s, Note(n)) <=> Place(t, Note(m)) < Place(t, Note(n))
    <3>1. Precedes(log[s], Note(m), Note(n)) <=> Precedes(log[t], Note(m), Note(n))
      BY <2>2, <2>4 DEF OrderInv, SameOrder
    <3> QED
      BY <2>4, <3>1, PlaceOrder
  <2> QED
    BY <2>1, <2>3, <2>4 DEF FramesInOrder
<1> QED
  BY <1>1, <1>2, <1>3, HubAlone, PTL DEF Spec

-----------------------------------------------------------------------------
(* What the permission service decides.                                    *)

\* Decisions f that were all given, g being the answers given so far.
Backed(f, g) == \A k \in DOMAIN f : k \in Keys /\ f[k] \in PM!Sticky /\ <<k, f[k]>> \in g
Heard(q, d, g) == \E k \in Keys : PM!Covers(k, KeyOf[q]) /\ <<k, d>> \in g

Cause(x, s, g) ==
  /\ x.result = "allowed" => /\ x.req \notin s.deny
                             /\ \/ x.req \in s.allow \/ x.bypass
                                \/ x.own \in {"allow", "always"} \/ Heard(x.req, "always", g)
  /\ x.result = "denied" => \/ x.req \in s.deny \/ ~s.prompter
                            \/ x.own \in {"deny", "always_deny"} \/ Heard(x.req, "always_deny", g)

\* What each place of a check says of it: a prompt is shown only where no
\* guardrail is, and an answer on its way was given.
Placed(x, s, g) ==
  /\ x.at = "asking" => x.req \in Requests /\ x.req \notin s.deny
  /\ x.at \in {"keep", "open", "write"} =>
       /\ x.req \in Requests /\ x.d \in PM!Sticky /\ <<KeyOf[x.req], x.d>> \in g
       /\ ~x.late => x.req \notin s.deny
  /\ x.at \in {"open", "write"} => Backed(x.data, g)
  /\ x.at = "done" => Cause(x, s, g)

PermInv ==
  /\ DOMAIN checker = Checkers
  /\ Backed(saved, given)
  /\ grants = PM!Torn \/ Backed(grants, given)
  /\ \A c \in Checkers : Placed(checker[c], setup, given)

\* Further answers take nothing back.
LEMMA FurtherAnswers ==
  ASSUME NEW g, NEW h, g \subseteq h
  PROVE  /\ \A f : Backed(f, g) => Backed(f, h)
         /\ \A x, s : Placed(x, s, g) => Placed(x, s, h)
<1>1. \A f : Backed(f, g) => Backed(f, h)
  BY DEF Backed
<1>2. \A q, d : Heard(q, d, g) => Heard(q, d, h)
  BY DEF Heard
<1>3. ASSUME NEW x, NEW s, Placed(x, s, g) PROVE Placed(x, s, h)
  BY <1>1, <1>2, <1>3 DEF Placed, Cause
<1> QED
  BY <1>1, <1>3

\* A step of one check that leaves memory and file with answers that were given.
LEMMA StepKeeps ==
  ASSUME PermInv, NEW c \in Checkers, NEW r, PM!Step(c, r), Placed(r, setup, given'),
         setup' = setup, given \subseteq given',
         Backed(saved', given'), grants' = PM!Torn \/ Backed(grants', given')
  PROVE  PermInv'
<1>1. /\ DOMAIN checker' = Checkers /\ checker'[c] = r
      /\ \A o \in Checkers : o # c => checker'[o] = checker[o]
  BY DEF PM!Step, PermInv
<1>2. \A o \in Checkers : Placed(checker[o], setup, given')
  BY FurtherAnswers DEF PermInv
<1>3. \A o \in Checkers : Placed(checker'[o], setup', given')
  BY <1>1, <1>2
<1> QED
  BY <1>1, <1>3 DEF PermInv

\* A step of one check that changes neither.
LEMMA StepFrame ==
  ASSUME PermInv, NEW c \in Checkers, NEW r, PM!Step(c, r), Placed(r, setup, given'),
         UNCHANGED <<setup, saved, grants>>, given \subseteq given'
  PROVE  PermInv'
<1>1. Backed(saved', given') /\ (grants' = PM!Torn \/ Backed(grants', given'))
  BY FurtherAnswers DEF PermInv
<1> QED
  BY <1>1, StepKeeps

\* effect: what the cascade says of a request has a cause.
LEMMA EffectCause ==
  ASSUME PermInv, NEW q, NEW e \in PM!Effect(q)
  PROVE  /\ e = "always" => q \notin setup.deny /\ (q \in setup.allow \/ Heard(q, "always", given))
         /\ e = "always_deny" => q \in setup.deny \/ Heard(q, "always_deny", given)
         /\ e = "ask" => q \notin setup.deny
         /\ e \in PM!Sticky \cup {"ask"}
<1> DEFINE hits == {k \in DOMAIN saved : PM!Covers(k, KeyOf[q])}
<1>1. \A k \in hits : saved[k] \in PM!Sticky /\ Heard(q, saved[k], given)
  BY DEF PermInv, Backed, Heard
<1>2. CASE q \in setup.deny
  BY <1>2 DEF PM!Effect, PM!Sticky
<1>3. CASE q \notin setup.deny /\ hits # {}
  <2>1. PICK k \in hits : e = saved[k]
    BY <1>3 DEF PM!Effect
  <2> QED
    BY <1>1, <1>3, <2>1 DEF PM!Sticky
<1>4. CASE q \notin setup.deny /\ hits = {}
  BY <1>4 DEF PM!Effect, PM!Sticky
<1> QED
  BY <1>2, <1>3, <1>4

LEMMA CheckKeeps ==
  ASSUME PermInv, NEW c \in Checkers, NEW q \in Requests, NEW s \in Callers, PM!Check(c, q, s)
  PROVE  PermInv'
<1>1. UNCHANGED <<setup, saved, grants, given>>
  BY DEF PM!Check
<1>2. PICK e, bypass, barred :
        /\ e \in PM!Effect(q)
        /\ \/ /\ e = "always" \/ (e = "ask" /\ bypass)
              /\ PM!Step(c, [at |-> "done", req |-> q, own |-> "none", result |-> "allowed",
                          bypass |-> bypass, barred |-> barred])
           \/ /\ e # "always" /\ (e = "always_deny" \/ ~setup.prompter)
              /\ PM!Step(c, [at |-> "done", req |-> q, own |-> "none", result |-> "denied",
                          bypass |-> bypass, barred |-> barred])
           \/ /\ e # "always" /\ e # "always_deny" /\ PM!Step(c, [at |-> "asking", req |-> q])
  BY DEF PM!Check, PM!EffectiveYolo
<1>3. /\ e = "always" => q \notin setup.deny /\ (q \in setup.allow \/ Heard(q, "always", given))
      /\ e = "always_deny" => q \in setup.deny \/ Heard(q, "always_deny", given)
      /\ e = "ask" => q \notin setup.deny
      /\ e \in {"always", "always_deny", "ask"}
  BY <1>2, EffectCause DEF PM!Sticky
<1>4. CASE /\ e = "always" \/ (e = "ask" /\ bypass)
           /\ PM!Step(c, [at |-> "done", req |-> q, own |-> "none", result |-> "allowed",
                       bypass |-> bypass, barred |-> barred])
  <2> DEFINE x == [at |-> "done", req |-> q, own |-> "none", result |-> "allowed",
                   bypass |-> bypass, barred |-> barred]
  <2>1. x.at = "done" /\ x.req = q /\ x.result = "allowed" /\ x.bypass = bypass
    OBVIOUS
  <2> HIDE DEF x
  <2>2. x.bypass \/ e = "always"
    BY <1>4, <2>1, Zenon
  <2>3. Cause(x, setup, given')
    BY <1>1, <1>3, <1>4, <2>1, <2>2 DEF Cause
  <2>4. Placed(x, setup, given') /\ PM!Step(c, x)
    BY <1>4, <2>1, <2>3 DEF Placed, x
  <2> QED
    BY <1>1, <2>4, StepFrame
<1>5. CASE /\ e # "always" /\ (e = "always_deny" \/ ~setup.prompter)
           /\ PM!Step(c, [at |-> "done", req |-> q, own |-> "none", result |-> "denied",
                       bypass |-> bypass, barred |-> barred])
  <2>1. Placed([at |-> "done", req |-> q, own |-> "none", result |-> "denied",
                bypass |-> bypass, barred |-> barred], setup, given')
    BY <1>1, <1>3, <1>5 DEF Placed, Cause
  <2> QED
    BY <1>1, <1>5, <2>1, StepFrame
<1>6. CASE e = "ask" /\ PM!Step(c, [at |-> "asking", req |-> q])
  <2>1. Placed([at |-> "asking", req |-> q], setup, given')
    BY <1>3, <1>6 DEF Placed
  <2> QED
    BY <1>1, <1>6, <2>1, StepFrame
<1> QED
  BY <1>2, <1>3, <1>4, <1>5, <1>6

\* An answer of his own is a cause.
LEMMA OwnCause ==
  ASSUME NEW c, NEW q, NEW own \in PM!Decisions, NEW g, PM!Answered(c, q, own),
         q \notin setup.deny
  PROVE  \E r : PM!Step(c, r) /\ Placed(r, setup, g)
<1> DEFINE r == [at |-> "done", req |-> q, own |-> own, bypass |-> FALSE, barred |-> FALSE,
                 result |-> IF own \in {"allow", "always"} THEN "allowed" ELSE "denied"]
<1>1. PM!Step(c, r)
  BY DEF PM!Answered
<1>2. Placed(r, setup, g)
  BY DEF Placed, Cause, PM!Decisions, PM!Sticky
<1> QED
  BY <1>1, <1>2

LEMMA AnswerKeeps ==
  ASSUME PermInv, NEW c \in Checkers, NEW d \in PM!Decisions, PM!Answer(c, d)
  PROVE  PermInv'
<1> DEFINE q == checker[c].req
<1>1. UNCHANGED <<setup, saved, grants>> /\ q \in Requests /\ q \notin setup.deny
  BY DEF PM!Answer, PermInv, Placed
<1>2. CASE d \in PM!Sticky
  <2>1. /\ given' = given \cup {<<KeyOf[q], d>>}
        /\ PM!Step(c, [at |-> "keep", req |-> q, d |-> d, late |-> FALSE])
    BY <1>2 DEF PM!Answer
  <2>2. Placed([at |-> "keep", req |-> q, d |-> d, late |-> FALSE], setup, given')
    BY <1>1, <1>2, <2>1 DEF Placed
  <2> QED
    BY <1>1, <2>1, <2>2, StepFrame
<1>3. CASE d \notin PM!Sticky
  <2>1. PM!Answered(c, q, d) /\ given' = given
    BY <1>3 DEF PM!Answer
  <2>2. \E r : PM!Step(c, r) /\ Placed(r, setup, given')
    BY <1>1, <2>1, OwnCause
  <2> QED
    BY <1>1, <2>1, <2>2, StepFrame
<1> QED
  BY <1>2, <1>3

LEMMA LateKeeps ==
  ASSUME PermInv, NEW c \in Checkers, NEW q \in Requests, NEW d \in PM!Sticky, PM!LateAnswer(c, q, d)
  PROVE  PermInv'
<1>1. /\ UNCHANGED <<setup, saved, grants>> /\ given' = given \cup {<<KeyOf[q], d>>}
      /\ PM!Step(c, [at |-> "keep", req |-> q, d |-> d, late |-> TRUE])
  BY DEF PM!LateAnswer
<1>2. Placed([at |-> "keep", req |-> q, d |-> d, late |-> TRUE], setup, given')
  BY <1>1 DEF Placed
<1> QED
  BY <1>1, <1>2, StepFrame

LEMMA KeepKeeps ==
  ASSUME PermInv, NEW c \in Checkers, PM!Keep(c), \A q \in Requests : KeyOf[q] \in Keys
  PROVE  PermInv'
<1> DEFINE x == checker[c]
           r == [at |-> "open", req |-> x.req, d |-> x.d, late |-> x.late, data |-> saved']
<1>1. /\ UNCHANGED <<setup, grants, given>> /\ saved' = PM!Kept(x.req, x.d) /\ PM!Step(c, r)
  BY DEF PM!Keep
<1>2. /\ x.req \in Requests /\ x.d \in PM!Sticky /\ <<KeyOf[x.req], x.d>> \in given
      /\ ~x.late => x.req \notin setup.deny
  BY DEF PM!Keep, PermInv, Placed
<1>3. Backed(saved', given)
  <2>1. KeyOf[x.req] \in Keys /\ Backed(saved, given)
    BY <1>2 DEF PermInv
  <2> HIDE DEF x
  <2> QED
    BY <1>1, <1>2, <2>1 DEF PM!Kept, PM!With, Backed
<1>4. Placed(r, setup, given')
  BY <1>1, <1>2, <1>3 DEF Placed
<1>5. grants' = PM!Torn \/ Backed(grants', given')
  BY <1>1 DEF PermInv
<1> HIDE DEF r
<1> QED
  BY <1>1, <1>3, <1>4, <1>5, StepKeeps

\* persist returns: to a check whose answer it was, or to the handler.
LEMMA ReturnCause ==
  ASSUME PermInv, NEW c \in Checkers, checker[c].at \in {"open", "write"}, PM!Returns(c), NEW g
  PROVE  \E r : PM!Step(c, r) /\ Placed(r, setup, g)
<1>1. /\ checker[c].d \in PM!Decisions
      /\ ~checker[c].late => checker[c].req \notin setup.deny
  BY DEF PermInv, Placed, PM!Decisions
<1>2. CASE checker[c].late
  <2>1. PM!Step(c, PM!Resting) /\ Placed(PM!Resting, setup, g)
    BY <1>2 DEF PM!Returns, PM!Resting, Placed
  <2> QED
    BY <2>1
<1>3. CASE ~checker[c].late
  BY <1>1, <1>3, OwnCause DEF PM!Returns
<1> QED
  BY <1>2, <1>3

LEMMA OpenKeeps ==
  ASSUME PermInv, NEW c \in Checkers, PM!Open(c) \/ PM!OpenFails(c)
  PROVE  PermInv'
<1> DEFINE x == checker[c]
           r == [at |-> "write", req |-> x.req, d |-> x.d, late |-> x.late, data |-> x.data]
<1>1. UNCHANGED <<setup, saved, given>> /\ Backed(saved', given')
  BY DEF PM!Open, PM!OpenFails, PermInv
<1>2. CASE PM!Open(c)
  <2>1. PM!Step(c, r) /\ grants' = PM!Torn
    BY <1>2 DEF PM!Open
  <2>2. Placed(r, setup, given')
    BY <1>1, <1>2 DEF PM!Open, PermInv, Placed
  <2> HIDE DEF r
  <2> QED
    BY <1>1, <2>1, <2>2, StepKeeps
<1>3. CASE PM!OpenFails(c)
  <2>1. \E s : PM!Step(c, s) /\ Placed(s, setup, given')
    BY <1>3, ReturnCause DEF PM!OpenFails
  <2>2. grants' = grants
    BY <1>3 DEF PM!OpenFails
  <2> QED
    BY <1>1, <2>1, <2>2, StepFrame
<1> QED
  BY <1>2, <1>3

LEMMA WriteKeeps ==
  ASSUME PermInv, NEW c \in Checkers, PM!Write(c)
  PROVE  PermInv'
<1>1. UNCHANGED <<setup, saved, given>> /\ Backed(saved', given')
  BY DEF PM!Write, PermInv
<1>2. Backed(checker[c].data, given)
  BY DEF PM!Write, PermInv, Placed
<1>3. grants' = PM!Torn \/ Backed(grants', given')
  BY <1>1, <1>2 DEF PM!Write, PermInv
<1>4. \E r : PM!Step(c, r) /\ Placed(r, setup, given')
  BY ReturnCause DEF PM!Write
<1> QED
  BY <1>1, <1>3, <1>4, StepKeeps

LEMMA RestKeeps ==
  ASSUME PermInv,
         \/ \E c \in Checkers : PM!Proceed(c)
         \/ \E on \in BOOLEAN : PM!SetYolo(on)
         \/ \E s \in Callers, on \in BOOLEAN : PM!SetSessionYolo(s, on)
         \/ PM!Restart \/ UNCHANGED PM!pmvars
  PROVE  PermInv'
<1>1. Placed(PM!Resting, setup, given)
  BY DEF Placed, PM!Resting
<1>2. ASSUME NEW c \in Checkers, PM!Proceed(c) PROVE PermInv'
  <2>1. UNCHANGED <<setup, saved, grants, given>> /\ PM!Step(c, PM!Resting)
    BY <1>2 DEF PM!Proceed
  <2> QED
    BY <1>1, <2>1, StepFrame
<1>3. CASE UNCHANGED <<setup, saved, grants, given, checker>>
  BY <1>3 DEF PermInv
<1>4. CASE PM!Restart
  <2>1. /\ UNCHANGED <<setup, grants, given>> /\ checker' = [c \in Checkers |-> PM!Resting]
        /\ saved' = PM!Loaded
    BY <1>4 DEF PM!Restart
  <2>2. Backed(PM!None, given)
    BY DEF Backed, PM!None
  <2>3. Backed(saved', given')
    BY <2>1, <2>2 DEF PM!Loaded, PermInv
  <2> QED
    BY <1>1, <2>1, <2>3 DEF PermInv
<1> QED
  BY <1>2, <1>3, <1>4 DEF PM!SetYolo, PM!SetSessionYolo, PM!pmvars

-----------------------------------------------------------------------------
\* Every decision has its cause: a guardrail is never passed, and nobody is
\* allowed or refused by an answer that no human gave, whatever was written to
\* permissions.json and read from it (effect, CheckWithContext, persist, load).
THEOREM DecisionsHaveCause == ServicesSpec => []DecidedForCause
<1>0. \A q \in Requests : KeyOf[q] \in Keys
  BY ServicesAssumption DEF PM!PermissionAssumption
<1>1. PM!Init => PermInv
  <2>1. Backed(PM!None, given) /\ Placed(PM!Resting, setup, given)
    BY DEF Backed, PM!None, Placed, PM!Resting
  <2> QED
    BY <2>1 DEF PM!Init, PermInv
<1>2. PermInv /\ [PM!Next]_PM!pmvars => PermInv'
  <2> SUFFICES ASSUME PermInv, [PM!Next]_PM!pmvars PROVE PermInv'
    OBVIOUS
  <2> QED
    BY <1>0, CheckKeeps, AnswerKeeps, LateKeeps, KeepKeeps, OpenKeeps, WriteKeeps, RestKeeps DEF PM!Next
<1>3. PermInv => DecidedForCause
  BY DEF PermInv, Placed, Cause, DecidedForCause, PM!DecidedForCause, PM!Judged, PM!Told, Heard
<1> QED
  BY <1>1, <1>2, <1>3, PermissionsAlone, PTL DEF PM!Spec

-----------------------------------------------------------------------------
(* The modal of a prompt.                                                  *)

Places == {"none", "queued", "waiting", "answered", "deciding", "resolved", "late", "failed"}
Answers == {"none", "user", "shutdown"}
HandlerRec == [at : Places, answer : Answers, tries : Nat]

\* The prompts of one life are counted: the next number is a new one.
OfLife(l) == {p \in raised : p[1] = l}
Counted ==
  /\ life \in 1..Lives /\ raised \subseteq PC!Prompts /\ approvals \subseteq raised
  /\ \A l \in 1..Lives : IsFiniteSet(OfLife(l)) /\ \A p \in OfLife(l) : PC!Number(p) <= Cardinality(OfLife(l))

\* A prompt that is pending and known to the terminal stays known to it.
Noticed(p) == handler[p].at # "none"
KnownStays ==
  /\ handler \in [PC!Prompts -> HandlerRec]
  /\ \A p \in PC!Prompts : Noticed(p) => p \in raised
  /\ \A p \in approvals : Noticed(p) => PC!Number(p) \in seen /\ (listed # Nobody => p \in listed)
  /\ listed # Nobody => listed \subseteq raised /\ \A p \in listed : Noticed(p) => PC!Number(p) \in seen

\* One modal at a time is on its way, that of the prompt whose goroutine holds promptMu.
OneModal ==
  /\ posted \subseteq PC!Prompts /\ screen \subseteq PC!Prompts /\ deferred \in PC!Prompts \cup {Nobody}
  /\ ui = "runs" =>
      /\ \A p \in PC!Prompts : PC!At(p, "waiting") => prompting = p /\ p \in posted \cup screen \cup {deferred}
      /\ \A p \in posted \cup screen \cup ({deferred} \ {Nobody}) : PC!At(p, "waiting")
      /\ posted \cap screen = {} /\ deferred \notin posted \cup screen
      /\ deferred # Nobody => timer \/ recheck

ModalInv == Counted /\ KnownStays /\ OneModal

\* The component counts as the theorems about finite sets do.
LEMMA PromptsCount == \A S : PC!Cardinality(S) = Cardinality(S)
BY DEF Cardinality, PC!Cardinality

LEMMA NumberType == PC!PromptAssumption => \A p \in PC!Prompts : PC!Number(p) \in 1..Numbers
BY DEF PC!PromptAssumption, PC!Prompts, PC!Number

LEMMA InitModalInv == PC!PromptAssumption /\ PC!Init => ModalInv
<1> SUFFICES ASSUME PC!PromptAssumption, PC!Init
             PROVE  ModalInv
  OBVIOUS
<1>1. Counted
  <2>1. 1 \in 1..Lives
    BY DEF PC!PromptAssumption
  <2>2. \A l \in 1..Lives : OfLife(l) = {}
    BY DEF PC!Init, OfLife
  <2> QED
    BY <2>1, <2>2, FS_EmptySet DEF PC!Init, Counted
<1>2. KnownStays
  <2>1. handler \in [PC!Prompts -> HandlerRec] /\ \A p \in PC!Prompts : ~Noticed(p)
    BY DEF PC!Init, Noticed, HandlerRec, PC!Away, Places, Answers
  <2> QED
    BY <2>1 DEF PC!Init, KnownStays
<1>3. OneModal
  BY DEF PC!Init, OneModal, PC!Away, PC!At
<1> QED
  BY <1>1, <1>2, <1>3 DEF ModalInv

\* A prompt that is raised is new.
LEMMA RaisedIsNew ==
  ASSUME PC!PromptAssumption, Counted, PC!Raise
  PROVE  /\ Counted' /\ UNCHANGED life
         /\ \E p \in PC!Prompts \ raised : raised' = raised \cup {p} /\ approvals' = approvals \cup {p}
<1> DEFINE n == Cardinality(OfLife(life)) + 1
           new == <<life, n>>
<1>1. n \in Nat /\ n > 0
  BY FS_CardinalityType DEF Counted
<1>2. n <= Numbers /\ raised' = raised \cup {new} /\ approvals' = approvals \cup {new} /\ life' = life
  BY PromptsCount DEF PC!Raise, OfLife
<1>3. new \in PC!Prompts
  BY <1>1, <1>2 DEF Counted, PC!Prompts, PC!PromptAssumption
<1>4. new \notin raised
  <2> SUFFICES ASSUME new \in raised PROVE FALSE
    OBVIOUS
  <2>1. new \in OfLife(life) /\ PC!Number(new) = n
    BY DEF OfLife, PC!Number
  <2> QED
    BY <1>1, <2>1, FS_CardinalityType DEF Counted
<1>5. ASSUME NEW l \in 1..Lives
      PROVE  IsFiniteSet(OfLife(l))' /\ \A p \in OfLife(l)' : PC!Number(p) <= Cardinality(OfLife(l)')
  <2>1. CASE l # life
    BY <1>2, <2>1 DEF Counted, OfLife
  <2>2. CASE l = life
    <3>1. OfLife(l)' = OfLife(l) \cup {new} /\ new \notin OfLife(l)
      BY <1>2, <1>4, <2>2 DEF OfLife
    <3>2. IsFiniteSet(OfLife(l)') /\ Cardinality(OfLife(l)') = n
      BY <2>2, <3>1, FS_AddElement DEF Counted
    <3>3. \A p \in OfLife(l) : PC!Number(p) \in Nat /\ PC!Number(p) <= n
      <4>1. \A p \in OfLife(l) : PC!Number(p) \in 1..Numbers
        BY NumberType DEF Counted, OfLife
      <4>2. \A p \in OfLife(l) : PC!Number(p) <= Cardinality(OfLife(l)) /\ Cardinality(OfLife(l)) \in Nat
        BY FS_CardinalityType DEF Counted
      <4> QED
        BY <2>2, <4>1, <4>2 DEF PC!PromptAssumption
    <3>4. PC!Number(new) = n
      BY DEF PC!Number
    <3> QED
      BY <1>1, <3>1, <3>2, <3>3, <3>4
  <2> QED
    BY <2>1, <2>2
<1> QED
  BY <1>2, <1>3, <1>4, <1>5 DEF Counted

LEMMA StepCounted == PC!PromptAssumption /\ Counted /\ [PC!Next]_PC!pcvars => Counted'
<1> SUFFICES ASSUME PC!PromptAssumption, Counted, [PC!Next]_PC!pcvars
             PROVE  Counted'
  OBVIOUS
<1>1. CASE PC!Raise
  BY <1>1, RaisedIsNew
<1>2. CASE PC!RestartDaemon
  <2>1. life' \in 1..Lives /\ raised' = raised /\ approvals' = {}
    BY <1>2 DEF PC!RestartDaemon, Counted, PC!PromptAssumption
  <2> QED
    BY <2>1 DEF Counted, OfLife
<1>3. CASE ~PC!Raise /\ ~PC!RestartDaemon
  <2>1. UNCHANGED <<life, raised>> /\ approvals' \subseteq approvals
    BY <1>3 DEF PC!Next, PC!pcvars, PC!daemon, PC!List, PC!Scan, PC!TimerFires, PC!Recheck, PC!Submit, PC!Quit, PC!Exit, PC!Lapse, PC!Removed, PC!Prompt, PC!Present,
                PC!PromptReturns, PC!Unsent, PC!Decide, PC!Choose
  <2> QED
    BY <2>1 DEF Counted, OfLife
<1> QED
  BY <1>1, <1>2, <1>3

\* What a goroutine does with its own record.
LEMMA TwoFieldsOfHandler ==
  ASSUME handler \in [PC!Prompts -> HandlerRec], NEW p \in PC!Prompts, NEW x \in Places,
         \/ \E y \in Answers : handler' = [handler EXCEPT ![p].at = x, ![p].answer = y]
         \/ \E y \in Nat : handler' = [handler EXCEPT ![p].tries = y, ![p].at = x]
         \/ PC!Goto(p, x)
  PROVE  /\ handler' \in [PC!Prompts -> HandlerRec] /\ handler'[p].at = x
         /\ \A q \in PC!Prompts \ {p} : handler'[q] = handler[q]
<1>1. CASE PC!Goto(p, x)
  BY <1>1 DEF PC!Goto, HandlerRec, Places
<1>2. ASSUME NEW y \in Answers, handler' = [handler EXCEPT ![p].at = x, ![p].answer = y]
      PROVE  /\ handler' \in [PC!Prompts -> HandlerRec] /\ handler'[p].at = x
             /\ \A q \in PC!Prompts \ {p} : handler'[q] = handler[q]
  <2> DEFINE f == [handler EXCEPT ![p].at = x]
  <2>1. f \in [PC!Prompts -> HandlerRec] /\ f[p].at = x /\ \A q \in PC!Prompts \ {p} : f[q] = handler[q]
    BY DEF HandlerRec
  <2>2. handler' = [f EXCEPT ![p].answer = y]
    BY <1>2
  <2> HIDE DEF f
  <2>3. handler' \in [PC!Prompts -> HandlerRec] /\ handler'[p].at = f[p].at
    BY <2>1, <2>2 DEF HandlerRec
  <2> QED
    BY <2>1, <2>2, <2>3
<1>3. ASSUME NEW y \in Nat, handler' = [handler EXCEPT ![p].tries = y, ![p].at = x]
      PROVE  /\ handler' \in [PC!Prompts -> HandlerRec] /\ handler'[p].at = x
             /\ \A q \in PC!Prompts \ {p} : handler'[q] = handler[q]
  <2> DEFINE f == [handler EXCEPT ![p].tries = y]
  <2>1. f \in [PC!Prompts -> HandlerRec] /\ \A q \in PC!Prompts \ {p} : f[q] = handler[q]
    BY DEF HandlerRec
  <2>2. handler' = [f EXCEPT ![p].at = x]
    BY <1>3
  <2> HIDE DEF f
  <2>3. handler' \in [PC!Prompts -> HandlerRec] /\ handler'[p].at = x
    BY <2>1, <2>2 DEF HandlerRec
  <2> QED
    BY <2>1, <2>2, <2>3
<1> QED
  BY <1>1, <1>2, <1>3

\* A goroutine of a prompt moves: from where, to where.
HandlerMoves(p) ==
  \/ PC!Prompt(p) \/ PC!PromptReturns(p) \/ PC!Unsent(p) \/ PC!Decide(p) \/ PC!Choose(p)

LEMMA MovedHandler ==
  ASSUME PC!PromptAssumption, KnownStays, NEW p \in PC!Prompts, HandlerMoves(p), p \in screen => Noticed(p)
  PROVE  /\ handler' \in [PC!Prompts -> HandlerRec] /\ Noticed(p) /\ Noticed(p)'
         /\ \A q \in PC!Prompts \ {p} : handler'[q] = handler[q]
         /\ handler'[p].at \notin {"none", "queued"}
         /\ ~PC!Prompt(p) => ~PC!At(p, "waiting")'
<1>0. handler \in [PC!Prompts -> HandlerRec]
  BY DEF KnownStays
<1> DEFINE Moved(x) == /\ handler' \in [PC!Prompts -> HandlerRec] /\ handler'[p].at = x
                       /\ \A q \in PC!Prompts \ {p} : handler'[q] = handler[q]
<1>1. ASSUME NEW x \in Places, PC!Goto(p, x)
      PROVE  Moved(x)
  BY <1>0, <1>1, TwoFieldsOfHandler
<1>2. ASSUME NEW x \in Places, NEW y \in Answers, handler' = [handler EXCEPT ![p].at = x, ![p].answer = y]
      PROVE  Moved(x)
  BY <1>0, <1>2, TwoFieldsOfHandler
<1>3. ASSUME PC!TryAgain(p)
      PROVE  \E x \in {"failed", "deciding"} : Moved(x)
  <2>1. handler[p].tries + 1 \in Nat
    BY <1>0 DEF HandlerRec
  <2>2. PICK x \in {"failed", "deciding"} : 
          handler' = [handler EXCEPT ![p].tries = handler[p].tries + 1, ![p].at = x]
    BY <1>3 DEF PC!TryAgain
  <2> QED
    BY <1>0, <2>1, <2>2, TwoFieldsOfHandler DEF Places
<1> HIDE DEF Moved
<1>4. \/ PC!At(p, "queued") /\ PC!Prompt(p) /\ \E x \in {"waiting", "deciding"} : Moved(x)
      \/ \E y \in {"answered", "waiting", "deciding"} : PC!At(p, y) /\ \E x \in {"failed", "deciding", "resolved", "late"} : Moved(x)
      \/ p \in screen /\ Moved("answered")
  <2>1. CASE PC!Prompt(p)
    BY <1>1, <1>2, <2>1 DEF PC!Prompt, Places, Answers
  <2>2. CASE PC!PromptReturns(p)
    BY <1>1, <1>2, <2>2 DEF PC!PromptReturns, Places, Answers
  <2>3. CASE PC!Choose(p)
    BY <1>2, <2>3 DEF PC!Choose, Places, Answers
  <2>4. CASE PC!Unsent(p)
    BY <1>1, <1>3, <2>4 DEF PC!Unsent, Places, Answers
  <2>5. CASE PC!Decide(p)
    <3>1. PC!At(p, "deciding") /\ (PC!TryAgain(p) \/ \E x \in {"resolved", "late"} : PC!Goto(p, x))
      BY <2>5 DEF PC!Decide, PC!Status
    <3> QED
      BY <1>1, <1>3, <3>1 DEF Places
  <2> QED
    BY <2>1, <2>2, <2>3, <2>4, <2>5 DEF HandlerMoves
<1> QED
  BY <1>4 DEF PC!At, Noticed, Moved

\* Every other step but a scan leaves the goroutines alone.
Others == \/ PC!Raise \/ PC!RestartDaemon \/ PC!List \/ PC!TimerFires \/ PC!Recheck \/ PC!Submit \/ PC!Quit \/ PC!Exit
          \/ \E p \in PC!Prompts : PC!Lapse(p) \/ PC!Present(p)

LEMMA StepKnownStays == PC!PromptAssumption /\ ModalInv /\ [PC!Next]_PC!pcvars => KnownStays'
<1> SUFFICES ASSUME PC!PromptAssumption, ModalInv, [PC!Next]_PC!pcvars
             PROVE  KnownStays'
  OBVIOUS
<1>0. Counted /\ KnownStays /\ OneModal /\ Nobody \notin PC!Prompts
  BY DEF ModalInv, PC!PromptAssumption
<1>a. Counted'
  BY <1>0, StepCounted
<1>1. CASE PC!Raise
  <2>1. PICK p \in PC!Prompts \ raised : raised' = raised \cup {p} /\ approvals' = approvals \cup {p}
    BY <1>0, <1>1, RaisedIsNew
  <2>2. UNCHANGED <<handler, seen, listed>>
    BY <1>1 DEF PC!Raise, PC!poll
  <2>3. ~Noticed(p)
    BY <1>0, <2>1 DEF KnownStays
  <2> QED
    BY <1>0, <2>1, <2>2, <2>3 DEF KnownStays, Noticed
<1>2. CASE PC!List
  BY <1>0, <1>2 DEF PC!List, KnownStays, Noticed, Counted, PC!daemon
<1>3. CASE PC!Scan
  <2>1. listed # Nobody /\ listed \subseteq PC!Prompts /\ UNCHANGED <<raised, approvals>>
    BY <1>0, <1>3 DEF PC!Scan, KnownStays, Counted, PC!daemon
  <2>2. handler' \in [PC!Prompts -> HandlerRec]
    <3>1. [PC!Away EXCEPT !.at = "queued"] \in HandlerRec
      BY DEF PC!Away, HandlerRec, Places, Answers
    <3> QED
      BY <1>0, <1>3, <3>1 DEF PC!Scan, KnownStays
  <2>3. \A p \in PC!Prompts : Noticed(p)' => Noticed(p) \/ p \in listed
    BY <1>3 DEF PC!Scan, Noticed
  <2>4. \A p \in listed : PC!Number(p) \in seen'
    BY <1>3 DEF PC!Scan, PC!NumbersOf
  <2>5. listed' = Nobody
    BY <1>3 DEF PC!Scan
  <2>6. \A p \in approvals : Noticed(p)' => p \in listed
    BY <1>0, <2>1, <2>3 DEF KnownStays, Counted
  <2>7. \A p \in PC!Prompts : Noticed(p)' => p \in raised
    BY <1>0, <2>1, <2>3 DEF KnownStays, Counted
  <2> QED
    BY <2>1, <2>2, <2>4, <2>5, <2>6, <2>7 DEF KnownStays
<1>4. ASSUME NEW p \in PC!Prompts, HandlerMoves(p)
      PROVE  KnownStays'
  <2>1. UNCHANGED <<raised, listed, seen>> /\ approvals' \subseteq approvals
    BY <1>4 DEF HandlerMoves, PC!Prompt, PC!PromptReturns, PC!Unsent, PC!Decide, PC!Choose, PC!Removed, PC!poll, PC!daemon
  <2>2. p \in screen /\ ui = "runs" => Noticed(p)
    BY <1>0 DEF OneModal, PC!At, Noticed
  <2>3. handler' \in [PC!Prompts -> HandlerRec] /\ Noticed(p) /\ Noticed(p)' /\ \A q \in PC!Prompts \ {p} : handler'[q] = handler[q]
    <3>1. CASE PC!Choose(p)
      BY <1>0, <1>4, <2>2, <3>1, MovedHandler DEF PC!Choose
    <3>2. CASE ~PC!Choose(p)
      <4>1. Noticed(p)
        BY <1>4, <3>2 DEF HandlerMoves, Noticed, PC!At, PC!Prompt, PC!PromptReturns, PC!Unsent, PC!Decide
      <4> QED
        BY <1>0, <1>4, <4>1, MovedHandler
    <3> QED
      BY <3>1, <3>2
  <2>4. \A q \in PC!Prompts : Noticed(q)' <=> Noticed(q)
    BY <2>3 DEF Noticed
  <2> QED
    BY <1>0, <1>a, <2>1, <2>3, <2>4 DEF KnownStays, Counted
<1>5. CASE Others /\ ~PC!Raise /\ ~PC!List
  <2>1. UNCHANGED <<raised, listed, seen, handler>> /\ approvals' \subseteq approvals
    BY <1>5 DEF Others, PC!RestartDaemon, PC!TimerFires, PC!Recheck, PC!Submit, PC!Quit, PC!Exit, PC!Lapse, PC!Present, PC!Removed, PC!poll, PC!daemon
  <2> QED
    BY <1>0, <1>a, <2>1 DEF KnownStays, Noticed, Counted
<1>6. CASE UNCHANGED PC!pcvars
  BY <1>0, <1>6 DEF PC!pcvars, KnownStays, Noticed
<1> QED
  BY <1>1, <1>2, <1>3, <1>4, <1>5, <1>6 DEF PC!Next, Others, HandlerMoves

LEMMA StepOneModal == PC!PromptAssumption /\ ModalInv /\ [PC!Next]_PC!pcvars => OneModal'
<1> SUFFICES ASSUME PC!PromptAssumption, ModalInv, [PC!Next]_PC!pcvars
             PROVE  OneModal'
  OBVIOUS
<1>0. Counted /\ KnownStays /\ OneModal /\ Nobody \notin PC!Prompts
  BY DEF ModalInv, PC!PromptAssumption
<1>1. CASE PC!Raise \/ PC!RestartDaemon \/ PC!List \/ \E p \in PC!Prompts : PC!Lapse(p)
  <2>1. UNCHANGED <<handler, prompting, posted, deferred, timer, recheck, screen, ui>>
    BY <1>1 DEF PC!Raise, PC!RestartDaemon, PC!List, PC!Lapse, PC!modals
  <2> QED
    BY <1>0, <2>1 DEF OneModal, PC!At
<1>2. CASE PC!Scan
  <2>1. UNCHANGED <<prompting, posted, deferred, timer, recheck, screen, ui>>
    BY <1>2 DEF PC!Scan, PC!modals
  <2>2. listed # Nobody /\ listed \subseteq PC!Prompts
    BY <1>0, <1>2 DEF PC!Scan, KnownStays, Counted
  <2>3. \A p \in PC!Prompts : PC!At(p, "waiting")' <=> PC!At(p, "waiting")
    <3>1. ASSUME NEW p \in PC!Prompts
          PROVE  handler'[p] = handler[p] \/ (~PC!At(p, "waiting") /\ ~PC!At(p, "waiting")')
      <4>1. CASE p \in listed /\ PC!Number(p) \notin seen
        <5>1. ~Noticed(p)
          BY <1>0, <2>2, <4>1 DEF KnownStays
        <5> QED
          BY <1>2, <4>1, <5>1 DEF PC!Scan, Noticed, PC!At, PC!Away
      <4>2. CASE ~(p \in listed /\ PC!Number(p) \notin seen)
        BY <1>2, <4>2 DEF PC!Scan
      <4> QED
        BY <4>1, <4>2
    <3> QED
      BY <3>1 DEF PC!At
  <2> QED
    BY <1>0, <2>1, <2>3 DEF OneModal
<1>3. CASE PC!TimerFires
  BY <1>0, <1>3 DEF PC!TimerFires, OneModal, PC!At
<1>4. CASE PC!Recheck
  BY <1>0, <1>4 DEF PC!Recheck, OneModal, PC!At, PC!MaybeShow, PC!Drain
<1>5. CASE PC!Submit
  BY <1>0, <1>5 DEF PC!Submit, OneModal, PC!At, PC!Drain
<1>6. CASE PC!Quit \/ PC!Exit
  BY <1>0, <1>6 DEF PC!Quit, PC!Exit, OneModal, PC!modals
<1>7. ASSUME NEW p \in PC!Prompts, HandlerMoves(p)
      PROVE  OneModal'
  <2>1. handler' \in [PC!Prompts -> HandlerRec] /\ (~PC!Prompt(p) => ~PC!At(p, "waiting")') /\ \A q \in PC!Prompts \ {p} : handler'[q] = handler[q]
    <3>1. p \in screen /\ ui = "runs" => Noticed(p)
      BY <1>0 DEF OneModal, PC!At, Noticed
    <3>2. CASE PC!Choose(p)
      BY <1>0, <1>7, <3>1, <3>2, MovedHandler DEF PC!Choose
    <3>3. CASE ~PC!Choose(p)
      <4>1. Noticed(p)
        BY <1>7, <3>3 DEF HandlerMoves, Noticed, PC!At, PC!Prompt, PC!PromptReturns, PC!Unsent, PC!Decide
      <4> QED
        BY <1>0, <1>7, <4>1, MovedHandler
    <3> QED
      BY <3>2, <3>3
  <2>2. \A q \in PC!Prompts \ {p} : PC!At(q, "waiting")' <=> PC!At(q, "waiting")
    BY <2>1 DEF PC!At
  <2>3. CASE PC!Prompt(p) /\ ui = "runs"
    <3>1. prompting = Nobody /\ prompting' = p /\ posted' = posted \cup {p} /\ PC!At(p, "waiting")' /\ ~PC!At(p, "waiting")
      BY <1>0, <2>3 DEF PC!Prompt, PC!PromptFree, PC!Goto, PC!At, KnownStays, HandlerRec, Places
    <3>2. UNCHANGED <<deferred, timer, recheck, screen, ui>>
      BY <2>3 DEF PC!Prompt
    <3>3. \A q \in PC!Prompts : ~PC!At(q, "waiting")
      BY <1>0, <2>3, <3>1 DEF OneModal
    <3> QED
      BY <1>0, <2>2, <2>3, <3>1, <3>2, <3>3 DEF OneModal
  <2>4. CASE ~PC!Prompt(p) \/ ui # "runs"
    <3>1. CASE PC!Choose(p)
      <4>1. ui = "runs" /\ p \in screen /\ screen' = screen \ {p} /\ UNCHANGED <<posted, deferred, timer, recheck, ui>>
        BY <3>1 DEF PC!Choose
      <4>2. PC!At(p, "waiting") /\ p \notin posted /\ p # deferred
        BY <1>0, <4>1 DEF OneModal
      <4>3. \A q \in PC!Prompts \ {p} : ~PC!At(q, "waiting")
        BY <1>0, <4>1, <4>2 DEF OneModal
      <4>4. \A q \in PC!Prompts : ~PC!At(q, "waiting")'
        <5>1. ~PC!Prompt(p)
          BY <3>1, <4>2 DEF PC!Prompt, PC!At
        <5> QED
          BY <2>1, <2>2, <4>3, <5>1
      <4>5. posted' \cup screen' \cup ({deferred'} \ {Nobody}) = {}
        BY <1>0, <4>1, <4>2, <4>3 DEF OneModal
      <4> QED
        BY <1>0, <4>1, <4>4, <4>5 DEF OneModal
    <3>2. CASE ~PC!Choose(p) /\ ui = "runs"
      <4>1. ~PC!At(p, "waiting") /\ ~PC!At(p, "waiting")'
        BY <1>7, <2>1, <2>4, <3>2 DEF HandlerMoves, PC!PromptReturns, PC!Unsent, PC!Decide, PC!At
      <4>2. UNCHANGED <<posted, deferred, timer, recheck, screen, ui>>
        BY <1>7, <2>4, <3>2 DEF HandlerMoves, PC!PromptReturns, PC!Unsent, PC!Decide, PC!modals
      <4>3. \A q \in PC!Prompts : PC!At(q, "waiting") => prompting' = q
        BY <1>0, <1>7, <2>4, <3>2, <4>1 DEF HandlerMoves, PC!PromptReturns, PC!Unsent, PC!Decide, OneModal
      <4> QED
        BY <1>0, <2>2, <3>2, <4>1, <4>2, <4>3 DEF OneModal
    <3>3. CASE ui # "runs"
      BY <1>0, <1>7, <3>3 DEF HandlerMoves, PC!Prompt, PC!Choose, PC!PromptReturns, PC!Unsent, PC!Decide, OneModal, PC!modals
    <3> QED
      BY <3>1, <3>2, <3>3
  <2> QED
    BY <2>3, <2>4
<1>8. ASSUME NEW p \in PC!Prompts, PC!Present(p)
      PROVE  OneModal'
  BY <1>0, <1>8 DEF PC!Present, OneModal, PC!At, PC!MaybeShow, PC!Drain
<1>9. CASE UNCHANGED PC!pcvars
  BY <1>0, <1>9 DEF PC!pcvars, OneModal, PC!At
<1> QED
  BY <1>1, <1>2, <1>3, <1>4, <1>5, <1>6, <1>7, <1>8, <1>9 DEF PC!Next, HandlerMoves

LEMMA ModalInvHolds == PC!PromptAssumption /\ ModalInv => PC!ModalNotLost
<1> SUFFICES ASSUME PC!PromptAssumption, ModalInv, ui = "runs", NEW p \in PC!Prompts, PC!At(p, "waiting")
             PROVE  prompting = p /\ Cardinality({w \in {"posted", "held", "shown"} :
                       \/ w = "posted" /\ p \in posted
                       \/ w = "held" /\ deferred = p /\ (timer \/ recheck)
                       \/ w = "shown" /\ p \in screen}) = 1
  BY PromptsCount DEF PC!ModalNotLost
<1> DEFINE places == {w \in {"posted", "held", "shown"} :
                       \/ w = "posted" /\ p \in posted
                       \/ w = "held" /\ deferred = p /\ (timer \/ recheck)
                       \/ w = "shown" /\ p \in screen}
<1>1. prompting = p /\ p \in posted \cup screen \cup {deferred} /\ posted \cap screen = {} /\ deferred \notin posted \cup screen
  BY DEF ModalInv, OneModal
<1>2. deferred = p => timer \/ recheck
  BY DEF ModalInv, OneModal, PC!PromptAssumption
<1>3. places = {"posted"} \/ places = {"held"} \/ places = {"shown"}
  BY <1>1, <1>2
<1> HIDE DEF places
<1>4. Cardinality(places) = 1
  BY <1>3, FS_Singleton
<1> QED
  BY <1>1, <1>4 DEF places

\* The invariant of the terminal's prompts.
LEMMA ModalInvStays == ServicesSpec => []ModalInv
<1>1. PC!PromptAssumption
  BY ServicesAssumption
<1>2. PC!Init => ModalInv
  BY <1>1, InitModalInv
<1>3. ModalInv /\ [PC!Next]_(PC!pcvars) => ModalInv'
  BY <1>1, StepCounted, StepKnownStays, StepOneModal DEF ModalInv
<1> QED
  BY <1>2, <1>3, PromptsAlone, PTL DEF PC!Spec

\* A tool that waits for an answer has its modal on the way, and in one place,
\* whatever the daemon, the poller and the people do meanwhile
\* (serializePrompt, maybeShowDeferredModal).
THEOREM ModalsKept == ServicesSpec => []ModalNotLost
<1>1. ModalInv => ModalNotLost
  BY ModalInvHolds, ServicesAssumption DEF ModalNotLost
<1> QED
  BY <1>1, ModalInvStays, PTL

\* No prompt that the poller has presented is presented again, whatever is
\* listed meanwhile and however often (pollApprovals, scanApprovals).
THEOREM PromptsPresentedOnce == ServicesSpec => PresentedOnce
<1>1. PC!PromptAssumption
  BY ServicesAssumption
<1>2. ModalInv /\ [PC!Next]_PC!pcvars =>
        [\A p \in PC!Prompts : PC!At(p, "none") \/ handler'[p].at \notin {"none", "queued"} \/ handler'[p] = handler[p]]_PC!pcvars
  <2> SUFFICES ASSUME ModalInv, PC!Next, NEW p \in PC!Prompts, ~PC!At(p, "none")
               PROVE  handler'[p].at \notin {"none", "queued"} \/ handler'[p] = handler[p]
    BY DEF PC!Next
  <2>1. CASE PC!Scan
    <3>1. listed # Nobody /\ (p \in listed => PC!Number(p) \in seen)
      BY <2>1 DEF PC!Scan, ModalInv, KnownStays, Noticed, PC!At
    <3> QED
      BY <2>1, <3>1 DEF PC!Scan
  <2>2. ASSUME NEW q \in PC!Prompts, HandlerMoves(q)
        PROVE  handler'[p].at \notin {"none", "queued"} \/ handler'[p] = handler[p]
    <3>1. Noticed(q)
      BY <2>2 DEF HandlerMoves, Noticed, PC!At, PC!Prompt, PC!PromptReturns, PC!Unsent, PC!Decide, PC!Choose, ModalInv, OneModal
    <3>2. handler'[q].at \notin {"none", "queued"} /\ \A r \in PC!Prompts \ {q} : handler'[r] = handler[r]
      BY <2>2, <3>1, <1>1, MovedHandler DEF ModalInv
    <3> QED
      BY <3>2
  <2>3. CASE Others
    BY <2>3 DEF Others, PC!Raise, PC!RestartDaemon, PC!List, PC!TimerFires, PC!Recheck, PC!Submit, PC!Quit, PC!Exit, PC!Lapse, PC!Present
  <2> QED
    BY <2>1, <2>2, <2>3 DEF PC!Next, Others, HandlerMoves
<1> QED
  BY <1>2, ModalInvStays, PromptsAlone, PTL DEF PC!Spec, PresentedOnce, PC!PresentedOnce
-----------------------------------------------------------------------------
(* The log stream.                                                         *)

\* The n records that ever reached the ring have their places in pos, from 1 on; the
\* others have place 0.  The ring holds the last of them.
RingOrder(pos, n) ==
  /\ n \in Nat /\ pos \in [LT!Records -> 0..n]
  /\ \A r, s \in LT!Records : pos[r] = pos[s] /\ pos[r] # 0 => r = s
  /\ \A r \in LT!Records : r \in logging \/ r > stamped => pos[r] = 0
  /\ Len(records) <= n
  /\ \A i \in 1..Len(records) : pos[records[i]] = n - Len(records) + i

\* Of two records that go to the window one after the other the later reached the
\* ring later, or at most so much earlier that both were in it.
Follows(pos, r, s) == pos[r] - pos[s] < RingSize
Along(pos, s) == \A i, j \in 1..Len(s) : i < j => Follows(pos, s[i], s[j])
Ahead(pos, s, t) == \A i \in 1..Len(s), j \in 1..Len(t) : Follows(pos, s[i], t[j])

Ringed(pos, s) == \A i \in 1..Len(s) : pos[s[i]] # 0

LogType ==
  /\ logging \subseteq LT!Records /\ stamped \in 0..MaxRecords /\ \A r \in logging : r <= stamped
  /\ records \in Seq(LT!Records) /\ Len(records) <= RingSize
  /\ server \in [at : {"off", "asked", "history", "live"}, from : Nat, hold : Seq(LT!Records)]
  /\ server.at \in {"off", "asked"} => server.hold = <<>>
  /\ sent \in Seq(LT!Records) /\ since \in Nat
  /\ keys \in Seq(LT!Records) /\ shown \in Seq(LT!Records)

Flow(pos) ==
  /\ Ringed(pos, shown) /\ Ringed(pos, sent) /\ Ringed(pos, server.hold)
  /\ Along(pos, shown) /\ Along(pos, sent) /\ Along(pos, server.hold)
  /\ Ahead(pos, shown, sent) /\ Ahead(pos, shown, server.hold) /\ Ahead(pos, sent, server.hold)

Once == \A i, j \in 1..Len(shown) : shown[i] = shown[j] => i = j

LogInv ==
  /\ LogType /\ Once /\ keys = LT!Newest(shown, DedupCap)
  /\ \E n \in Nat, pos \in [LT!Records -> Nat] : RingOrder(pos, n) /\ Flow(pos)

-----------------------------------------------------------------------------
(* Sequences.                                                              *)

\* the last n elements
LEMMA NewestIs ==
  ASSUME NEW S, NEW s \in Seq(S), NEW n \in Nat
  PROVE  /\ LT!Newest(s, n) \in Seq(S)
         /\ Len(LT!Newest(s, n)) = IF Len(s) > n THEN n ELSE Len(s)
         /\ \A i \in 1..Len(LT!Newest(s, n)) :
              LT!Newest(s, n)[i] = s[Len(s) - Len(LT!Newest(s, n)) + i]
<1>1. CASE Len(s) > n
  <2>1. LT!Newest(s, n) = SubSeq(s, Len(s) - n + 1, Len(s))
    BY <1>1 DEF LT!Newest
  <2>2. Len(s) - n + 1 \in 1..Len(s) + 1 /\ Len(s) \in Nat /\ Len(s) - n + 1 \in Int
    BY <1>1
  <2>3. LT!Newest(s, n) \in Seq(S)
    BY <2>1, <2>2
  <2>4. Len(LT!Newest(s, n)) = n
    BY <1>1, <2>1, <2>2
  <2>5. ASSUME NEW i \in 1..n
        PROVE  LT!Newest(s, n)[i] = s[Len(s) - n + i]
    BY <1>1, <2>1, <2>2
  <2> QED
    BY <1>1, <2>3, <2>4, <2>5
<1>2. CASE ~(Len(s) > n)
  BY <1>2 DEF LT!Newest
<1> QED
  BY <1>1, <1>2

\* Who remembers the newest and sees one more remembers the newest.
LEMMA NewestGrows ==
  ASSUME NEW S, NEW s \in Seq(S), NEW x \in S, NEW n \in Nat \ {0}
  PROVE  LT!Newest(Append(LT!Newest(s, n), x), n) = LT!Newest(Append(s, x), n)
<1> DEFINE t == LT!Newest(s, n)
           tx == Append(t, x)
           sx == Append(s, x)
           a == LT!Newest(tx, n)
           b == LT!Newest(sx, n)
<1>1. t \in Seq(S) /\ Len(t) = (IF Len(s) > n THEN n ELSE Len(s))
      /\ \A i \in 1..Len(t) : t[i] = s[Len(s) - Len(t) + i]
  BY NewestIs
<1> HIDE DEF t
<1>2. tx \in Seq(S) /\ Len(tx) = Len(t) + 1 /\ sx \in Seq(S) /\ Len(sx) = Len(s) + 1
  BY <1>1
<1>8. (\A i \in 1..Len(t) : tx[i] = t[i]) /\ tx[Len(t) + 1] = x /\ (\A i \in 1..Len(s) : sx[i] = s[i]) /\ sx[Len(s) + 1] = x
  BY <1>1
<1> HIDE DEF tx, sx
<1>3. a \in Seq(S) /\ Len(a) = (IF Len(t) + 1 > n THEN n ELSE Len(t) + 1)
      /\ \A i \in 1..Len(a) : a[i] = tx[Len(t) + 1 - Len(a) + i]
  <2>1. a \in Seq(S) /\ Len(a) = (IF Len(tx) > n THEN n ELSE Len(tx))
        /\ \A i \in 1..Len(a) : a[i] = tx[Len(tx) - Len(a) + i]
    BY <1>2, NewestIs
  <2>2. Len(a) = (IF Len(t) + 1 > n THEN n ELSE Len(t) + 1)
    BY <1>2, <2>1
  <2>3. ASSUME NEW i \in 1..Len(a)
        PROVE  a[i] = tx[Len(t) + 1 - Len(a) + i]
    <3>1. Len(tx) - Len(a) + i = Len(t) + 1 - Len(a) + i
      BY <1>2
    <3>2. a[i] = tx[Len(tx) - Len(a) + i]
      BY <2>1
    <3> QED
      BY <3>1, <3>2
  <2> QED
    BY <2>1, <2>2, <2>3
<1>4. b \in Seq(S) /\ Len(b) = (IF Len(s) + 1 > n THEN n ELSE Len(s) + 1)
      /\ \A i \in 1..Len(b) : b[i] = sx[Len(s) + 1 - Len(b) + i]
  BY <1>2, NewestIs
<1> HIDE DEF a, b
<1>5. Len(a) = Len(b) /\ Len(s) \in Nat /\ Len(t) \in Nat /\ Len(a) <= Len(t) + 1 /\ Len(t) <= Len(s)
  BY <1>1, <1>3, <1>4
<1>6. ASSUME NEW i \in 1..Len(a)
      PROVE  a[i] = b[i]
  <2>1. a[i] = tx[Len(t) + 1 - Len(a) + i] /\ b[i] = sx[Len(s) + 1 - Len(a) + i]
    BY <1>3, <1>4, <1>5
  <2>2. CASE i = Len(a)
    BY <1>5, <1>8, <2>1, <2>2
  <2>3. CASE i # Len(a)
    <3>1. Len(t) + 1 - Len(a) + i \in 1..Len(t) /\ Len(s) + 1 - Len(a) + i \in 1..Len(s)
      BY <1>5, <2>3
    <3>2. a[i] = t[Len(t) + 1 - Len(a) + i] /\ b[i] = s[Len(s) + 1 - Len(a) + i]
      BY <1>8, <2>1, <3>1
    <3>3. t[Len(t) + 1 - Len(a) + i] = s[Len(s) - Len(t) + (Len(t) + 1 - Len(a) + i)]
      BY <1>1, <3>1
    <3>4. Len(s) - Len(t) + (Len(t) + 1 - Len(a) + i) = Len(s) + 1 - Len(a) + i
      BY <1>5
    <3> QED
      BY <3>2, <3>3, <3>4
  <2> QED
    BY <2>2, <2>3
<1>7. a = b
  BY <1>3, <1>4, <1>5, <1>6
<1> QED
  BY <1>7 DEF a, b, t, tx, sx

\* Between a record and a time when it was or is in the ring so few others can have
\* been shown that its key is still there.
LEMMA FewSince ==
  ASSUME LT!LogAssumption, LogType, Once, NEW n \in Nat, NEW pos \in [LT!Records -> Nat],
         RingOrder(pos, n), Flow(pos), NEW i \in 1..Len(shown),
         \A j \in 1..Len(shown) : i < j => pos[shown[j]] - pos[shown[i]] < RingSize
  PROVE  Len(shown) - i < DedupCap
<1> SUFFICES ASSUME Len(shown) - i >= DedupCap
             PROVE  FALSE
  BY DEF LT!LogAssumption
<1> DEFINE later == i + 1 .. Len(shown)
           p == pos[shown[i]]
           near == (p - RingSize + 1 .. p + RingSize - 1) \ {p}
           f == [j \in later |-> pos[shown[j]]]
<1>1. RingSize \in Nat \ {0} /\ DedupCap \in Nat /\ DedupCap >= 2 * RingSize - 1
  BY DEF LT!LogAssumption
<1>2. Len(shown) \in Nat /\ i \in Nat /\ \A j \in 1..Len(shown) : shown[j] \in LT!Records /\ pos[shown[j]] \in Nat
  BY SMTT(30) DEF LogType
<1>3. IsFiniteSet(later) /\ Cardinality(later) = Len(shown) - i
  BY <1>1, <1>2, FS_Interval
<1>4. IsFiniteSet(near) /\ Cardinality(near) = 2 * RingSize - 2
  <2>1. p \in Nat /\ p - RingSize + 1 \in Int /\ p + RingSize - 1 \in Int /\ p \in p - RingSize + 1 .. p + RingSize - 1
    BY <1>1, <1>2
  <2> DEFINE lo == p - RingSize + 1
             hi == p + RingSize - 1
             around == lo .. hi
  <2>2. lo \in Int /\ hi \in Int /\ ~(lo > hi) /\ hi - lo + 1 = 2 * RingSize - 1 /\ p \in around
    <3> HIDE DEF p
    <3> QED
      BY <1>1, <2>1
  <2> HIDE DEF lo, hi
  <2>3. IsFiniteSet(around) /\ Cardinality(around) = 2 * RingSize - 1
    BY <2>2, FS_Interval
  <2> HIDE DEF around, p
  <2>4. IsFiniteSet(around \ {p}) /\ Cardinality(around \ {p}) = (2 * RingSize - 1) - 1
    BY <2>2, <2>3, FS_RemoveElement
  <2>5. (2 * RingSize - 1) - 1 = 2 * RingSize - 2
    BY <1>1
  <2> QED
    BY <2>4, <2>5 DEF around, lo, hi, p
<1>5. f \in [later -> near]
  <2> SUFFICES ASSUME NEW j \in later
               PROVE  pos[shown[j]] \in near
    OBVIOUS
  <2>1. j \in 1..Len(shown) /\ i < j /\ i # j
    BY <1>2
  <2>2. pos[shown[j]] - p < RingSize /\ p - pos[shown[j]] < RingSize
    BY <2>1 DEF Flow, Along, Follows
  <2>3. pos[shown[j]] # p
    <3>1. shown[i] # shown[j]
      BY <2>1 DEF Once
    <3>2. pos[shown[i]] # 0
      BY DEF Flow, Ringed
    <3> QED
      BY <1>2, <2>1, <3>1, <3>2 DEF RingOrder
  <2> QED
    BY <1>1, <1>2, <2>1, <2>2, <2>3
<1>6. \A j, k \in later : f[j] = f[k] => j = k
  <2> SUFFICES ASSUME NEW j \in later, NEW k \in later, pos[shown[j]] = pos[shown[k]]
               PROVE  j = k
    OBVIOUS
  <2>1. j \in 1..Len(shown) /\ k \in 1..Len(shown)
    BY <1>2
  <2>2. pos[shown[j]] # 0
    BY <2>1 DEF Flow, Ringed
  <2>3. shown[j] = shown[k]
    BY <1>2, <2>1, <2>2 DEF RingOrder
  <2> QED
    BY <2>1, <2>3 DEF Once
<1>7. Cardinality(near) < Cardinality(later)
  BY <1>1, <1>2, <1>3, <1>4
<1> HIDE DEF f, near, later
<1>8. \E j, k \in later : j # k /\ f[j] = f[k]
  BY <1>3, <1>4, <1>5, <1>7, FS_PigeonHole
<1> QED
  BY <1>6, <1>8

\* A record that was shown and may come again is remembered.
LEMMA StillKnown ==
  ASSUME LT!LogAssumption, LogInv, NEW i \in 1..Len(shown), Len(shown) - i < DedupCap
  PROVE  shown[i] \in LT!Range(keys)
<1>1. shown \in Seq(LT!Records) /\ DedupCap \in Nat /\ keys = LT!Newest(shown, DedupCap) /\ Len(shown) \in Nat
  BY DEF LogInv, LogType, LT!LogAssumption
<1>2. keys \in Seq(LT!Records) /\ Len(keys) = (IF Len(shown) > DedupCap THEN DedupCap ELSE Len(shown))
      /\ \A k \in 1..Len(keys) : keys[k] = shown[Len(shown) - Len(keys) + k]
  BY <1>1, NewestIs
<1> DEFINE k == i - Len(shown) + Len(keys)
<1>3. k \in 1..Len(keys) /\ Len(shown) - Len(keys) + k = i
  <2>1. Len(keys) \in Nat /\ i \in Nat /\ i >= 1 /\ i <= Len(shown) /\ Len(shown) - i < DedupCap
    BY <1>1, <1>2
  <2>2. Len(keys) = DedupCap \/ Len(keys) = Len(shown)
    BY <1>2
  <2> QED
    BY <1>1, <2>1, <2>2
<1>4. keys[k] = shown[i] /\ k \in DOMAIN keys
  BY <1>2, <1>3
<1> QED
  BY <1>4 DEF LT!Range


LEMMA InitLogInv == LT!LogAssumption /\ LT!Init => LogInv
<1> SUFFICES ASSUME LT!LogAssumption, LT!Init
             PROVE  LogInv
  OBVIOUS
<1>1. LogType
  BY DEF LT!Init, LT!LogAssumption, LogType, LT!Off
<1>2. Once /\ keys = LT!Newest(shown, DedupCap)
  BY DEF LT!Init, LT!LogAssumption, Once, LT!Newest
<1> DEFINE none == [r \in LT!Records |-> 0]
<1>3. RingOrder(none, 0)
  BY DEF LT!Init, RingOrder
<1>4. Flow(none)
  BY DEF LT!Init, LT!Off, Flow, Ringed, Along, Ahead
<1>5. none \in [LT!Records -> Nat]
  OBVIOUS
<1> QED
  BY <1>1, <1>2, <1>3, <1>4, <1>5 DEF LogInv

LEMMA StepLogType == LT!LogAssumption /\ LogType /\ [LT!Next]_(LT!ltvars) => LogType'
<1> SUFFICES ASSUME LT!LogAssumption, LogType, [LT!Next]_(LT!ltvars)
             PROVE  LogType'
  OBVIOUS
<1>0. /\ RingSize \in Nat \ {0} /\ DedupCap \in Nat /\ MaxRecords \in Nat
      /\ LT!Records = 1..MaxRecords
  BY DEF LT!LogAssumption, LT!Records
<1>1. CASE LT!Stamp
  BY <1>0, <1>1 DEF LogType, LT!Stamp
<1>2. ASSUME NEW r \in logging, LT!RingAppend(r)
      PROVE  LogType'
  <2>1. r \in LT!Records /\ Append(records, r) \in Seq(LT!Records)
    BY DEF LogType
  <2>2. records' \in Seq(LT!Records) /\ Len(records') <= RingSize
    <3> DEFINE grown == Append(records, r)
    <3>1. records' = LT!Newest(grown, RingSize)
      BY <1>2 DEF LT!RingAppend
    <3>2. grown \in Seq(LT!Records) /\ RingSize \in Nat
      BY <1>0, <2>1
    <3> HIDE DEF grown
    <3>3. /\ LT!Newest(grown, RingSize) \in Seq(LT!Records)
          /\ Len(LT!Newest(grown, RingSize)) = IF Len(grown) > RingSize THEN RingSize ELSE Len(grown)
      BY <3>2, NewestIs
    <3>4. Len(grown) \in Nat
      BY <3>2
    <3> QED
      BY <3>1, <3>2, <3>3, <3>4
  <2>3. server' \in [at : {"off", "asked", "history", "live"}, from : Nat, hold : Seq(LT!Records)]
        /\ (server'.at \in {"off", "asked"} => server'.hold = <<>>)
    <3>1. CASE server' = server
      BY <3>1 DEF LogType
    <3>2. CASE server.at = "live" /\ server' = [server EXCEPT !.hold = Append(@, r)]
      <4> DEFINE h == Append(server.hold, r)
      <4>1. h \in Seq(LT!Records)
        BY <2>1 DEF LogType
      <4>2. server' = [server EXCEPT !.hold = h]
        BY <3>2
      <4> HIDE DEF h
      <4>3. server \in [at : {"off", "asked", "history", "live"}, from : Nat, hold : Seq(LT!Records)]
        BY DEF LogType
      <4>4. server' = [at |-> server.at, from |-> server.from, hold |-> h]
        BY <4>2, <4>3
      <4>5. server' \in [at : {"off", "asked", "history", "live"}, from : Nat, hold : Seq(LT!Records)]
        BY <4>1, <4>3, <4>4
      <4>6. server'.at = "live"
        BY <3>2, <4>4
      <4> QED
        BY <4>5, <4>6
    <3> QED
      BY <1>2, <3>1, <3>2 DEF LT!RingAppend
  <2> QED
    BY <1>2, <2>2, <2>3 DEF LogType, LT!RingAppend
<1>3. CASE LT!Snapshot
  BY <1>3 DEF LogType, LT!Snapshot
<1>4. CASE LT!Skip
  <2>1. server.hold \in Seq(LT!Records) /\ server.hold # <<>> /\ server.at \in {"history", "live"}
    BY <1>4 DEF LogType, LT!Skip, LT!Ready
  <2>2. Tail(server.hold) \in Seq(LT!Records)
    BY <2>1
  <2> QED
    BY <1>4, <2>1, <2>2 DEF LogType, LT!Skip
<1>5. CASE LT!Send
  <2>1. server.hold \in Seq(LT!Records) /\ server.hold # <<>> /\ server.at \in {"history", "live"}
    BY <1>5 DEF LogType, LT!Send, LT!Ready
  <2>2. Tail(server.hold) \in Seq(LT!Records) /\ Head(server.hold) \in LT!Records
    BY <2>1
  <2>3. sent' \in Seq(LT!Records)
    BY <1>5, <2>2 DEF LogType, LT!Send
  <2> QED
    BY <1>5, <2>1, <2>2, <2>3 DEF LogType, LT!Send
<1>6. CASE LT!Subscribe
  BY <1>6 DEF LogType, LT!Subscribe
<1>7. CASE LT!Cut
  <2>1. PICK n \in 0..Len(sent) : sent' = SubSeq(sent, 1, n)
    BY <1>7 DEF LT!Cut
  <2>2. sent' \in Seq(LT!Records)
    BY <2>1 DEF LogType
  <2>3. logging' \subseteq LT!Records /\ records' \in Seq(LT!Records) /\ Len(records') <= RingSize
    <3>1. CASE UNCHANGED <<records, logging>>
      BY <3>1 DEF LogType
    <3>2. CASE records' = <<>> /\ logging' = {}
      BY <1>0, <3>2
    <3> QED
      BY <1>7, <3>1, <3>2 DEF LT!Cut
  <2> QED
    BY <1>7, <2>2, <2>3 DEF LogType, LT!Cut, LT!Off
<1>8. CASE LT!Connect
  BY <1>8 DEF LogType, LT!Connect
<1>9. CASE LT!Read
  <2>1. Head(sent) \in LT!Records /\ Tail(sent) \in Seq(LT!Records)
    BY <1>9 DEF LogType, LT!Read
  <2>2. Head(sent) \in Nat
    BY <1>0, <2>1
  <2>3. keys' \in Seq(LT!Records) /\ shown' \in Seq(LT!Records)
    <3>1. Append(keys, Head(sent)) \in Seq(LT!Records) /\ Append(shown, Head(sent)) \in Seq(LT!Records)
      BY <2>1 DEF LogType
    <3>2. LT!Remember(Head(sent)) \in Seq(LT!Records)
      BY <1>0, <3>1, NewestIs DEF LT!Remember
    <3> QED
      BY <1>9, <3>1, <3>2 DEF LogType, LT!Read
  <2> QED
    BY <1>9, <2>1, <2>2, <2>3 DEF LogType, LT!Read
<1>10. CASE LT!Ended
  BY <1>10 DEF LogType, LT!Ended
<1>11. CASE UNCHANGED LT!ltvars
  BY <1>11 DEF LogType, LT!ltvars
<1> QED
  BY <1>1, <1>2, <1>3, <1>4, <1>5, <1>6, <1>7, <1>8, <1>9, <1>10, <1>11 DEF LT!Next


-----------------------------------------------------------------------------
(* Places in the ring and on the way to the window.                        *)

LEMMA StepRingOrder ==
  ASSUME LT!LogAssumption, LogType, [LT!Next]_(LT!ltvars),
         NEW n \in Nat, NEW pos \in [LT!Records -> Nat], RingOrder(pos, n), ~\E r \in logging : LT!RingAppend(r)
  PROVE  RingOrder(pos, n)'
<1>1. CASE LT!Cut /\ records' = <<>> /\ logging' = {}
  BY <1>1 DEF RingOrder, LT!Cut
<1>2. CASE LT!Stamp
  BY <1>2 DEF RingOrder, LT!Stamp, LogType, LT!Records, LT!LogAssumption
<1>3. CASE UNCHANGED <<records, logging, stamped>>
  BY <1>3 DEF RingOrder
<1> QED
  BY <1>1, <1>2, <1>3 DEF LT!Next, LT!ltvars, LT!Snapshot, LT!Skip, LT!Send, LT!Subscribe, LT!Cut, LT!Connect, LT!Read, LT!Ended

\* A record that reaches the ring gets the next place.
LEMMA AppendRingOrder ==
  ASSUME LT!LogAssumption, LogType, NEW r \in logging, LT!RingAppend(r),
         NEW n \in Nat, NEW pos \in [LT!Records -> Nat], RingOrder(pos, n)
  PROVE  RingOrder([pos EXCEPT ![r] = n + 1], n + 1)'
<1> DEFINE new == [pos EXCEPT ![r] = n + 1]
           grown == Append(records, r)
<1>1. r \in LT!Records /\ pos[r] = 0 /\ pos \in [LT!Records -> 0..n] /\ RingSize \in Nat \ {0}
  BY DEF LogType, RingOrder, LT!LogAssumption
<1>2. new \in [LT!Records -> 0..n + 1] /\ new[r] = n + 1 /\ \A s \in LT!Records \ {r} : new[s] = pos[s]
  BY <1>1
<1> HIDE DEF new
<1>3. \A s, t \in LT!Records : new[s] = new[t] /\ new[s] # 0 => s = t
  <2> SUFFICES ASSUME NEW s \in LT!Records, NEW t \in LT!Records, new[s] = new[t], new[s] # 0
               PROVE  s = t
    OBVIOUS
  <2>1. pos[s] \in 0..n /\ pos[t] \in 0..n
    BY <1>1
  <2>2. CASE s # r /\ t # r
    <3>1. pos[s] = pos[t] /\ pos[s] # 0
      BY <1>2, <2>2
    <3> QED
      BY <3>1 DEF RingOrder
  <2>3. CASE s = r \/ t = r
    BY <1>2, <2>1, <2>3
  <2> QED
    BY <2>2, <2>3
<1>4. \A s \in LT!Records : s \in logging' \/ s > stamped' => new[s] = 0
  <2>1. logging' = logging \ {r} /\ stamped' = stamped /\ r \in logging
    BY DEF LT!RingAppend
  <2>2. ~(r > stamped)
    BY <1>1, <2>1 DEF LogType, LT!Records, LT!LogAssumption
  <2> QED
    BY <1>2, <2>1, <2>2 DEF RingOrder
<1>5. records \in Seq(LT!Records) /\ grown \in Seq(LT!Records) /\ Len(grown) = Len(records) + 1
      /\ (\A i \in 1..Len(records) : grown[i] = records[i]) /\ grown[Len(records) + 1] = r
  BY <1>1 DEF LogType
<1> HIDE DEF grown
<1>6. records' = LT!Newest(grown, RingSize)
  BY DEF LT!RingAppend, grown
<1>7. \A i \in 1..Len(grown) : new[grown[i]] = n + 1 - Len(grown) + i
  <2> SUFFICES ASSUME NEW i \in 1..Len(grown)
               PROVE  new[grown[i]] = n + 1 - Len(grown) + i
    OBVIOUS
  <2>1. Len(records) \in Nat /\ Len(records) <= n
    BY <1>5 DEF RingOrder
  <2>2. CASE i = Len(records) + 1
    BY <1>2, <1>5, <2>1, <2>2
  <2>3. CASE i # Len(records) + 1
    <3>1. i \in 1..Len(records) /\ grown[i] = records[i] /\ records[i] \in LT!Records
      BY <1>5, <2>1, <2>3
    <3>2. pos[records[i]] = n - Len(records) + i
      BY <3>1 DEF RingOrder
    <3>3. records[i] # r
      BY <1>1, <2>1, <3>1, <3>2
    <3>4. new[grown[i]] = n - Len(records) + i
      BY <1>2, <3>1, <3>2, <3>3
    <3>5. n - Len(records) + i = n + 1 - Len(grown) + i
      BY <1>5, <2>1, <3>1
    <3> QED
      BY <3>4, <3>5
  <2> QED
    BY <2>2, <2>3
<1>8. /\ Len(records') = IF Len(grown) > RingSize THEN RingSize ELSE Len(grown)
      /\ \A i \in 1..Len(records') : records'[i] = grown[Len(grown) - Len(records') + i]
  <2> DEFINE lasting == LT!Newest(grown, RingSize)
  <2>1. /\ Len(lasting) = IF Len(grown) > RingSize THEN RingSize ELSE Len(grown)
        /\ \A i \in 1..Len(lasting) : lasting[i] = grown[Len(grown) - Len(lasting) + i]
    <3>1. RingSize \in Nat /\ grown \in Seq(LT!Records)
      BY <1>1, <1>5
    <3> QED
      BY <3>1, NewestIs
  <2>2. records' = lasting
    BY <1>6
  <2> HIDE DEF lasting
  <2> QED
    BY <2>1, <2>2
<1>9. Len(grown) \in Nat /\ Len(records') \in Nat /\ Len(records') <= Len(grown) /\ Len(grown) <= n + 1
  BY <1>1, <1>5, <1>8 DEF RingOrder
<1>10. ASSUME NEW i \in 1..Len(records')
       PROVE  new[records'[i]] = n + 1 - Len(records') + i
  <2>1. Len(grown) - Len(records') + i \in 1..Len(grown)
    BY <1>9
  <2>2. new[records'[i]] = n + 1 - Len(grown) + (Len(grown) - Len(records') + i)
    BY <1>7, <1>8, <2>1
  <2>3. n + 1 - Len(grown) + (Len(grown) - Len(records') + i) = n + 1 - Len(records') + i
    BY <1>9
  <2> QED
    BY <2>2, <2>3
<1>11. n + 1 \in Nat /\ Len(records') <= n + 1
  BY <1>9
<1>12. RingOrder(new, n + 1)'
  <2>1. new' = new /\ n' = n
    BY DEF new
  <2> QED
    BY <1>2, <1>3, <1>4, <1>10, <1>11 DEF RingOrder
<1> QED
  BY <1>12 DEF new

-----------------------------------------------------------------------------
(* The flow of records to the window.                                      *)

\* What was there before has a place before all that is new.
LEMMA RingFollows ==
  ASSUME LT!LogAssumption, LogType, NEW n \in Nat, NEW pos \in [LT!Records -> Nat], RingOrder(pos, n)
  PROVE  /\ \A r \in LT!Records, i \in 1..Len(records) : Follows(pos, r, records[i])
         /\ Ringed(pos, records)
<1>1. RingSize \in Nat \ {0} /\ Len(records) \in Nat /\ Len(records) <= RingSize /\ Len(records) <= n
  BY DEF LT!LogAssumption, LogType, RingOrder
<1>2. ASSUME NEW i \in 1..Len(records)
      PROVE  pos[records[i]] = n - Len(records) + i
  BY DEF RingOrder
<1>3. \A r \in LT!Records : pos[r] \in 0..n
  BY DEF RingOrder
<1>4. ASSUME NEW r \in LT!Records, NEW i \in 1..Len(records)
      PROVE  Follows(pos, r, records[i])
  BY <1>1, <1>2, <1>3 DEF Follows
<1>5. ASSUME NEW i \in 1..Len(records)
      PROVE  pos[records[i]] # 0
  BY <1>1, <1>2
<1> QED
  BY <1>4, <1>5 DEF Ringed

\* A record moves from the server to the wire.
LEMMA SendFlows ==
  ASSUME LogType, NEW pos \in [LT!Records -> Nat], Flow(pos), LT!Send
  PROVE  Flow(pos)'
<1> DEFINE h == server.hold
           x == Head(server.hold)
<1>1. h \in Seq(LT!Records) /\ Len(h) \in Nat \ {0} /\ x = h[1] /\ 1 \in 1..Len(h)
  BY DEF LogType, LT!Send, LT!Ready
<1>2. Len(server'.hold) = Len(h) - 1 /\ \A i \in 1..Len(server'.hold) : server'.hold[i] = h[i + 1] /\ i + 1 \in 1..Len(h)
  <2>1. server'.hold = Tail(h)
    BY DEF LT!Send, LogType
  <2> HIDE DEF h
  <2>2. Len(Tail(h)) = Len(h) - 1
    BY <1>1
  <2>3. ASSUME NEW i \in 1..Len(Tail(h))
        PROVE  Tail(h)[i] = h[i + 1] /\ i + 1 \in 1..Len(h)
    BY <1>1
  <2> QED
    BY <2>1, <2>2, <2>3
<1>3. sent \in Seq(LT!Records) /\ Len(sent) \in Nat /\ Len(sent') = Len(sent) + 1 /\ (\A i \in 1..Len(sent) : sent'[i] = sent[i]) /\ sent'[Len(sent) + 1] = x
  BY DEF LogType, LT!Send
<1>4. shown' = shown /\ pos' = pos
  BY DEF LT!Send
<1> HIDE DEF h, x
<1>5. Ringed(pos, sent') /\ Ringed(pos, server'.hold)
  <2>1. \A i \in 1..Len(h) : pos[h[i]] # 0
    BY DEF Flow, Ringed, h
  <2>2. ASSUME NEW i \in 1..Len(sent')
        PROVE  pos[sent'[i]] # 0
    <3>1. CASE i \in 1..Len(sent)
      BY <1>3, <3>1 DEF Flow, Ringed
    <3>2. CASE i = Len(sent) + 1
      BY <1>1, <1>3, <2>1, <3>2
    <3> QED
      BY <1>3, <3>1, <3>2
  <2>3. \A i \in 1..Len(server'.hold) : pos[server'.hold[i]] # 0
    BY <1>2, <2>1
  <2> QED
    BY <2>2, <2>3 DEF Ringed
<1>6. Along(pos, server'.hold)
  BY <1>1, <1>2 DEF Flow, Along, h
<1>7. Along(pos, sent')
  <2> SUFFICES ASSUME NEW i \in 1..Len(sent'), NEW j \in 1..Len(sent'), i < j
               PROVE  Follows(pos, sent'[i], sent'[j])
    BY DEF Along
  <2>1. i \in 1..Len(sent) /\ sent'[i] = sent[i]
    BY <1>3
  <2>2. CASE j \in 1..Len(sent)
    BY <1>3, <2>1, <2>2 DEF Flow, Along
  <2>3. CASE j = Len(sent) + 1
    BY <1>1, <1>3, <2>1, <2>3 DEF Flow, Ahead, h
  <2> QED
    BY <1>3, <2>2, <2>3
<1>8. Ahead(pos, shown, sent')
  <2> SUFFICES ASSUME NEW i \in 1..Len(shown), NEW j \in 1..Len(sent')
               PROVE  Follows(pos, shown[i], sent'[j])
    BY DEF Ahead
  <2>1. CASE j \in 1..Len(sent)
    BY <1>3, <2>1 DEF Flow, Ahead
  <2>2. CASE j = Len(sent) + 1
    BY <1>1, <1>3, <2>2 DEF Flow, Ahead, h
  <2> QED
    BY <1>3, <2>1, <2>2
<1>9. Ahead(pos, shown, server'.hold)
  BY <1>2 DEF Flow, Ahead, h
<1>10. Ahead(pos, sent', server'.hold)
  <2> SUFFICES ASSUME NEW i \in 1..Len(sent'), NEW j \in 1..Len(server'.hold)
               PROVE  Follows(pos, sent'[i], server'.hold[j])
    BY DEF Ahead
  <2>1. j + 1 \in 1..Len(h) /\ server'.hold[j] = h[j + 1]
    BY <1>2
  <2>2. CASE i \in 1..Len(sent)
    BY <1>3, <2>1, <2>2 DEF Flow, Ahead, h
  <2>3. CASE i = Len(sent) + 1
    <3>1. 1 < j + 1
      BY <1>2
    <3> QED
      BY <1>1, <1>3, <2>1, <2>3, <3>1 DEF Flow, Along, h
  <2> QED
    BY <1>3, <2>2, <2>3
<1> QED
  BY <1>4, <1>5, <1>6, <1>7, <1>8, <1>9, <1>10 DEF Flow

\* A record moves from the wire to the window, which may know it.
LEMMA ReadFlows ==
  ASSUME LogType, NEW pos \in [LT!Records -> Nat], Flow(pos), LT!Read
  PROVE  Flow(pos)'
<1> DEFINE h == sent
           x == Head(sent)
           s == server.hold
<1>1. h \in Seq(LT!Records) /\ Len(h) \in Nat \ {0} /\ x = h[1] /\ 1 \in 1..Len(h)
  BY DEF LogType, LT!Read
<1>2. Len(sent') = Len(h) - 1 /\ \A i \in 1..Len(sent') : sent'[i] = h[i + 1] /\ i + 1 \in 1..Len(h)
  <2>1. sent' = Tail(h)
    BY DEF LT!Read
  <2> HIDE DEF h
  <2>2. Len(Tail(h)) = Len(h) - 1
    BY <1>1
  <2>3. ASSUME NEW i \in 1..Len(Tail(h))
        PROVE  Tail(h)[i] = h[i + 1] /\ i + 1 \in 1..Len(h)
    BY <1>1
  <2> QED
    BY <2>1, <2>2, <2>3
<1>3. shown \in Seq(LT!Records) /\ Len(shown) \in Nat
  BY DEF LogType
<1>4. \/ shown' = shown
      \/ /\ Len(shown') = Len(shown) + 1 /\ (\A i \in 1..Len(shown) : shown'[i] = shown[i])
         /\ shown'[Len(shown) + 1] = x
  BY <1>3 DEF LT!Read
<1>5. server'.hold = s /\ pos' = pos
  BY DEF LT!Read
<1> HIDE DEF h, x, s
<1>6. Ringed(pos, sent') /\ Along(pos, sent')
  <2>1. Ringed(pos, sent')
    <3>1. \A i \in 1..Len(h) : pos[h[i]] # 0
      BY DEF Flow, Ringed, h
    <3> QED
      BY <1>2, <3>1 DEF Ringed
  <2>2. Along(pos, sent')
    <3> SUFFICES ASSUME NEW i \in 1..Len(sent'), NEW j \in 1..Len(sent'), i < j
                 PROVE  Follows(pos, sent'[i], sent'[j])
      BY DEF Along
    <3>1. sent'[i] = h[i + 1] /\ sent'[j] = h[j + 1] /\ i + 1 \in 1..Len(h) /\ j + 1 \in 1..Len(h) /\ i + 1 < j + 1
      BY <1>2
    <3> QED
      BY <3>1 DEF Flow, Along, h
  <2> QED
    BY <2>1, <2>2
<1>7. Ahead(pos, sent', s)
  BY <1>2 DEF Flow, Ahead, h, s
<1>8. CASE shown' = shown
  <2>1. Ahead(pos, shown, sent')
    BY <1>2 DEF Flow, Ahead, h
  <2> QED
    BY <1>5, <1>6, <1>7, <1>8, <2>1 DEF Flow, s
<1>9. CASE /\ Len(shown') = Len(shown) + 1 /\ (\A i \in 1..Len(shown) : shown'[i] = shown[i])
           /\ shown'[Len(shown) + 1] = x
  <2>1. Ringed(pos, shown')
    <3> SUFFICES ASSUME NEW i \in 1..Len(shown')
                 PROVE  pos[shown'[i]] # 0
      BY DEF Ringed
    <3>1. CASE i \in 1..Len(shown)
      BY <1>9, <3>1 DEF Flow, Ringed
    <3>2. CASE i = Len(shown) + 1
      BY <1>1, <1>9, <3>2 DEF Flow, Ringed, h
    <3> QED
      BY <1>3, <1>9, <3>1, <3>2
  <2>2. Along(pos, shown')
    <3> SUFFICES ASSUME NEW i \in 1..Len(shown'), NEW j \in 1..Len(shown'), i < j
                 PROVE  Follows(pos, shown'[i], shown'[j])
      BY DEF Along
    <3>1. i \in 1..Len(shown) /\ shown'[i] = shown[i]
      BY <1>3, <1>9
    <3>2. CASE j \in 1..Len(shown)
      BY <1>9, <3>1, <3>2 DEF Flow, Along
    <3>3. CASE j = Len(shown) + 1
      BY <1>1, <1>9, <3>1, <3>3 DEF Flow, Ahead, h
    <3> QED
      BY <1>3, <1>9, <3>2, <3>3
  <2>3. Ahead(pos, shown', s)
    <3> SUFFICES ASSUME NEW i \in 1..Len(shown'), NEW j \in 1..Len(s)
                 PROVE  Follows(pos, shown'[i], s[j])
      BY DEF Ahead
    <3>1. CASE i \in 1..Len(shown)
      BY <1>9, <3>1 DEF Flow, Ahead, s
    <3>2. CASE i = Len(shown) + 1
      BY <1>1, <1>9, <3>2 DEF Flow, Ahead, h, s
    <3> QED
      BY <1>3, <1>9, <3>1, <3>2
  <2>4. Ahead(pos, shown', sent')
    <3> SUFFICES ASSUME NEW i \in 1..Len(shown'), NEW j \in 1..Len(sent')
                 PROVE  Follows(pos, shown'[i], sent'[j])
      BY DEF Ahead
    <3>0. j + 1 \in 1..Len(h) /\ sent'[j] = h[j + 1] /\ 1 < j + 1
      BY <1>2
    <3>1. CASE i \in 1..Len(shown)
      BY <1>9, <3>0, <3>1 DEF Flow, Ahead, h
    <3>2. CASE i = Len(shown) + 1
      BY <1>1, <1>9, <3>0, <3>2 DEF Flow, Along, h
    <3> QED
      BY <1>3, <1>9, <3>1, <3>2
  <2> QED
    BY <1>5, <1>6, <1>7, <2>1, <2>2, <2>3, <2>4 DEF Flow, s
<1> QED
  BY <1>4, <1>8, <1>9

\* A record reaches the ring and may reach a stream.
LEMMA AppendFlows ==
  ASSUME LT!LogAssumption, LogType, NEW r \in logging, LT!RingAppend(r),
         NEW n \in Nat, NEW pos \in [LT!Records -> Nat], RingOrder(pos, n), Flow(pos)
  PROVE  Flow([pos EXCEPT ![r] = n + 1])'
<1> DEFINE new == [pos EXCEPT ![r] = n + 1]
<1>1. r \in LT!Records /\ pos[r] = 0 /\ RingSize \in Nat \ {0} /\ \A x \in LT!Records : pos[x] \in 0..n
  BY DEF LogType, RingOrder, LT!LogAssumption
<1>2. new[r] = n + 1 /\ \A x \in LT!Records : pos[x] # 0 => new[x] = pos[x] /\ Follows(new, x, r)
  BY <1>1 DEF Follows
<1>3. \A x, y \in LT!Records : pos[x] # 0 /\ pos[y] # 0 /\ Follows(pos, x, y) => Follows(new, x, y)
  BY <1>2 DEF Follows
<1> HIDE DEF new
<1>4. /\ \A i \in 1..Len(shown) : shown[i] \in LT!Records /\ pos[shown[i]] # 0
      /\ \A i \in 1..Len(sent) : sent[i] \in LT!Records /\ pos[sent[i]] # 0
      /\ \A i \in 1..Len(server.hold) : server.hold[i] \in LT!Records /\ pos[server.hold[i]] # 0
  <2>1. shown \in Seq(LT!Records) /\ sent \in Seq(LT!Records) /\ server.hold \in Seq(LT!Records)
    BY DEF LogType
  <2> QED
    BY <2>1, ElementOfSeq DEF Flow, Ringed
<1>5. UNCHANGED <<shown, sent>>
  BY DEF LT!RingAppend
<1>6. /\ Ringed(new, shown) /\ Ringed(new, sent) /\ Along(new, shown) /\ Along(new, sent) /\ Ahead(new, shown, sent)
      /\ Ringed(new, server.hold) /\ Along(new, server.hold) /\ Ahead(new, shown, server.hold) /\ Ahead(new, sent, server.hold)
  <2>1. Ringed(new, shown) /\ Ringed(new, sent) /\ Ringed(new, server.hold)
    BY <1>2, <1>4 DEF Ringed
  <2>2. Along(new, shown) /\ Along(new, sent) /\ Along(new, server.hold)
    BY <1>3, <1>4 DEF Flow, Along
  <2>3. Ahead(new, shown, sent) /\ Ahead(new, shown, server.hold) /\ Ahead(new, sent, server.hold)
    BY <1>3, <1>4 DEF Flow, Ahead
  <2> QED
    BY <2>1, <2>2, <2>3
<1>7. new' = new
  BY DEF new
<1>8. CASE server' = server
  <2>1. Flow(new)'
    BY <1>5, <1>6, <1>7, <1>8 DEF Flow
  <2> QED
    BY <2>1 DEF new
<1>9. CASE server' = [server EXCEPT !.hold = Append(server.hold, r)]
  <2> DEFINE h == server.hold
             g == server'.hold
  <2>1. h \in Seq(LT!Records) /\ Len(h) \in Nat
    BY DEF LogType
  <2>2. g = Append(h, r)
    BY <1>9 DEF LogType
  <2> HIDE DEF g, h
  <2>3. Len(g) = Len(h) + 1 /\ (\A i \in 1..Len(h) : g[i] = h[i]) /\ g[Len(h) + 1] = r
    BY <1>1, <2>1, <2>2
  <2>4. Ringed(new, g)
    <3> SUFFICES ASSUME NEW i \in 1..Len(g)
                 PROVE  new[g[i]] # 0
      BY DEF Ringed
    <3>1. CASE i \in 1..Len(h)
      BY <1>6, <2>3, <3>1 DEF Ringed, h
    <3>2. CASE i = Len(h) + 1
      BY <1>2, <2>3, <3>2
    <3> QED
      BY <2>1, <2>3, <3>1, <3>2
  <2>5. Along(new, g)
    <3> SUFFICES ASSUME NEW i \in 1..Len(g), NEW j \in 1..Len(g), i < j
                 PROVE  Follows(new, g[i], g[j])
      BY DEF Along
    <3>1. i \in 1..Len(h) /\ g[i] = h[i]
      BY <2>1, <2>3
    <3>2. CASE j \in 1..Len(h)
      BY <1>6, <2>3, <3>1, <3>2 DEF Along, h
    <3>3. CASE j = Len(h) + 1
      BY <1>2, <1>4, <2>3, <3>1, <3>3 DEF h
    <3> QED
      BY <2>1, <2>3, <3>2, <3>3
  <2>6. ASSUME NEW s \in Seq(LT!Records), \A i \in 1..Len(s) : s[i] \in LT!Records /\ pos[s[i]] # 0, Ahead(new, s, h)
        PROVE  Ahead(new, s, g)
    <3> SUFFICES ASSUME NEW i \in 1..Len(s), NEW j \in 1..Len(g)
                 PROVE  Follows(new, s[i], g[j])
      BY DEF Ahead
    <3>1. CASE j \in 1..Len(h)
      BY <2>3, <2>6, <3>1 DEF Ahead
    <3>2. CASE j = Len(h) + 1
      BY <1>2, <2>3, <2>6, <3>2
    <3> QED
      BY <2>1, <2>3, <3>1, <3>2, SMTT(30)
  <2>7. Ahead(new, shown, g) /\ Ahead(new, sent, g)
    <3>1. shown \in Seq(LT!Records) /\ sent \in Seq(LT!Records)
      BY DEF LogType
    <3> QED
      BY <1>4, <1>6, <2>6, <3>1 DEF h
  <2>8. Flow(new)'
    BY <1>5, <1>6, <1>7, <2>4, <2>5, <2>7 DEF Flow, g
  <2> QED
    BY <2>8 DEF new
<1> QED
  BY <1>8, <1>9 DEF LT!RingAppend

LEMMA StepFlow ==
  ASSUME LT!LogAssumption, LogType, [LT!Next]_(LT!ltvars),
         NEW n \in Nat, NEW pos \in [LT!Records -> Nat], RingOrder(pos, n), Flow(pos), ~\E r \in logging : LT!RingAppend(r)
  PROVE  Flow(pos)'
<1>0. pos' = pos /\ shown \in Seq(LT!Records) /\ sent \in Seq(LT!Records) /\ records \in Seq(LT!Records) /\ server.hold \in Seq(LT!Records)
  BY DEF LogType
<1>1. CASE LT!Snapshot
  <2>1. UNCHANGED <<shown, sent>> /\ server'.hold = records
    BY <1>1 DEF LT!Snapshot, LogType
  <2>2. (\A r \in LT!Records, i \in 1..Len(records) : Follows(pos, r, records[i])) /\ Ringed(pos, records)
    BY RingFollows
  <2>3. Along(pos, records)
    BY <1>0, <2>2, ElementOfSeq DEF Along
  <2>4. Ahead(pos, shown, records) /\ Ahead(pos, sent, records)
    BY <1>0, <2>2, ElementOfSeq DEF Ahead
  <2> QED
    BY <1>0, <2>1, <2>2, <2>3, <2>4 DEF Flow
<1>2. CASE LT!Skip
  <2> DEFINE h == server.hold
             g == server'.hold
  <2>1. UNCHANGED <<shown, sent>> /\ h # <<>> /\ g = Tail(h)
    BY <1>2 DEF LT!Skip, LT!Ready, LogType
  <2> HIDE DEF g, h
  <2>2. h \in Seq(LT!Records)
    BY <1>0 DEF h
  <2>3. Len(g) = Len(h) - 1 /\ \A i \in 1..Len(g) : g[i] = h[i + 1] /\ i + 1 \in 1..Len(h)
    BY <2>1, <2>2
  <2>4. Ringed(pos, g)
    <3>1. \A i \in 1..Len(h) : pos[h[i]] # 0
      BY DEF Flow, Ringed, h
    <3> QED
      BY <2>3, <3>1 DEF Ringed
  <2>5. Along(pos, g)
    BY <2>3 DEF Flow, Along, h
  <2>6. Ahead(pos, shown, g) /\ Ahead(pos, sent, g)
    BY <2>3 DEF Flow, Ahead, h
  <2> QED
    BY <1>0, <2>1, <2>4, <2>5, <2>6 DEF Flow, g
<1>3. CASE LT!Send
  BY <1>3, SendFlows
<1>4. CASE LT!Read
  BY <1>4, ReadFlows
<1>5. CASE LT!Cut
  <2>1. PICK k \in 0..Len(sent) : sent' = SubSeq(sent, 1, k)
    BY <1>5 DEF LT!Cut
  <2>2. Len(sent') = k /\ \A i \in 1..Len(sent') : sent'[i] = sent[i] /\ i \in 1..Len(sent)
    BY <1>0, <2>1
  <2>3. shown' = shown /\ server'.hold = <<>>
    BY <1>5 DEF LT!Cut, LT!Off
  <2>4. Ringed(pos, sent') /\ Along(pos, sent') /\ Ahead(pos, shown, sent')
    BY <2>2 DEF Flow, Ringed, Along, Ahead
  <2>5. Ringed(pos, server'.hold) /\ Along(pos, server'.hold) /\ Ahead(pos, shown, server'.hold) /\ Ahead(pos, sent', server'.hold)
    BY <2>3 DEF Ringed, Along, Ahead
  <2> QED
    BY <1>0, <2>3, <2>4, <2>5 DEF Flow
<1>6. CASE LT!Connect
  <2>1. UNCHANGED <<shown, sent>> /\ server'.hold = <<>>
    BY <1>6 DEF LT!Connect
  <2>2. Ringed(pos, <<>>) /\ Along(pos, <<>>) /\ Ahead(pos, shown, <<>>) /\ Ahead(pos, sent, <<>>)
    BY DEF Ringed, Along, Ahead
  <2> QED
    BY <1>0, <2>1, <2>2 DEF Flow
<1>7. CASE LT!Stamp \/ LT!Subscribe \/ LT!Ended \/ UNCHANGED LT!ltvars
  <2>1. UNCHANGED <<shown, sent>> /\ server'.hold = server.hold
    BY <1>7 DEF LT!Stamp, LT!Subscribe, LT!Ended, LT!ltvars, LogType
  <2> QED
    BY <1>0, <2>1 DEF Flow
<1> QED
  BY <1>1, <1>2, <1>3, <1>4, <1>5, <1>6, <1>7 DEF LT!Next

\* A record that comes again is still known.
LEMMA StepOnce ==
  ASSUME LT!LogAssumption, LogInv, [LT!Next]_(LT!ltvars)
  PROVE  Once' /\ keys' = LT!Newest(shown', DedupCap)
<1>0. LogType /\ Once /\ keys = LT!Newest(shown, DedupCap) /\ DedupCap \in Nat \ {0} /\ RingSize \in Nat \ {0}
  BY DEF LogInv, LT!LogAssumption
<1>1. CASE UNCHANGED <<shown, keys>>
  BY <1>0, <1>1 DEF Once
<1>2. CASE LT!Read /\ ~UNCHANGED <<shown, keys>>
  <2> DEFINE x == Head(sent)
  <2>1. x \notin LT!Range(keys) /\ keys' = LT!Newest(Append(keys, x), DedupCap) /\ shown' = Append(shown, x)
    BY <1>2 DEF LT!Read, LT!Remember
  <2>2. x \in LT!Records /\ sent \in Seq(LT!Records) /\ sent # <<>> /\ x = sent[1] /\ 1 \in 1..Len(sent)
    BY <1>0, <1>2 DEF LogType, LT!Read
  <2>3. shown \in Seq(LT!Records) /\ Len(shown) \in Nat
    BY <1>0 DEF LogType
  <2> HIDE DEF x
  <2>4. keys' = LT!Newest(shown', DedupCap)
    BY <1>0, <2>1, <2>2, <2>3, NewestGrows
  <2>5. ASSUME NEW i \in 1..Len(shown), shown[i] = x
        PROVE  FALSE
    <3>1. PICK n \in Nat, pos \in [LT!Records -> Nat] : RingOrder(pos, n) /\ Flow(pos)
      BY DEF LogInv
    <3>2. ASSUME NEW j \in 1..Len(shown), i < j
          PROVE  pos[shown[j]] - pos[shown[i]] < RingSize
      BY <2>2, <2>5, <3>1 DEF Flow, Ahead, Follows
    <3>3. Len(shown) - i < DedupCap
      BY <1>0, <3>1, <3>2, FewSince
    <3> QED
      BY <2>1, <2>5, <3>3, StillKnown
  <2>6. Len(shown') = Len(shown) + 1 /\ (\A i \in 1..Len(shown) : shown'[i] = shown[i]) /\ shown'[Len(shown) + 1] = x
    BY <2>1, <2>2, <2>3
  <2>7. Once'
    <3> SUFFICES ASSUME NEW i \in 1..Len(shown'), NEW j \in 1..Len(shown'), shown'[i] = shown'[j]
                 PROVE  i = j
      BY DEF Once
    <3>1. i \in 1..Len(shown) \/ i = Len(shown) + 1
      BY <2>3, <2>6
    <3>2. j \in 1..Len(shown) \/ j = Len(shown) + 1
      BY <2>3, <2>6
    <3>3. CASE i \in 1..Len(shown) /\ j \in 1..Len(shown)
      BY <1>0, <2>6, <3>3 DEF Once
    <3> QED
      BY <2>5, <2>6, <3>1, <3>2, <3>3
  <2> QED
    BY <2>4, <2>7
<1> QED
  BY <1>1, <1>2 DEF LT!Next, LT!ltvars, LT!Stamp, LT!RingAppend, LT!Snapshot, LT!Skip, LT!Send, LT!Subscribe, LT!Cut, LT!Connect,
     LT!Read, LT!Ended

LEMMA StepLogInv == LT!LogAssumption /\ LogInv /\ [LT!Next]_(LT!ltvars) => LogInv'
<1> SUFFICES ASSUME LT!LogAssumption, LogInv, [LT!Next]_(LT!ltvars)
             PROVE  LogInv'
  OBVIOUS
<1>1. LogType /\ LogType' /\ Once' /\ keys' = LT!Newest(shown', DedupCap)
  BY StepLogType, StepOnce DEF LogInv
<1>2. PICK n \in Nat, pos \in [LT!Records -> Nat] : RingOrder(pos, n) /\ Flow(pos)
  BY DEF LogInv
<1>3. \E m \in Nat, p \in [LT!Records -> Nat] : (RingOrder(p, m) /\ Flow(p))'
  <2>1. CASE \E r \in logging : LT!RingAppend(r)
    <3>1. PICK r \in logging : LT!RingAppend(r)
      BY <2>1
    <3> DEFINE new == [pos EXCEPT ![r] = n + 1]
    <3>2. RingOrder([pos EXCEPT ![r] = n + 1], n + 1)' /\ Flow([pos EXCEPT ![r] = n + 1])'
      BY <1>1, <1>2, <3>1, AppendRingOrder, AppendFlows
    <3>3. n + 1 \in Nat
      BY <1>2
    <3>4. new \in [LT!Records -> Nat]
      BY <1>2, <3>3
    <3> QED
      BY <3>2, <3>3, <3>4
  <2>2. CASE ~\E r \in logging : LT!RingAppend(r)
    BY <1>1, <1>2, <2>2, StepRingOrder, StepFlow
  <2> QED
    BY <2>1, <2>2
<1>4. keys' = (LT!Newest(shown, DedupCap))'
  BY <1>1 DEF LT!Newest
<1> QED
  BY <1>1, <1>3, <1>4 DEF LogInv

LEMMA LogInvHolds == LT!LogAssumption /\ LogInv => LT!ShownOnce
<1> SUFFICES ASSUME LT!LogAssumption, LogInv
             PROVE  LT!ShownOnce
  OBVIOUS
<1>1. LogType /\ Once
  BY DEF LogInv
<1>2. LT!IsInjective(shown)
  BY <1>1, SMTT(30) DEF LogType, Once, LT!IsInjective
<1>3. ASSUME NEW r \in LT!Range(shown), r \in LT!Range(records)
      PROVE  r \in LT!Range(keys)
  <2>1. PICK i \in 1..Len(shown) : shown[i] = r
    BY <1>1 DEF LT!Range, LogType
  <2>2. PICK k \in 1..Len(records) : records[k] = r
    BY <1>1, <1>3 DEF LT!Range, LogType
  <2>3. PICK n \in Nat, pos \in [LT!Records -> Nat] : RingOrder(pos, n) /\ Flow(pos)
    BY DEF LogInv
  <2>4. ASSUME NEW j \in 1..Len(shown), i < j
        PROVE  pos[shown[j]] - pos[shown[i]] < RingSize
    <3>1. shown[j] \in LT!Records
      BY <1>1, ElementOfSeq DEF LogType
    <3>2. Follows(pos, shown[j], records[k])
      BY <1>1, <2>3, <3>1, RingFollows
    <3> QED
      BY <2>1, <2>2, <3>2 DEF Follows
  <2>5. Len(shown) - i < DedupCap
    BY <1>1, <2>3, <2>4, FewSince
  <2> QED
    BY <2>1, <2>5, StillKnown
<1> QED
  BY <1>2, <1>3 DEF LT!ShownOnce

\* No record of the daemon's log is shown twice, however the streams break and the
\* cursor moves, and what may be sent again is remembered (logDedup, StreamLogsTo).
THEOREM RecordsShownOnce == ServicesSpec => []ShownOnce
<1>1. LT!LogAssumption
  BY ServicesAssumption
<1>2. LT!Init => LogInv
  BY <1>1, InitLogInv
<1>3. LogInv /\ [LT!Next]_(LT!ltvars) => LogInv'
  BY <1>1, StepLogInv
<1>4. LogInv => ShownOnce
  BY <1>1, LogInvHolds DEF ShownOnce
<1> QED
  BY <1>2, <1>3, <1>4, LogsAlone, PTL DEF LT!Spec

-----------------------------------------------------------------------------
(* One daemon owns the store, for any number of daemons, runs of Stop and  *)
(* crashes: from its bind to the close of its listener a daemon holds the  *)
(* lock, and it is given back by its holder or by the death of its holder. *)

\* Between the bind and the close of the listener.
Holding == {"bound", "recorded", "serving", "exiting", "flushed"}

PcType == pc \in [Daemons -> HO!Phases]
HoldsLock == \A d \in Daemons : pc[d] \in Holding => lock = d

OwnerInv == PcType /\ HoldsLock

-----------------------------------------------------------------------------
\* Two daemons that hold the lock are one.
LEMMA HolderUnique == OwnerInv => HO!OneOwner
BY DEF OwnerInv, HoldsLock, HO!OneOwner, HO!Is, Holding

\* At first no daemon runs.
LEMMA InitOwnerInv == HO!Init => OwnerInv
BY DEF HO!Init, OwnerInv, PcType, HoldsLock, Holding, HO!Phases

\* A daemon that dies, by itself or of a signal, loses its own lock and no other.
LEMMA DyingKeepsOwnerInv ==
  ASSUME OwnerInv, NEW d \in Daemons, HO!Dies(d)
  PROVE  OwnerInv'
<1>1. PcType'
  BY DEF OwnerInv, PcType, HO!Dies, HO!Becomes, HO!Phases
<1>2. ASSUME NEW e \in Daemons, pc'[e] \in Holding
      PROVE  lock' = e
  BY <1>2 DEF OwnerInv, PcType, HoldsLock, HO!Dies, HO!Becomes, Holding
<1> QED
  BY <1>1, <1>2 DEF OwnerInv, HoldsLock

\* A daemon moves on only while it holds the lock, once it has taken it free.
LEMMA DaemonKeepsOwnerInv ==
  ASSUME Nobody \notin Daemons, OwnerInv, NEW d \in Daemons, HO!DaemonStep(d)
  PROVE  OwnerInv'
<1>1. CASE HO!Spawn(d) \/ HO!AlreadyRunning(d)
  BY <1>1 DEF OwnerInv, PcType, HoldsLock, HO!Spawn, HO!AlreadyRunning, HO!Becomes, Holding, HO!Phases
<1>2. CASE HO!Listen(d)
  <2>1. \A e \in Daemons : pc[e] \notin Holding
    BY <1>2 DEF OwnerInv, HoldsLock, HO!Listen, HO!LockFree
  <2> QED
    BY <1>2, <2>1 DEF OwnerInv, PcType, HoldsLock, HO!Listen, HO!Becomes, HO!Phases
<1>3. CASE HO!Acquire(d) \/ HO!Serve(d) \/ HO!Flush(d)
  <2>1. pc[d] \in Holding /\ lock' = lock
    BY <1>3 DEF HO!Acquire, HO!Serve, HO!Flush, Holding
  <2>2. pc' \in [Daemons -> HO!Phases] /\ \A e \in Daemons \ {d} : pc'[e] = pc[e]
    BY <1>3 DEF OwnerInv, PcType, HO!Acquire, HO!Serve, HO!Flush, HO!Becomes, HO!Phases
  <2> QED
    BY <2>1, <2>2 DEF OwnerInv, PcType, HoldsLock
<1>4. CASE HO!CloseListener(d)
  <2>1. \A e \in Daemons \ {d} : pc[e] \notin Holding
    BY <1>4 DEF OwnerInv, HoldsLock, HO!CloseListener, Holding
  <2> QED
    BY <1>4, <2>1 DEF OwnerInv, PcType, HoldsLock, HO!CloseListener, HO!Becomes, Holding, HO!Phases
<1>5. CASE HO!Release(d)
  BY <1>5 DEF OwnerInv, PcType, HoldsLock, HO!Release, HO!Becomes, Holding, HO!Phases
<1>6. CASE HO!Crash(d)
  BY <1>6, DyingKeepsOwnerInv DEF HO!Crash
<1> QED
  BY <1>1, <1>2, <1>3, <1>4, <1>5, <1>6 DEF HO!DaemonStep

\* Stop takes files away, tells the daemon to go or kills it, and touches no lock.
LEMMA StopKeepsOwnerInv ==
  ASSUME OwnerInv, NEW c \in Stoppers, HO!StopStep(c) \/ \E force \in BOOLEAN : HO!BeginStop(c, force)
  PROVE  OwnerInv'
<1>1. CASE \/ HO!QueryPid(c) \/ HO!AwaitDead(c) \/ HO!AwaitTimesOut(c) \/ HO!AwaitExit(c) \/ HO!Reclaim(c)
           \/ \E force \in BOOLEAN : HO!BeginStop(c, force)
  <2>1. UNCHANGED <<pc, lock>>
    BY <1>1 DEF HO!QueryPid, HO!AwaitDead, HO!AwaitTimesOut, HO!AwaitExit, HO!Reclaim, HO!BeginStop
  <2> QED
    BY <2>1 DEF OwnerInv, PcType, HoldsLock
<1>2. ASSUME NEW d \in Daemons, pc[d] = "serving", HO!Becomes(d, "exiting"), lock' = lock
      PROVE  OwnerInv'
  BY <1>2 DEF OwnerInv, PcType, HoldsLock, HO!Becomes, Holding, HO!Phases
<1>3. CASE HO!AskExit(c)
  <2>1. CASE HO!Live /\ pc[sock] = "serving"
    BY <1>2, <1>3, <2>1 DEF HO!AskExit, HO!Live, HO!Is
  <2>2. CASE ~(HO!Live /\ pc[sock] = "serving")
    BY <1>3, <2>2 DEF HO!AskExit, OwnerInv, PcType, HoldsLock
  <2> QED
    BY <2>1, <2>2
<1>4. CASE HO!Signal(c)
  <2>1. CASE UNCHANGED <<pc, lock>>
    BY <2>1 DEF OwnerInv, PcType, HoldsLock
  <2>2. CASE ~UNCHANGED <<pc, lock>>
    <3>1. PICK d \in Daemons : (pc[d] = "serving" /\ HO!Becomes(d, "exiting") /\ lock' = lock) \/ HO!Dies(d)
      BY <1>4, <2>2 DEF HO!Signal, HO!Alive, HO!Is
    <3> QED
      BY <1>2, <3>1, DyingKeepsOwnerInv
  <2> QED
    BY <2>1, <2>2
<1>5. CASE HO!ExitTimesOut(c)
  <2>1. CASE UNCHANGED <<pc, lock>>
    BY <2>1 DEF OwnerInv, PcType, HoldsLock
  <2>2. CASE ~UNCHANGED <<pc, lock>>
    BY <1>5, <2>2, DyingKeepsOwnerInv DEF HO!ExitTimesOut, HO!Alive, HO!Is
  <2> QED
    BY <2>1, <2>2
<1> QED
  BY <1>1, <1>3, <1>4, <1>5 DEF HO!StopStep

LEMMA StepKeepsOwnerInv ==
  ASSUME Nobody \notin Daemons, OwnerInv,
         \/ \E d \in Daemons : HO!DaemonStep(d)
         \/ \E c \in Stoppers : HO!StopStep(c) \/ \E force \in BOOLEAN : HO!BeginStop(c, force)
         \/ UNCHANGED <<pc, lock>>
  PROVE  OwnerInv'
<1>1. CASE \E d \in Daemons : HO!DaemonStep(d)
  BY <1>1, DaemonKeepsOwnerInv
<1>2. CASE \E c \in Stoppers : HO!StopStep(c) \/ \E force \in BOOLEAN : HO!BeginStop(c, force)
  BY <1>2, StopKeepsOwnerInv
<1>3. CASE UNCHANGED <<pc, lock>>
  BY <1>3 DEF OwnerInv, PcType, HoldsLock
<1> QED
  BY <1>1, <1>2, <1>3

\* Nobody restores sessions from a store that another daemon has yet to flush,
\* whoever is told to stop and however often (runDaemonForeground,
\* lockedListener.Close, Stop).
THEOREM OneDaemonOwns == HO!Spec => []HO!OneOwner
<1>1. OwnerInv /\ [HO!Next]_(HO!dlvars) => OwnerInv'
  BY StepKeepsOwnerInv, ServicesAssumption DEF HO!DaemonAssumption, HO!Next, HO!dlvars
<1>2. HO!Init => OwnerInv
  BY InitOwnerInv
<1>3. OwnerInv => HO!OneOwner
  BY HolderUnique
<1> QED
  BY <1>1, <1>2, <1>3, PTL DEF HO!Spec

\* The daemons a terminal spawns, leaves and rolls back share one store in turn,
\* never at a time (daemonController, runDaemonForeground).
THEOREM OneDaemonOwnsAroundHandoffs == ServicesSpec => []OneOwner
<1>1. OwnerInv /\ [HO!HandoffNext]_(HO!hovars) => OwnerInv'
  <2> SUFFICES ASSUME OwnerInv, [HO!HandoffNext]_(HO!hovars)
               PROVE  OwnerInv'
    OBVIOUS
  <2>1. Nobody \notin Daemons /\ HO!Tui \in Stoppers
    BY ServicesAssumption DEF HO!DaemonAssumption, HO!Tui
  <2>2. CASE (\E d \in Daemons : HO!Runs(d) \/ HO!Crash(d)) \/ HO!SpawnTarget
    BY <2>1, <2>2, StepKeepsOwnerInv DEF HO!Runs, HO!SpawnTarget, HO!DaemonStep
  <2>3. CASE HO!StopStep(HO!Tui) \/ HO!StopDaemon \/ HO!RollBack
    BY <2>1, <2>3, StepKeepsOwnerInv DEF HO!StopDaemon, HO!RollBack
  <2>4. CASE \/ HO!Start \/ HO!NoSpawn \/ HO!Waited \/ HO!Attach \/ HO!AttachFails \/ HO!ShutSourceDown \/ HO!Commit
             \/ HO!BuildCore \/ HO!SwitchBack \/ HO!RolledBack \/ HO!Stopped \/ HO!StaysAttached \/ HO!FinishStart
             \/ \E t \in Turns : HO!BeginTurn(t) \/ HO!EndTurn(t)
    BY <2>1, <2>4, StepKeepsOwnerInv
       DEF HO!Start, HO!NoSpawn, HO!Waited, HO!Attach, HO!AttachFails, HO!ShutSourceDown, HO!Commit, HO!BuildCore,
           HO!SwitchBack, HO!RolledBack, HO!Stopped, HO!StaysAttached, HO!FinishStart, HO!BeginTurn, HO!EndTurn, HO!dlvars
  <2>5. CASE UNCHANGED HO!hovars
    BY <2>1, <2>5, StepKeepsOwnerInv DEF HO!hovars, HO!dlvars
  <2> QED
    BY <2>2, <2>3, <2>4, <2>5 DEF HO!HandoffNext, HO!Controller
<1>2. HO!HandoffInit => OwnerInv
  BY InitOwnerInv DEF HO!HandoffInit
<1>3. OwnerInv => OneOwner
  BY HolderUnique DEF OneOwner
<1> QED
  BY <1>1, <1>2, <1>3, HandoffAlone, PTL

-----------------------------------------------------------------------------
(* Who serves between handoffs.                                            *)

StopPlaces == {"none", "query", "exit", "await", "signal", "gone", "reclaim", "notrunning", "stopped",
               "none running", "failed"}
StopRec == [at : StopPlaces, force : BOOLEAN, pid : Daemons \cup {Nobody}, exiting : Daemons \cup {Nobody}]

DaemonType ==
  /\ pc \in [Daemons -> HO!Phases] /\ sock \in Daemons \cup {Nobody} /\ pidfile \in Daemons \cup {Nobody}
  /\ stop \in [Stoppers -> StopRec]

\* The step of the controller tells what is in service on the terminal's side.
Sides ==
  /\ at \in {"idle", "spawn", "wait", "attach", "rollback"} /\ mode = "embedded" =>
       handlers = "core" /\ core = "live" /\ rc = Nobody
  /\ at \in {"spawn", "wait", "attach", "rollback", "shutdown", "commit"} => mode = "embedded" /\ left = Nobody
  /\ at = "shutdown" => handlers = "remote" /\ core = "live"
  /\ at = "commit" => handlers = "remote" /\ core = "down"
  /\ at \in {"stopping", "build", "switch"} => mode = "attached" /\ handlers = "remote" /\ rc = Nobody
  /\ at \in {"stopping", "build"} => core = "down"
  /\ at = "switch" => core = "live"
  /\ at = "idle" /\ mode = "attached" => handlers = "remote" /\ core = "down"
  /\ at \in HO!Steps /\ mode \in {"embedded", "attached"}

\* A daemon that was attached to, or left, has taken the socket and will not again.
HasServed(d) == d \in Daemons /\ pc[d] \in {"serving", "exiting", "flushed", "closed", "dead"}
StillServes == \A d \in {rc, left} : d # Nobody => HasServed(d)

\* Once the stop is through, the socket does not lead to the daemon that was left.
Reclaimed ==
  \/ at = "stopping" /\ stop[HO!Tui].at \in {"stopped", "none running"}
  \/ at \in {"build", "switch"}
  \/ at = "idle" /\ mode = "embedded"
Parted == Reclaimed /\ left # Nobody => sock # left

SideInv == DaemonType /\ Sides /\ StillServes /\ Parted

LEMMA SideInvHolds == ASSUME Nobody \notin Daemons PROVE SideInv => HO!OneSideServes
BY DEF SideInv, Sides, Parted, Reclaimed, HO!OneSideServes, HO!Live, HO!Is

LEMMA InitSideInv == HO!HandoffInit => SideInv
<1> SUFFICES ASSUME HO!HandoffInit
             PROVE  SideInv
  OBVIOUS
<1>1. HO!NoStop \in StopRec
  BY DEF HO!NoStop, StopRec, StopPlaces
<1>2. DaemonType
  BY <1>1 DEF HO!HandoffInit, HO!Init, DaemonType, HO!Phases
<1>3. Sides /\ StillServes /\ Parted
  BY DEF HO!HandoffInit, Sides, StillServes, Parted, HO!Steps
<1> QED
  BY <1>2, <1>3 DEF SideInv

\* What the daemons and the stop do, whoever makes them.
DaemonKeeps ==
  /\ DaemonType'
  /\ \A d : HasServed(d) => HasServed(d)' /\ (sock' = d => sock = d)

LEMMA RunsKeep ==
  ASSUME Nobody \notin Daemons, DaemonType, NEW d \in Daemons, HO!DaemonStep(d)
  PROVE  DaemonKeeps /\ stop' = stop
<1> USE DEF DaemonType, DaemonKeeps, HasServed, HO!Becomes, HO!Phases
<1>1. CASE HO!Spawn(d) \/ HO!AlreadyRunning(d) \/ HO!Serve(d) \/ HO!Flush(d)
  BY <1>1 DEF HO!Spawn, HO!AlreadyRunning, HO!Serve, HO!Flush
<1>2. CASE HO!Listen(d) \/ HO!Acquire(d)
  BY <1>2 DEF HO!Listen, HO!Acquire
<1>3. CASE HO!CloseListener(d) \/ HO!Release(d)
  BY <1>3 DEF HO!CloseListener, HO!Release, HO!CleanStale
<1>4. CASE HO!Crash(d)
  BY <1>4 DEF HO!Crash, HO!Dies
<1> QED
  BY <1>1, <1>2, <1>3, <1>4 DEF HO!DaemonStep

\* A record of a run of Stop in which two fields change.
LEMMA TwoFieldsOfStop ==
  ASSUME stop \in [Stoppers -> StopRec], NEW c \in Stoppers, NEW x \in StopPlaces, NEW y \in Daemons \cup {Nobody},
         stop' = [stop EXCEPT ![c].at = x, ![c].pid = y] \/ stop' = [stop EXCEPT ![c].at = x, ![c].exiting = y]
  PROVE  stop' \in [Stoppers -> StopRec] /\ stop'[c].at = x
<1> DEFINE f == [stop EXCEPT ![c].at = x]
<1>1. f \in [Stoppers -> StopRec] /\ f[c].at = x
  BY DEF StopRec
<1>2. stop' = [f EXCEPT ![c].pid = y] \/ stop' = [f EXCEPT ![c].exiting = y]
  OBVIOUS
<1> HIDE DEF f
<1> QED
  BY <1>1, <1>2, SMTT(30) DEF StopRec

LEMMA GotoStop ==
  ASSUME stop \in [Stoppers -> StopRec], NEW c \in Stoppers, NEW x \in StopPlaces, HO!Goto(c, x)
  PROVE  stop' \in [Stoppers -> StopRec] /\ stop'[c].at = x
BY DEF HO!Goto, StopRec

LEMMA BegunStop ==
  ASSUME DaemonType, NEW c \in Stoppers, NEW force \in BOOLEAN, HO!BeginStop(c, force)
  PROVE  /\ stop' \in [Stoppers -> StopRec] /\ stop'[c].at \in {"query", "notrunning"}
         /\ UNCHANGED <<pc, lock, sock, pidfile>>
<1> DEFINE x == IF HO!Live THEN "query" ELSE "notrunning"
           r == [HO!NoStop EXCEPT !.at = x]
<1>1. r \in StopRec /\ r.at = x
  BY DEF HO!NoStop, StopRec, StopPlaces
<1>2. stop' = [stop EXCEPT ![c] = [r EXCEPT !.force = force]]
  BY DEF HO!BeginStop
<1>3. x \in {"query", "notrunning"}
  OBVIOUS
<1> HIDE DEF r, x
<1>4. [r EXCEPT !.force = force] \in StopRec /\ [r EXCEPT !.force = force].at = x
  BY <1>1 DEF StopRec
<1> QED
  BY <1>2, <1>3, <1>4 DEF DaemonType, HO!BeginStop

\* Stop only ever takes the socket away, and before it reports success it does.
LEMMA StopKeeps ==
  ASSUME Nobody \notin Daemons, DaemonType, NEW c \in Stoppers, HO!StopStep(c)
  PROVE  DaemonKeeps /\ (stop'[c].at \in {"stopped", "none running"} => sock' = Nobody)
<1>0. stop \in [Stoppers -> StopRec]
  BY DEF DaemonType
<1> DEFINE Moved(places) == stop' \in [Stoppers -> StopRec] /\ stop'[c].at \in places
           others == StopPlaces \ {"stopped", "none running"}
<1>1. CASE HO!QueryPid(c)
  <2>1. Moved({"exit"})
    BY <1>0, <1>1, TwoFieldsOfStop, Zenon DEF HO!QueryPid, StopPlaces, DaemonType
  <2> QED
    BY <1>1, <2>1, Zenon DEF HO!QueryPid, DaemonType, DaemonKeeps, HasServed
<1>2. CASE HO!AwaitDead(c) \/ HO!AwaitTimesOut(c) \/ HO!AwaitExit(c)
  <2>1. Moved(others)
    BY <1>0, <1>2, GotoStop DEF HO!AwaitDead, HO!AwaitTimesOut, HO!AwaitExit, StopPlaces
  <2> QED
    BY <1>2, <2>1 DEF HO!AwaitDead, HO!AwaitTimesOut, HO!AwaitExit, DaemonType, DaemonKeeps, HasServed
<1>3. CASE HO!AskExit(c)
  <2>1. Moved({"await", "signal"})
    BY <1>0, <1>3, TwoFieldsOfStop, GotoStop DEF HO!AskExit, StopPlaces, DaemonType
  <2> QED
    BY <1>3, <2>1 DEF HO!AskExit, DaemonType, DaemonKeeps, HasServed, HO!Becomes, HO!Phases, HO!Live, HO!Is
<1>4. CASE HO!Signal(c)
  <2>1. Moved({"failed", "gone"})
    BY <1>0, <1>4, GotoStop DEF HO!Signal, StopPlaces
  <2> QED
    BY <1>4, <2>1 DEF HO!Signal, DaemonType, DaemonKeeps, HasServed, HO!Becomes, HO!Phases, HO!Dies, HO!Alive, HO!Is
<1>5. CASE HO!ExitTimesOut(c)
  <2>1. Moved({"failed", "reclaim"})
    BY <1>0, <1>5, GotoStop DEF HO!ExitTimesOut, StopPlaces
  <2> QED
    BY <1>5, <2>1 DEF HO!ExitTimesOut, DaemonType, DaemonKeeps, HasServed, HO!Becomes, HO!Phases, HO!Dies, HO!Alive, HO!Is
<1>6. CASE HO!Reclaim(c)
  <2>1. Moved(StopPlaces)
    BY <1>0, <1>6, GotoStop DEF HO!Reclaim, StopPlaces
  <2> QED
    BY <1>6, <2>1 DEF HO!Reclaim, HO!CleanStale, DaemonType, DaemonKeeps, HasServed
<1> QED
  BY <1>1, <1>2, <1>3, <1>4, <1>5, <1>6 DEF HO!StopStep

LEMMA StepSideInv ==
  ASSUME Nobody \notin Daemons, Stoppers # {}
  PROVE  SideInv /\ [HO!HandoffNext]_HO!hovars => SideInv'
<1> SUFFICES ASSUME SideInv, [HO!HandoffNext]_HO!hovars
             PROVE  SideInv'
  OBVIOUS
<1>a. HO!Tui \in Stoppers
  BY DEF HO!Tui
<1>b. DaemonType /\ Sides /\ StillServes /\ Parted
  BY DEF SideInv
<1>1. CASE \/ \E d \in Daemons : HO!Runs(d)
           \/ \E d \in Daemons : HO!Crash(d) /\ UNCHANGED <<HO!ctl, turn>>
           \/ HO!StopStep(HO!Tui) /\ UNCHANGED <<HO!ctl, turn>>
  <2>1. DaemonKeeps /\ UNCHANGED HO!ctl
    BY <1>1, <1>a, <1>b, RunsKeep, StopKeeps DEF HO!Runs, HO!DaemonStep
  <2>2. Reclaimed' => Reclaimed \/ sock' = Nobody
    <3>1. CASE stop' = stop
      BY <2>1, <3>1 DEF Reclaimed, HO!ctl
    <3>2. CASE HO!StopStep(HO!Tui)
      BY <1>a, <1>b, <2>1, <3>2, StopKeeps DEF Reclaimed, HO!ctl
    <3> QED
      BY <1>1, <1>b, <3>1, <3>2, RunsKeep DEF HO!Runs, HO!DaemonStep
  <2>3. Sides' /\ StillServes'
    BY <1>b, <2>1 DEF Sides, StillServes, HO!ctl, DaemonKeeps
  <2>4. Parted'
    BY <1>b, <2>1, <2>2 DEF Parted, StillServes, HO!ctl, DaemonKeeps
  <2> QED
    BY <2>1, <2>3, <2>4 DEF SideInv, DaemonKeeps
<1>2. CASE HO!SpawnTarget
  <2>1. DaemonKeeps /\ stop' = stop
    BY <1>2, <1>b, RunsKeep DEF HO!SpawnTarget, HO!DaemonStep
  <2> QED
    BY <1>2, <1>b, <2>1 DEF HO!SpawnTarget, SideInv, DaemonKeeps, Sides, StillServes, Parted, Reclaimed, HO!Steps
<1>3. CASE \/ HO!Start \/ HO!NoSpawn \/ HO!Waited \/ HO!Attach \/ HO!AttachFails \/ HO!ShutSourceDown \/ HO!Commit \/ HO!BuildCore \/ HO!SwitchBack \/ HO!FinishStart
           \/ \E t \in Turns : HO!BeginTurn(t) \/ HO!EndTurn(t)
  <2>1. UNCHANGED HO!dlvars
    BY <1>3 DEF HO!Start, HO!NoSpawn, HO!Waited, HO!Attach, HO!AttachFails, HO!ShutSourceDown, HO!Commit, HO!BuildCore, HO!SwitchBack, HO!FinishStart, HO!BeginTurn, HO!EndTurn
  <2>2. DaemonType' /\ \A d : HasServed(d)' <=> HasServed(d)
    BY <1>b, <2>1 DEF DaemonType, HasServed, HO!dlvars
  <2>3. CASE HO!Start \/ HO!NoSpawn \/ HO!Waited \/ HO!AttachFails \/ HO!ShutSourceDown \/ HO!Commit \/ HO!BuildCore \/ HO!SwitchBack
    BY <1>b, <2>1, <2>2, <2>3
       DEF HO!Start, HO!NoSpawn, HO!Waited, HO!AttachFails, HO!ShutSourceDown, HO!Commit, HO!BuildCore, HO!SwitchBack,
           SideInv, Sides, StillServes, Parted, Reclaimed, HO!Steps, HO!dlvars
  <2>4. CASE HO!Attach
    BY <1>b, <2>1, <2>2, <2>4 DEF HO!Attach, SideInv, Sides, StillServes, Parted, Reclaimed, HO!Steps, HO!dlvars, HO!Live, HO!Is, HasServed
  <2>5. CASE HO!FinishStart \/ \E t \in Turns : HO!BeginTurn(t) \/ HO!EndTurn(t)
    BY <1>b, <2>1, <2>2, <2>5 DEF HO!FinishStart, HO!BeginTurn, HO!EndTurn, SideInv, Sides, StillServes, Parted, Reclaimed, HO!dlvars, HO!ctl
  <2> QED
    BY <1>3, <2>3, <2>4, <2>5
<1>4. CASE HO!StopDaemon \/ HO!RollBack
  <2>1. /\ stop' \in [Stoppers -> StopRec] /\ stop'[HO!Tui].at \in {"query", "notrunning"}
        /\ UNCHANGED <<pc, lock, sock, pidfile>>
    BY <1>4, <1>a, <1>b, BegunStop DEF HO!StopDaemon, HO!RollBack
  <2> QED
    BY <1>4, <1>b, <2>1 DEF HO!StopDaemon, HO!RollBack, SideInv, DaemonType, HasServed, Sides, StillServes, Parted, Reclaimed, HO!Steps, HO!ctl
<1>5. CASE HO!RolledBack \/ HO!Stopped \/ HO!StaysAttached
  <2>1. HO!NoStop \in StopRec
    BY DEF HO!NoStop, StopRec, StopPlaces
  <2>2. DaemonType' /\ UNCHANGED <<pc, sock>>
    BY <1>5, <1>a, <1>b, <2>1 DEF HO!RolledBack, HO!Stopped, HO!StaysAttached, DaemonType
  <2> QED
    BY <1>5, <1>b, <2>2 DEF HO!RolledBack, HO!Stopped, HO!StaysAttached, SideInv, HasServed, Sides, StillServes, Parted, Reclaimed, HO!Steps,
                            HO!Gone, HO!Live, HO!Is
<1>6. CASE UNCHANGED HO!hovars
  BY <1>b, <1>6 DEF HO!hovars, HO!dlvars, SideInv, DaemonType, HasServed, Sides, StillServes, Parted, Reclaimed
<1> QED
  BY <1>1, <1>2, <1>3, <1>4, <1>5, <1>6 DEF HO!HandoffNext, HO!Controller

\* The windows are served by the core that is live, or by a daemon that is
\* reached, and a daemon that was left is not reached again: a message has one
\* side to go to, whatever fails on the way (Start, Stop, rollback).
THEOREM OneSideInCharge == ServicesSpec => []OneSideServes
<1>1. Nobody \notin Daemons /\ Stoppers # {}
  BY ServicesAssumption DEF HO!DaemonAssumption
<1>2. HO!HandoffInit => SideInv
  BY InitSideInv
<1>3. SideInv /\ [HO!HandoffNext]_(HO!hovars) => SideInv'
  BY <1>1, StepSideInv
<1>4. SideInv => OneSideServes
  BY <1>1, SideInvHolds DEF OneSideServes
<1> QED
  BY <1>2, <1>3, <1>4, HandoffAlone, PTL

-----------------------------------------------------------------------------
(* Least numbers.                                                          *)

Below == {p \in Nat \X Nat : p[1] < p[2]}

LEMMA BelowWellFounded == IsWellFoundedOn(Below, Nat)
<1>1. OpToRel(<, Nat) = Below
  BY DEF OpToRel, Below
<1> QED
  BY <1>1, NatLessThanWellFounded

LEMMA Least ==
  ASSUME NEW T \in SUBSET Nat, T # {}
  PROVE  \E x \in T : \A y \in T : x <= y
<1>1. \A x, y \in Nat : <<y, x>> \notin Below => x <= y
  BY DEF Below
<1>2. \E x \in T : \A y \in T : <<y, x>> \notin Below
  BY BelowWellFounded, WFMin
<1> QED
  BY <1>1, <1>2

-----------------------------------------------------------------------------
(* Undo of file changes.                                                   *)

LEMMA FilesAlone == ServicesSpec => CP!Init /\ [][CP!Next]_(CP!ckvars)
<1>1. ServicesInit => CP!Init
  BY DEF ServicesInit
<1>2. [ServicesNext]_servicesvars => [CP!Next]_(CP!ckvars)
  BY DEF ServicesNext, servicesvars, files, CP!ckvars, HubRuns, FilesRun, TranscriptRuns, WatchersRun,
         HandoffRuns, ServersRun, DocumentRuns, PermissionsRun, PromptsRun, LogsRun, McpRuns
<1> QED
  BY <1>1, <1>2, PTL DEF ServicesSpec

\* What the code keeps of a turn, and of an undo under way.
Maps == UNION {[S -> Int] : S \in SUBSET Files}
Layers == [files : Maps, start : Maps, cut : SUBSET Files]
Undos == [files : Maps, ok : BOOLEAN, start : Maps, cut : SUBSET Files]

\* The files whose content at the start the session answers for.
Known(cp) == IF cp = CP!Nothing THEN {} ELSE DOMAIN cp.start \ cp.cut

Right(v, c) == c = CP!Unreadable \/ c = v

\* v is what f held after the last committed turn.
HeldLast(A, R, d, f, v) ==
  /\ f \in CP!Pending(A) => Right(v, A.files[f])
  /\ f \notin CP!Pending(A) /\ f \in CP!Pending(R) => Right(v, R.files[f])
  /\ f \notin CP!Pending(A) /\ f \notin CP!Pending(R) => d[f] = v

\* The checkpoints from i on, up to j, did not change f.
Apart(h, i, j, f) == \A n \in i..j : f \notin DOMAIN h[n].files

FitsTurn(h, i, A, R, d) ==
  \A f \in Known(h[i]) :
    /\ \A j \in i..Len(h) : f \in DOMAIN h[j].files /\ Apart(h, i, j - 1, f) => Right(h[i].start[f], h[j].files[f])
    /\ Apart(h, i, Len(h), f) => HeldLast(A, R, d, f, h[i].start[f])

FitsOpen(A, d) ==
  \A f \in Known(A) : IF f \in DOMAIN A.files THEN Right(A.start[f], A.files[f]) ELSE d[f] = A.start[f]

FitsUndo(R, d) ==
  \A f \in Known(R) : IF f \in DOMAIN R.files THEN R.files[f] = R.start[f] ELSE d[f] = R.start[f]

Fits(h, A, R, d) ==
  /\ \A i \in DOMAIN h : FitsTurn(h, i, A, R, d)
  /\ FitsOpen(A, d) /\ FitsUndo(R, d)

\* cp2 is cp1 with less to answer for.
Less(cp2, cp1) ==
  /\ cp2 = CP!Nothing <=> cp1 = CP!Nothing
  /\ cp1 # CP!Nothing => cp2.files = cp1.files
  /\ Known(cp2) \subseteq Known(cp1)
  /\ \A f \in Known(cp2) : cp2.start[f] = cp1.start[f]

LessAll(h2, h1) == Len(h2) = Len(h1) /\ \A i \in DOMAIN h1 : Less(h2[i], h1[i])

LEMMA LayersAreThere ==
  /\ CP!Nothing \notin Layers /\ CP!Nothing \notin Undos
<1>1. DOMAIN CP!Nothing = {"none"}
  BY DEF CP!Nothing
<1>2. \A cp \in Layers \cup Undos : "files" \in DOMAIN cp
  BY DEF Layers, Undos
<1> QED
  BY <1>1, <1>2

\* A session that answers for less, and for no file whose content changed, still fits.
LEMMA LessFits ==
  ASSUME NEW h1 \in Seq(Layers), NEW h2 \in Seq(Layers),
         NEW A1 \in Layers \cup {CP!Nothing}, NEW A2 \in Layers \cup {CP!Nothing},
         NEW R1 \in Undos \cup {CP!Nothing}, NEW R2 \in Undos \cup {CP!Nothing}, NEW d1, NEW d2,
         Fits(h1, A1, R1, d1), LessAll(h2, h1), Less(A2, A1), Less(R2, R1),
         \A f : \/ d1[f] = d2[f]
                \/ f \notin Known(A2) \cup Known(R2) /\ \A i \in DOMAIN h2 : f \notin Known(h2[i])
  PROVE  Fits(h2, A2, R2, d2)
<1>1. FitsOpen(A2, d2)
  BY DEF Fits, FitsOpen, Less, Known
<1>2. FitsUndo(R2, d2)
  BY DEF Fits, FitsUndo, Less, Known
<1>3. CP!Pending(A2) = CP!Pending(A1) /\ CP!Pending(R2) = CP!Pending(R1)
  BY DEF Less, CP!Pending
<1>4. DOMAIN h1 = 1..Len(h1) /\ DOMAIN h2 = 1..Len(h1) /\ Len(h2) = Len(h1) /\ Len(h1) \in Nat
  BY DEF LessAll
<1>5. \A i \in 1..Len(h1) : h1[i] \in Layers /\ h2[i] \in Layers /\ h2[i].files = h1[i].files
  BY <1>4, LayersAreThere DEF LessAll, Less
<1>6. ASSUME NEW i \in DOMAIN h2, NEW f \in Known(h2[i])
      PROVE  /\ \A j \in i..Len(h2) : f \in DOMAIN h2[j].files /\ Apart(h2, i, j - 1, f)
                  => Right(h2[i].start[f], h2[j].files[f])
             /\ Apart(h2, i, Len(h2), f) => HeldLast(A2, R2, d2, f, h2[i].start[f])
  <2>1. f \in Known(h1[i]) /\ h2[i].start[f] = h1[i].start[f] /\ FitsTurn(h1, i, A1, R1, d1) /\ i \in 1..Len(h1)
    BY <1>4, <1>6 DEF LessAll, Less, Fits
  <2>2. \A j \in i..Len(h1) : j \in 1..Len(h1)
    BY <2>1, <1>4
  <2>3. \A j \in Int : j <= Len(h1) => (Apart(h2, i, j, f) <=> Apart(h1, i, j, f))
    BY <2>1, <1>4, <1>5 DEF Apart
  <2>4. ASSUME NEW j \in i..Len(h2), f \in DOMAIN h2[j].files, Apart(h2, i, j - 1, f)
        PROVE  Right(h2[i].start[f], h2[j].files[f])
    <3>1. j \in i..Len(h1) /\ h2[j].files = h1[j].files /\ j - 1 \in Int /\ j - 1 <= Len(h1)
      BY <1>4, <1>5, <2>1, <2>2
    <3>2. Apart(h1, i, j - 1, f)
      BY <3>1, <2>3, <2>4
    <3> QED
      BY <3>1, <3>2, <2>1, <2>4 DEF FitsTurn
  <2>5. ASSUME Apart(h2, i, Len(h2), f)
        PROVE  HeldLast(A2, R2, d2, f, h2[i].start[f])
    <3>1. HeldLast(A1, R1, d1, f, h1[i].start[f])
      BY <2>1, <2>3, <2>5, <1>4 DEF FitsTurn
    <3>2. d1[f] = d2[f]
      BY <1>6
    <3>3. (f \in CP!Pending(A2) => A2.files = A1.files) /\ (f \in CP!Pending(R2) => R2.files = R1.files)
      BY DEF CP!Pending, Less
    <3> QED
      BY <3>1, <3>2, <3>3, <2>1, <1>3 DEF HeldLast
  <2> QED
    BY <2>4, <2>5
<1> QED
  BY <1>1, <1>2, <1>6 DEF Fits, FitsTurn

-----------------------------------------------------------------------------
LEMMA RestrictMaps ==
  ASSUME NEW m \in Maps, NEW S
  PROVE  /\ CP!Restrict(m, DOMAIN m \ S) \in Maps
         /\ DOMAIN CP!Restrict(m, DOMAIN m \ S) = DOMAIN m \ S
         /\ \A f \in DOMAIN m \ S : CP!Restrict(m, DOMAIN m \ S)[f] = m[f]
<1>1. PICK D \in SUBSET Files : m \in [D -> Int]
  BY DEF Maps
<1>2. D \ S \in SUBSET Files /\ DOMAIN m = D
  BY <1>1
<1>3. CP!Restrict(m, DOMAIN m \ S) \in [D \ S -> Int]
  BY <1>1, <1>2 DEF CP!Restrict
<1>4. CP!Restrict(m, DOMAIN m \ S) \in Maps
  BY <1>2, <1>3 DEF Maps
<1> QED
  BY <1>2, <1>4 DEF CP!Restrict

LEMMA MapDomain == \A m \in Maps : DOMAIN m \subseteq Files
BY DEF Maps

LEMMA WithoutLayer ==
  ASSUME NEW cp \in Layers \cup {CP!Nothing}, NEW F
  PROVE  /\ CP!Without(cp, F) \in Layers \cup {CP!Nothing}
         /\ Less(CP!Without(cp, F), cp) /\ Known(CP!Without(cp, F)) \cap F = {}
<1>1. CASE cp = CP!Nothing
  BY <1>1 DEF CP!Without, Less, Known
<1>2. CASE cp \in Layers
  <2>1. cp # CP!Nothing /\ cp.start \in Maps
    BY <1>2, LayersAreThere DEF Layers
  <2> DEFINE m == CP!Restrict(cp.start, DOMAIN cp.start \ F)
  <2>2. CP!Without(cp, F) = [cp EXCEPT !.start = m]
    BY <2>1 DEF CP!Without
  <2>3. m \in Maps /\ DOMAIN m = DOMAIN cp.start \ F /\ \A f \in DOMAIN m : m[f] = cp.start[f]
    <3> DEFINE s == cp.start
    <3>1. s \in Maps /\ m = CP!Restrict(s, DOMAIN s \ F)
      BY <2>1
    <3> HIDE DEF s, m
    <3>2. m \in Maps /\ DOMAIN m = DOMAIN s \ F /\ \A f \in DOMAIN m : m[f] = s[f]
      BY <3>1, RestrictMaps
    <3> QED
      BY <3>2 DEF s
  <2> HIDE DEF m
  <2>4. [cp EXCEPT !.start = m] \in Layers
    BY <2>3, <1>2 DEF Layers
  <2>5. [cp EXCEPT !.start = m].files = cp.files /\ [cp EXCEPT !.start = m].cut = cp.cut
        /\ [cp EXCEPT !.start = m].start = m
    BY <1>2 DEF Layers
  <2>6. [cp EXCEPT !.start = m] # CP!Nothing
    BY <2>4, LayersAreThere
  <2> QED
    BY <2>1, <2>2, <2>3, <2>4, <2>5, <2>6 DEF Less, Known
<1> QED
  BY <1>1, <1>2

LEMMA WithoutUndo ==
  ASSUME NEW cp \in Undos \cup {CP!Nothing}, NEW F
  PROVE  /\ CP!Without(cp, F) \in Undos \cup {CP!Nothing}
         /\ Less(CP!Without(cp, F), cp) /\ Known(CP!Without(cp, F)) \cap F = {}
         /\ cp # CP!Nothing => CP!Without(cp, F) \in Undos
<1>1. CASE cp = CP!Nothing
  BY <1>1 DEF CP!Without, Less, Known
<1>2. CASE cp \in Undos
  <2>1. cp # CP!Nothing /\ cp.start \in Maps
    BY <1>2, LayersAreThere DEF Undos
  <2> DEFINE m == CP!Restrict(cp.start, DOMAIN cp.start \ F)
  <2>2. CP!Without(cp, F) = [cp EXCEPT !.start = m]
    BY <2>1 DEF CP!Without
  <2>3. m \in Maps /\ DOMAIN m = DOMAIN cp.start \ F /\ \A f \in DOMAIN m : m[f] = cp.start[f]
    <3> DEFINE s == cp.start
    <3>1. s \in Maps /\ m = CP!Restrict(s, DOMAIN s \ F)
      BY <2>1
    <3> HIDE DEF s, m
    <3>2. m \in Maps /\ DOMAIN m = DOMAIN s \ F /\ \A f \in DOMAIN m : m[f] = s[f]
      BY <3>1, RestrictMaps
    <3> QED
      BY <3>2 DEF s
  <2> HIDE DEF m
  <2>4. [cp EXCEPT !.start = m] \in Undos
    BY <2>3, <1>2 DEF Undos
  <2>5. [cp EXCEPT !.start = m].files = cp.files /\ [cp EXCEPT !.start = m].cut = cp.cut
        /\ [cp EXCEPT !.start = m].start = m
    BY <1>2 DEF Undos
  <2>6. [cp EXCEPT !.start = m] # CP!Nothing
    BY <2>4, LayersAreThere
  <2> QED
    BY <2>1, <2>2, <2>3, <2>4, <2>5, <2>6 DEF Less, Known
<1> QED
  BY <1>1, <1>2

LEMMA ForgetAllLess ==
  ASSUME NEW h \in Seq(Layers), NEW f
  PROVE  /\ CP!ForgetAll(h, f) \in Seq(Layers) /\ LessAll(CP!ForgetAll(h, f), h)
         /\ \A i \in DOMAIN CP!ForgetAll(h, f) : f \notin Known(CP!ForgetAll(h, f)[i])
<1>1. DOMAIN h = 1..Len(h) /\ Len(h) \in Nat /\ \A i \in 1..Len(h) : h[i] \in Layers
  OBVIOUS
<1>2. \A i \in 1..Len(h) : /\ CP!Forget(h[i], f) \in Layers /\ Less(CP!Forget(h[i], f), h[i])
                           /\ f \notin Known(CP!Forget(h[i], f))
  <2> TAKE i \in 1..Len(h)
  <2>1. h[i] \in Layers \cup {CP!Nothing} /\ h[i] # CP!Nothing
    BY <1>1, LayersAreThere
  <2>2. /\ CP!Without(h[i], {f}) \in Layers \cup {CP!Nothing} /\ Less(CP!Without(h[i], {f}), h[i])
        /\ Known(CP!Without(h[i], {f})) \cap {f} = {}
    BY <2>1, WithoutLayer
  <2>3. CP!Without(h[i], {f}) # CP!Nothing
    BY <2>1, <2>2 DEF Less
  <2> QED
    BY <2>2, <2>3 DEF CP!Forget
<1>3. CP!ForgetAll(h, f) = [i \in 1..Len(h) |-> CP!Forget(h[i], f)]
  BY <1>1 DEF CP!ForgetAll
<1>4. CP!ForgetAll(h, f) \in Seq(Layers) /\ Len(CP!ForgetAll(h, f)) = Len(h)
  BY <1>1, <1>2, <1>3
<1> QED
  BY <1>1, <1>2, <1>3, <1>4 DEF LessAll

LEMMA CutAllLess ==
  ASSUME NEW h \in Seq(Layers), NEW F \in SUBSET Files
  PROVE  /\ CP!CutAll(h, F) \in Seq(Layers) /\ LessAll(CP!CutAll(h, F), h)
         /\ \A i \in DOMAIN CP!CutAll(h, F) : /\ Known(CP!CutAll(h, F)[i]) = Known(h[i]) \ F
                                             /\ CP!CutAll(h, F)[i].start = h[i].start
<1>1. DOMAIN h = 1..Len(h) /\ Len(h) \in Nat /\ \A i \in 1..Len(h) : h[i] \in Layers /\ h[i] # CP!Nothing
  BY LayersAreThere
<1>2. ASSUME NEW cp \in Layers
      PROVE  LET c == [cp EXCEPT !.cut = @ \cup F]
             IN  /\ c \in Layers /\ c.files = cp.files /\ c.start = cp.start /\ c.cut = cp.cut \cup F
  BY DEF Layers
<1>3. CP!CutAll(h, F) = [i \in 1..Len(h) |-> [h[i] EXCEPT !.cut = @ \cup F]]
  BY <1>1 DEF CP!CutAll
<1>4. \A i \in 1..Len(h) : /\ CP!CutAll(h, F)[i] \in Layers /\ CP!CutAll(h, F)[i].files = h[i].files
                           /\ CP!CutAll(h, F)[i].start = h[i].start
                           /\ CP!CutAll(h, F)[i].cut = h[i].cut \cup F
  BY <1>1, <1>2, <1>3
<1>5. CP!CutAll(h, F) \in Seq(Layers) /\ Len(CP!CutAll(h, F)) = Len(h) /\ DOMAIN CP!CutAll(h, F) = 1..Len(h)
  <2> DEFINE c == CP!CutAll(h, F)
  <2>1. c = [i \in 1..Len(h) |-> c[i]]
    BY <1>3
  <2>2. \A i \in 1..Len(h) : c[i] \in Layers
    BY <1>4
  <2> HIDE DEF c
  <2>3. c \in [1..Len(h) -> Layers]
    BY <2>1, <2>2
  <2>4. c \in Seq(Layers) /\ Len(c) = Len(h) /\ DOMAIN c = 1..Len(h)
    BY <2>3, <1>1
  <2> QED
    BY <2>4 DEF c
<1>6. \A i \in 1..Len(h) : CP!CutAll(h, F)[i] # CP!Nothing
  BY <1>4, LayersAreThere
<1> QED
  BY <1>1, <1>4, <1>5, <1>6 DEF LessAll, Less, Known

LEMMA LessItself == \A cp : Less(cp, cp)
BY DEF Less

LEMMA LessAllItself == \A h : LessAll(h, h)
BY LessItself DEF LessAll

-----------------------------------------------------------------------------
\* The turn in progress is committed.
LEMMA AppendFits ==
  ASSUME NEW h \in Seq(Layers), NEW A \in Layers, NEW R \in Undos \cup {CP!Nothing}, NEW d,
         Fits(h, A, R, d), Known(A) \cap CP!Pending(R) = {}
  PROVE  Append(h, A) \in Seq(Layers) /\ Fits(Append(h, A), CP!Nothing, R, d)
<1> DEFINE g == Append(h, A)
           n == Len(h)
<1>1. /\ g \in Seq(Layers) /\ n \in Nat /\ Len(g) = n + 1 /\ DOMAIN h = 1..n /\ DOMAIN g = 1..(n + 1)
      /\ g[n + 1] = A /\ \A i \in 1..n : g[i] = h[i]
  OBVIOUS
<1>2. A # CP!Nothing /\ CP!Pending(A) = DOMAIN A.files /\ CP!Pending(CP!Nothing) = {} /\ Known(CP!Nothing) = {}
  BY LayersAreThere DEF CP!Pending, Known
<1> HIDE DEF g, n
<1>4. ASSUME NEW i \in 1..n
      PROVE  FitsTurn(g, i, CP!Nothing, R, d)
  <2>1. FitsTurn(h, i, A, R, d) /\ g[i] = h[i] /\ i \in Nat /\ i <= n
    BY <1>1 DEF Fits
  <2>2. ASSUME NEW f \in Known(g[i])
        PROVE  /\ \A j \in i..Len(g) : f \in DOMAIN g[j].files /\ Apart(g, i, j - 1, f) => Right(g[i].start[f], g[j].files[f])
               /\ Apart(g, i, Len(g), f) => HeldLast(CP!Nothing, R, d, f, g[i].start[f])
    <3>1. f \in Known(h[i])
      BY <2>1
    <3>2. \A j \in Int : j <= n => (Apart(g, i, j, f) <=> Apart(h, i, j, f))
      BY <1>1, <2>1 DEF Apart
    <3>3. ASSUME NEW j \in i..n, f \in DOMAIN g[j].files, Apart(g, i, j - 1, f)
          PROVE  Right(g[i].start[f], g[j].files[f])
      <4>1. j \in 1..n /\ j - 1 \in Int /\ j - 1 <= n /\ j \in i..Len(h)
        BY <1>1, <2>1 DEF n
      <4> QED
        BY <4>1, <3>1, <3>2, <3>3, <1>1, <2>1 DEF FitsTurn
    <3>4. ASSUME Apart(g, i, n, f)
          PROVE  HeldLast(A, R, d, f, g[i].start[f])
      BY <3>1, <3>2, <3>4, <1>1, <2>1 DEF FitsTurn, n
    <3>5. ASSUME f \in DOMAIN g[n + 1].files, Apart(g, i, n, f)
          PROVE  Right(g[i].start[f], g[n + 1].files[f])
      BY <3>4, <3>5, <1>1, <1>2 DEF HeldLast
    <3>6. ASSUME Apart(g, i, n + 1, f)
          PROVE  HeldLast(CP!Nothing, R, d, f, g[i].start[f])
      <4>1. Apart(g, i, n, f) /\ f \notin DOMAIN A.files
        BY <3>6, <1>1, <2>1 DEF Apart
      <4> QED
        BY <4>1, <3>4, <1>2 DEF HeldLast
    <3>7. \A j \in i..Len(g) : j \in i..n \/ (j = n + 1 /\ j - 1 = n)
      BY <1>1, <2>1
    <3> QED
      BY <3>3, <3>5, <3>6, <3>7, <1>1
  <2> QED
    BY <2>2 DEF FitsTurn
<1>5. FitsTurn(g, n + 1, CP!Nothing, R, d)
  <2>1. FitsOpen(A, d) /\ g[n + 1] = A
    BY <1>1 DEF Fits
  <2>2. \A j \in (n + 1)..Len(g) : j = n + 1
    BY <1>1
  <2>3. ASSUME NEW f \in Known(A), Apart(g, n + 1, n + 1, f)
        PROVE  HeldLast(CP!Nothing, R, d, f, A.start[f])
    <3>1. f \notin DOMAIN A.files
      BY <2>3, <1>1 DEF Apart
    <3>2. f \notin CP!Pending(R)
      BY <2>3
    <3> QED
      BY <3>1, <3>2, <2>1, <2>3, <1>2 DEF FitsOpen, HeldLast
  <2> QED
    BY <2>1, <2>2, <2>3, <1>1 DEF FitsOpen, FitsTurn
<1>6. FitsOpen(CP!Nothing, d) /\ FitsUndo(R, d)
  BY <1>2 DEF Fits, FitsOpen
<1>7. \A i \in DOMAIN g : i \in 1..n \/ i = n + 1
  BY <1>1
<1>8. Fits(g, CP!Nothing, R, d)
  BY <1>4, <1>5, <1>6, <1>7 DEF Fits
<1> QED
  BY <1>1, <1>8 DEF g

\* The oldest turn is dropped.
LEMMA TailFits ==
  ASSUME NEW h \in Seq(Layers), h # <<>>, NEW A, NEW R, NEW d, Fits(h, A, R, d)
  PROVE  Tail(h) \in Seq(Layers) /\ Fits(Tail(h), A, R, d)
<1> DEFINE t == Tail(h)
           n == Len(h)
<1>1. /\ t \in Seq(Layers) /\ n \in Nat \ {0} /\ Len(t) = n - 1 /\ DOMAIN h = 1..n /\ DOMAIN t = 1..(n - 1)
      /\ \A i \in 1..(n - 1) : t[i] = h[i + 1]
  OBVIOUS
<1> HIDE DEF t, n
<1>2. ASSUME NEW i \in 1..(n - 1)
      PROVE  FitsTurn(t, i, A, R, d)
  <2>1. i + 1 \in DOMAIN h /\ t[i] = h[i + 1] /\ FitsTurn(h, i + 1, A, R, d) /\ i \in Nat /\ i <= n - 1
    <3>1. i + 1 \in DOMAIN h
      BY <1>1
    <3> QED
      BY <3>1, <1>1 DEF Fits
  <2>2. ASSUME NEW f \in Known(t[i])
        PROVE  /\ \A j \in i..Len(t) : f \in DOMAIN t[j].files /\ Apart(t, i, j - 1, f) => Right(t[i].start[f], t[j].files[f])
               /\ Apart(t, i, Len(t), f) => HeldLast(A, R, d, f, t[i].start[f])
    <3>1. f \in Known(h[i + 1])
      BY <2>1
    <3>2. ASSUME NEW j \in Int, j <= n - 1, Apart(t, i, j, f)
          PROVE  Apart(h, i + 1, j + 1, f)
      <4>1. ASSUME NEW m \in (i + 1)..(j + 1)
            PROVE  f \notin DOMAIN h[m].files
        <5>1. m - 1 \in i..j /\ m - 1 \in 1..(n - 1) /\ (m - 1) + 1 = m
          BY <3>2, <2>1, <1>1
        <5> QED
          BY <5>1, <3>2, <1>1 DEF Apart
      <4> QED
        BY <4>1 DEF Apart
    <3>3. ASSUME NEW j \in i..Len(t), f \in DOMAIN t[j].files, Apart(t, i, j - 1, f)
          PROVE  Right(t[i].start[f], t[j].files[f])
      <4>1. j \in 1..(n - 1) /\ j - 1 \in Int /\ j - 1 <= n - 1 /\ j + 1 \in (i + 1)..Len(h) /\ (j - 1) + 1 = (j + 1) - 1
        BY <1>1, <2>1 DEF n
      <4>2. Apart(h, i + 1, (j + 1) - 1, f) /\ t[j] = h[j + 1]
        BY <4>1, <3>2, <3>3, <1>1
      <4> QED
        BY <4>1, <4>2, <3>1, <3>3, <2>1 DEF FitsTurn
    <3>4. ASSUME Apart(t, i, Len(t), f)
          PROVE  HeldLast(A, R, d, f, t[i].start[f])
      <4>1. Len(t) \in Int /\ Len(t) <= n - 1 /\ Len(t) + 1 = Len(h)
        BY <1>1 DEF n
      <4>2. Apart(h, i + 1, Len(h), f)
        BY <4>1, <3>2, <3>4
      <4> QED
        BY <4>2, <3>1, <2>1 DEF FitsTurn
    <3> QED
      BY <3>3, <3>4
  <2> QED
    BY <2>2 DEF FitsTurn
<1>3. Fits(t, A, R, d)
  BY <1>1, <1>2 DEF Fits
<1> QED
  BY <1>1, <1>3 DEF t

LEMMA CommitFits ==
  ASSUME MaxCheckpoints \in Nat \ {0},
         NEW h \in Seq(Layers), NEW A \in Layers, NEW R \in Undos \cup {CP!Nothing}, NEW d,
         Fits(h, A, R, d), Known(A) \cap CP!Pending(R) = {}
  PROVE  CP!Committed(h, A) \in Seq(Layers) /\ Fits(CP!Committed(h, A), CP!Nothing, R, d)
<1>1. CASE A.files = <<>>
  <2>1. CP!Pending(A) = {} /\ CP!Pending(CP!Nothing) = {} /\ Known(CP!Nothing) = {}
    BY <1>1, LayersAreThere DEF CP!Pending, Known
  <2>2. ASSUME NEW i \in DOMAIN h
        PROVE  FitsTurn(h, i, CP!Nothing, R, d)
    BY <2>1, <2>2 DEF Fits, FitsTurn, HeldLast
  <2> QED
    BY <1>1, <2>1, <2>2 DEF Fits, FitsOpen, CP!Committed
<1>2. CASE A.files # <<>>
  <2>1. Append(h, A) \in Seq(Layers) /\ Fits(Append(h, A), CP!Nothing, R, d)
    BY AppendFits
  <2>2. CASE Len(h) # MaxCheckpoints
    BY <1>2, <2>1, <2>2 DEF CP!Committed
  <2>3. CASE Len(h) = MaxCheckpoints
    <3> DEFINE g == Append(h, A)
    <3>1. g # <<>> /\ Tail(g) = Append(Tail(h), A)
      BY <2>3
    <3>2. g \in Seq(Layers) /\ Fits(g, CP!Nothing, R, d)
      BY <2>1
    <3> HIDE DEF g
    <3>3. Tail(g) \in Seq(Layers) /\ Fits(Tail(g), CP!Nothing, R, d)
      BY <3>1, <3>2, TailFits
    <3> QED
      BY <1>2, <2>3, <3>1, <3>3 DEF CP!Committed
  <2> QED
    BY <2>2, <2>3
<1> QED
  BY <1>1, <1>2

-----------------------------------------------------------------------------
\* The merge takes, for every file, the first of the turns that changed it.
LEMMA MergedFirst ==
  ASSUME NEW c \in Seq(Layers)
  PROVE  /\ CP!Merged(c) \in Maps
         /\ \A f \in DOMAIN CP!Merged(c) : \E j \in 1..Len(c) :
              f \in DOMAIN c[j].files /\ Apart(c, 1, j - 1, f) /\ CP!Merged(c)[f] = c[j].files[f]
         /\ \A f : f \notin DOMAIN CP!Merged(c) => Apart(c, 1, Len(c), f)
<1> DEFINE F == UNION {DOMAIN c[i].files : i \in DOMAIN c}
<1>1. DOMAIN c = 1..Len(c) /\ Len(c) \in Nat /\ \A i \in 1..Len(c) : c[i] \in Layers /\ c[i].files \in Maps
  <2>1. \A x \in Layers : x.files \in Maps
    BY DEF Layers
  <2> QED
    BY <2>1
<1>2. CP!Merged(c) = [f \in F |-> c[CP!Earliest(c, f)].files[f]]
  BY DEF CP!Merged
<1>3. F \subseteq Files
  BY <1>1, MapDomain
<1>4. ASSUME NEW f \in F
      PROVE  LET e == CP!Earliest(c, f)
             IN  e \in 1..Len(c) /\ f \in DOMAIN c[e].files /\ Apart(c, 1, e - 1, f)
  <2> DEFINE T == {i \in 1..Len(c) : f \in DOMAIN c[i].files}
  <2>1. T \in SUBSET Nat /\ T # {}
    BY <1>1
  <2> HIDE DEF T
  <2>2. PICK m \in T : \A y \in T : m <= y
    BY <2>1, Least
  <2>3. m \in DOMAIN c /\ f \in DOMAIN c[m].files /\ \A j \in 1..(m - 1) : f \notin DOMAIN c[j].files
    <3>1. m \in 1..Len(c) /\ f \in DOMAIN c[m].files
      BY <2>2 DEF T
    <3>2. ASSUME NEW j \in 1..(m - 1), f \in DOMAIN c[j].files
          PROVE  FALSE
      <4>1. j \in T /\ ~(m <= j)
        BY <3>1, <3>2, <1>1 DEF T
      <4> QED
        BY <4>1, <2>2
    <3> QED
      BY <3>1, <3>2, <1>1
  <2> DEFINE First(i) == f \in DOMAIN c[i].files /\ \A j \in 1..(i - 1) : f \notin DOMAIN c[j].files
  <2>4. CP!Earliest(c, f) = CHOOSE i \in DOMAIN c : First(i)
    BY DEF CP!Earliest
  <2>5. \E i \in DOMAIN c : First(i)
    BY <2>3
  <2> HIDE DEF First
  <2>6. CP!Earliest(c, f) \in DOMAIN c /\ First(CP!Earliest(c, f))
    BY <2>4, <2>5
  <2> QED
    BY <2>6, <1>1 DEF First, Apart
<1> HIDE DEF F
<1>5. \A f \in F : c[CP!Earliest(c, f)].files[f] \in Int
  <2> TAKE f \in F
  <2> DEFINE m == c[CP!Earliest(c, f)].files
  <2>1. m \in Maps /\ f \in DOMAIN m
    BY <1>1, <1>4
  <2> HIDE DEF m
  <2>2. m[f] \in Int
    BY <2>1 DEF Maps
  <2> QED
    BY <2>2 DEF m
<1>6. CP!Merged(c) \in [F -> Int] /\ DOMAIN CP!Merged(c) = F
  BY <1>2, <1>5
<1>7. CP!Merged(c) \in Maps
  BY <1>3, <1>6 DEF Maps
<1>8. ASSUME NEW f \in F
      PROVE  \E j \in 1..Len(c) : f \in DOMAIN c[j].files /\ Apart(c, 1, j - 1, f) /\ CP!Merged(c)[f] = c[j].files[f]
  BY <1>2, <1>4
<1>9. ASSUME NEW f, f \notin F
      PROVE  Apart(c, 1, Len(c), f)
  BY <1>1, <1>9 DEF Apart, F
<1> QED
  BY <1>6, <1>7, <1>8, <1>9

LEMMA MergedNewest ==
  ASSUME NEW h \in Seq(Layers), NEW k \in 1..Len(h)
  PROVE  LET p == Len(h) - k + 1
             m == CP!Merged(CP!Newest(h, k))
         IN  /\ m \in Maps /\ p \in DOMAIN h /\ CP!Newest(h, k)[1] = h[p]
             /\ \A f \in DOMAIN m : \E j \in p..Len(h) : f \in DOMAIN h[j].files /\ Apart(h, p, j - 1, f) /\ m[f] = h[j].files[f]
             /\ \A f : f \notin DOMAIN m => Apart(h, p, Len(h), f)
<1> DEFINE p == Len(h) - k + 1
           c == CP!Newest(h, k)
           m == CP!Merged(c)
<1>1. Len(h) \in Nat /\ k \in Nat /\ DOMAIN h = 1..Len(h) /\ p \in 1..Len(h) /\ p \in Nat
  OBVIOUS
<1>2. c = SubSeq(h, p, Len(h))
  BY DEF CP!Newest
<1>3. c \in Seq(Layers) /\ Len(c) = Len(h) - p + 1 /\ \A i \in 1..Len(c) : c[i] = h[p + i - 1]
  <2>1. SubSeq(h, p, Len(h)) \in Seq(Layers)
    BY <1>1, SubSeqProperties
  <2>2. Len(SubSeq(h, p, Len(h))) = Len(h) - p + 1
    BY <1>1, SubSeqProperties
  <2>3. \A i \in 1..(Len(h) - p + 1) : SubSeq(h, p, Len(h))[i] = h[p + i - 1]
    BY <1>1
  <2> QED
    BY <1>2, <2>1, <2>2, <2>3
<1>4. Len(c) = k
  BY <1>1, <1>3
<1> HIDE DEF c
<1>5. /\ m \in Maps
      /\ \A f \in DOMAIN m : \E j \in 1..Len(c) : f \in DOMAIN c[j].files /\ Apart(c, 1, j - 1, f) /\ m[f] = c[j].files[f]
      /\ \A f : f \notin DOMAIN m => Apart(c, 1, Len(c), f)
  BY <1>3, MergedFirst
<1> HIDE DEF m
<1>6. ASSUME NEW f, NEW j \in Int, j <= k, Apart(c, 1, j, f)
      PROVE  Apart(h, p, p + j - 1, f)
  <2>1. ASSUME NEW x \in p..(p + j - 1)
        PROVE  f \notin DOMAIN h[x].files
    <3>1. x - p + 1 \in 1..j /\ x - p + 1 \in 1..Len(c) /\ p + (x - p + 1) - 1 = x
      BY <1>1, <1>4, <1>6
    <3>2. c[x - p + 1] = h[x]
      BY <3>1, <1>3
    <3> QED
      BY <3>1, <3>2, <1>6 DEF Apart
  <2> QED
    BY <2>1 DEF Apart
<1>7. ASSUME NEW f \in DOMAIN m
      PROVE  \E j \in p..Len(h) : f \in DOMAIN h[j].files /\ Apart(h, p, j - 1, f) /\ m[f] = h[j].files[f]
  <2>1. PICK j \in 1..Len(c) : f \in DOMAIN c[j].files /\ Apart(c, 1, j - 1, f) /\ m[f] = c[j].files[f]
    BY <1>5
  <2>2. c[j] = h[p + j - 1] /\ p + j - 1 \in p..Len(h) /\ j - 1 \in Int /\ j - 1 <= k /\ p + (j - 1) - 1 = (p + j - 1) - 1
    BY <1>1, <1>3, <1>4
  <2>3. Apart(h, p, (p + j - 1) - 1, f)
    BY <2>1, <2>2, <1>6
  <2> QED
    BY <2>1, <2>2, <2>3
<1>8. ASSUME NEW f, f \notin DOMAIN m
      PROVE  Apart(h, p, Len(h), f)
  <2>1. Apart(c, 1, k, f)
    BY <1>4, <1>5, <1>8
  <2>2. p + k - 1 = Len(h) /\ k \in Int /\ k <= k
    BY <1>1
  <2>3. Apart(h, p, p + k - 1, f)
    BY <2>1, <2>2, <1>6
  <2> QED
    BY <2>2, <2>3
<1>9. c[1] = h[p]
  <2>1. 1 \in 1..Len(c) /\ p + 1 - 1 = p
    BY <1>1, <1>4
  <2> QED
    BY <2>1, <1>3
<1> QED
  BY <1>1, <1>5, <1>7, <1>8, <1>9 DEF m, c

-----------------------------------------------------------------------------
\* Turns are taken out of the history and their undo begins.
LEMMA PopFits ==
  ASSUME NEW h \in Seq(Layers), NEW A \in Layers \cup {CP!Nothing}, NEW k \in 1..Len(h)
  PROVE  /\ CP!Popped(h, k, A) \in Undos /\ CP!Kept(h, k, A) \in Seq(Layers)
         /\ \A d : Fits(h, A, CP!Nothing, d) => Fits(CP!Kept(h, k, A), A, CP!Popped(h, k, A), d)
<1> DEFINE p == Len(h) - k + 1
           m == CP!Merged(CP!Newest(h, k))
           base == [files |-> m, ok |-> TRUE, start |-> h[p].start, cut |-> h[p].cut]
           gone == {f \in DOMAIN m : m[f] = CP!Unreadable} \cup (CP!Pending(A) \ DOMAIN m)
           F == CP!Pending(A) \cap DOMAIN m
           q == SubSeq(h, 1, Len(h) - k)
           R == CP!Popped(h, k, A)
           K == CP!Kept(h, k, A)
<1>1. Len(h) \in Nat /\ k \in Nat /\ DOMAIN h = 1..Len(h) /\ p \in 1..Len(h) /\ Len(h) - k = p - 1 /\ Len(h) - k \in Nat
  OBVIOUS
<1>2. /\ m \in Maps /\ CP!Newest(h, k)[1] = h[p]
      /\ \A f \in DOMAIN m : \E j \in p..Len(h) : f \in DOMAIN h[j].files /\ Apart(h, p, j - 1, f) /\ m[f] = h[j].files[f]
      /\ \A f : f \notin DOMAIN m => Apart(h, p, Len(h), f)
  BY MergedNewest
<1>3. h[p] \in Layers /\ h[p] # CP!Nothing /\ \A x \in Layers : x.start \in Maps /\ x.cut \in SUBSET Files
  <2>1. h[p] \in Layers
    BY <1>1
  <2>2. \A x \in Layers : x.start \in Maps /\ x.cut \in SUBSET Files
    BY DEF Layers
  <2> QED
    BY <2>1, <2>2, LayersAreThere
<1>4. base \in Undos /\ base.files = m /\ base.start = h[p].start /\ base.cut = h[p].cut
  BY <1>2, <1>3 DEF Undos
<1>5. R = CP!Without(base, gone)
  BY <1>2 DEF CP!Popped
<1>6. K = CP!CutAll(q, F)
  BY DEF CP!Kept
<1> HIDE DEF base, m, R, K, q, gone, p
<1>7. base # CP!Nothing
  BY <1>4, LayersAreThere
<1>8. R \in Undos /\ Less(R, base) /\ Known(R) \cap gone = {}
  BY <1>4, <1>5, <1>7, WithoutUndo
<1>9. R # CP!Nothing /\ R.files = m /\ CP!Pending(R) = DOMAIN m
  BY <1>4, <1>7, <1>8, LayersAreThere DEF Less, CP!Pending
<1>10. q \in Seq(Layers) /\ Len(q) = p - 1 /\ \A i \in 1..(p - 1) : q[i] = h[i]
  <2>1. \A i \in 1..(p - 1) : h[i] \in Layers
    BY <1>1
  <2>2. SubSeq(h, 1, p - 1) \in Seq(Layers)
    BY <1>1, <2>1, SubSeqProperties
  <2>3. Len(SubSeq(h, 1, p - 1)) = p - 1 /\ \A i \in 1..(p - 1) : SubSeq(h, 1, p - 1)[i] = h[i]
    BY <1>1
  <2> QED
    BY <1>1, <2>2, <2>3 DEF q
<1>11. F \in SUBSET Files
  BY <1>2, MapDomain
<1> HIDE DEF F
<1>12. /\ K \in Seq(Layers) /\ LessAll(K, q)
       /\ \A i \in DOMAIN K : Known(K[i]) = Known(q[i]) \ F /\ K[i].start = q[i].start
  BY <1>6, <1>10, <1>11, CutAllLess
<1>13. Len(K) = p - 1 /\ DOMAIN K = 1..(p - 1) /\ DOMAIN q = 1..(p - 1)
  BY <1>10, <1>12 DEF LessAll
<1>14. \A i \in 1..(p - 1) : /\ K[i].files = h[i].files /\ Known(K[i]) = Known(h[i]) \ F
                             /\ K[i].start = h[i].start
  <2>1. \A i \in 1..(p - 1) : q[i] # CP!Nothing
    BY <1>10, <1>13, LayersAreThere
  <2> QED
    BY <2>1, <1>10, <1>12, <1>13 DEF LessAll, Less
<1>15. ASSUME NEW d, Fits(h, A, CP!Nothing, d)
       PROVE  Fits(K, A, R, d)
  <2>1. FitsOpen(A, d)
    BY <1>15 DEF Fits
  <2>2. FitsUndo(R, d)
    <3> SUFFICES ASSUME NEW f \in Known(R)
                 PROVE  IF f \in DOMAIN R.files THEN R.files[f] = R.start[f] ELSE d[f] = R.start[f]
      BY DEF FitsUndo
    <3>1. f \in Known(h[p]) /\ R.start[f] = h[p].start[f] /\ f \notin gone
      BY <1>3, <1>4, <1>7, <1>8 DEF Less, Known
    <3>2. FitsTurn(h, p, A, CP!Nothing, d)
      BY <1>1, <1>15 DEF Fits
    <3>3. CASE f \in DOMAIN m
      <4>1. PICK j \in p..Len(h) : f \in DOMAIN h[j].files /\ Apart(h, p, j - 1, f) /\ m[f] = h[j].files[f]
        BY <1>2, <3>3
      <4>2. Right(h[p].start[f], m[f])
        BY <4>1, <3>1, <3>2 DEF FitsTurn
      <4>3. m[f] # CP!Unreadable
        BY <3>1, <3>3 DEF gone
      <4> QED
        BY <4>2, <4>3, <3>1, <3>3, <1>9 DEF Right
    <3>4. CASE f \notin DOMAIN m
      <4>1. HeldLast(A, CP!Nothing, d, f, h[p].start[f])
        BY <1>2, <3>1, <3>2, <3>4 DEF FitsTurn
      <4>2. f \notin CP!Pending(A) /\ CP!Pending(CP!Nothing) = {}
        BY <3>1, <3>4 DEF gone, CP!Pending
      <4> QED
        BY <4>1, <4>2, <3>1, <3>4, <1>9 DEF HeldLast
    <3> QED
      BY <3>3, <3>4
  <2>3. ASSUME NEW i \in 1..(p - 1), NEW f \in Known(K[i])
         PROVE  /\ \A j \in i..Len(K) : f \in DOMAIN K[j].files /\ Apart(K, i, j - 1, f) => Right(K[i].start[f], K[j].files[f])
                /\ Apart(K, i, Len(K), f) => HeldLast(A, R, d, f, K[i].start[f])
    <3>1. f \in Known(h[i]) /\ f \notin F /\ K[i].start = h[i].start /\ FitsTurn(h, i, A, CP!Nothing, d) /\ i \in Nat /\ i <= p - 1
      <4>1. i \in DOMAIN h /\ i \in Nat /\ i <= p - 1
        BY <1>1
      <4>2. FitsTurn(h, i, A, CP!Nothing, d)
        BY <4>1, <1>15 DEF Fits
      <4>3. f \in Known(h[i]) /\ f \notin F /\ K[i].start = h[i].start
        BY <1>14, <2>3
      <4> QED
        BY <4>1, <4>2, <4>3
    <3>2. \A j \in Int : j <= p - 1 => (Apart(K, i, j, f) <=> Apart(h, i, j, f))
      BY <3>1, <1>1, <1>14 DEF Apart
    <3>3. ASSUME NEW j \in i..Len(K), f \in DOMAIN K[j].files, Apart(K, i, j - 1, f)
          PROVE  Right(K[i].start[f], K[j].files[f])
      <4>1. j \in 1..(p - 1) /\ j \in i..Len(h) /\ j - 1 \in Int /\ j - 1 <= p - 1
        BY <1>1, <1>13, <3>1
      <4>2. Apart(h, i, j - 1, f) /\ K[j].files = h[j].files
        BY <4>1, <3>2, <3>3, <1>14
      <4> QED
        BY <4>1, <4>2, <3>1, <3>3 DEF FitsTurn
    <3>4. ASSUME Apart(K, i, Len(K), f)
          PROVE  HeldLast(A, R, d, f, K[i].start[f])
      <4>1. Apart(h, i, p - 1, f)
        BY <3>2, <3>4, <1>1, <1>13
      <4>2. \A j \in p..(Len(h) + 1) : Apart(h, p, j - 1, f) => Apart(h, i, j - 1, f)
        BY <4>1, <1>1, <3>1 DEF Apart
      <4>3. f \notin DOMAIN m => HeldLast(A, CP!Nothing, d, f, h[i].start[f])
        <5>1. Len(h) + 1 \in p..(Len(h) + 1) /\ (Len(h) + 1) - 1 = Len(h)
          BY <1>1
        <5>2. ASSUME f \notin DOMAIN m
              PROVE  Apart(h, i, Len(h), f)
          BY <5>1, <5>2, <4>2, <1>2
        <5> QED
          BY <5>2, <3>1 DEF FitsTurn
      <4>4. f \in DOMAIN m => Right(h[i].start[f], m[f])
        <5> SUFFICES ASSUME f \in DOMAIN m
                     PROVE  Right(h[i].start[f], m[f])
          OBVIOUS
        <5>1. PICK j \in p..Len(h) : f \in DOMAIN h[j].files /\ Apart(h, p, j - 1, f) /\ m[f] = h[j].files[f]
          BY <1>2
        <5>2. j \in i..Len(h) /\ j \in p..(Len(h) + 1)
          BY <1>1, <3>1
        <5>3. Apart(h, i, j - 1, f)
          BY <5>1, <5>2, <4>2
        <5> QED
          BY <5>1, <5>2, <5>3, <3>1 DEF FitsTurn
      <4>5. CP!Pending(CP!Nothing) = {}
        BY DEF CP!Pending
      <4>6. f \in CP!Pending(A) => f \notin DOMAIN m
        BY <3>1 DEF F
      <4> QED
        BY <4>3, <4>4, <4>5, <4>6, <3>1, <1>9 DEF HeldLast
    <3> QED
      BY <3>3, <3>4
  <2> QED
    BY <1>13, <2>1, <2>2, <2>3 DEF Fits, FitsTurn
<1> QED
  BY <1>8, <1>12, <1>15 DEF R, K

-----------------------------------------------------------------------------
\* A write the turn in progress answers for.
LEMMA TouchFits ==
  ASSUME NEW h, NEW A, NEW d1, NEW d2, NEW f,
         Fits(h, A, CP!Nothing, d1), A # CP!Nothing, f \in DOMAIN A.files, \A g : g # f => d2[g] = d1[g]
  PROVE  Fits(h, A, CP!Nothing, d2)
<1>1. f \in CP!Pending(A) /\ Known(CP!Nothing) = {}
  BY DEF CP!Pending, Known
<1>2. \A g, v : HeldLast(A, CP!Nothing, d1, g, v) => HeldLast(A, CP!Nothing, d2, g, v)
  BY <1>1 DEF HeldLast
<1>3. \A i \in DOMAIN h : FitsTurn(h, i, A, CP!Nothing, d2)
  BY <1>2 DEF Fits, FitsTurn
<1>4. FitsOpen(A, d2) /\ FitsUndo(CP!Nothing, d2)
  BY <1>1 DEF Fits, FitsOpen, FitsUndo
<1> QED
  BY <1>3, <1>4 DEF Fits

\* The turn in progress takes a snapshot.
LEMMA SnapFits ==
  ASSUME NEW h, NEW A, NEW A2, NEW R, NEW d, NEW f, NEW c,
         Fits(h, A, R, d), A # CP!Nothing, A2 # CP!Nothing, f \notin DOMAIN A.files, c = CP!Unreadable \/ c = d[f],
         A2.start = A.start, A2.cut = A.cut, DOMAIN A2.files = DOMAIN A.files \cup {f},
         A2.files[f] = c, \A g \in DOMAIN A.files : A2.files[g] = A.files[g],
         f \in CP!Pending(R) => \A i \in DOMAIN h : f \notin Known(h[i])
  PROVE  Fits(h, A2, R, d)
<1>1. CP!Pending(A) = DOMAIN A.files /\ CP!Pending(A2) = DOMAIN A.files \cup {f} /\ Known(A2) = Known(A)
  BY DEF CP!Pending, Known
<1>2. ASSUME NEW g, NEW v, HeldLast(A, R, d, g, v), g = f => f \notin CP!Pending(R)
      PROVE  HeldLast(A2, R, d, g, v)
  BY <1>1, <1>2 DEF HeldLast, Right
<1>3. \A i \in DOMAIN h : FitsTurn(h, i, A2, R, d)
  BY <1>2 DEF Fits, FitsTurn
<1>4. FitsOpen(A2, d)
  BY <1>1 DEF Fits, FitsOpen, Right
<1>5. FitsUndo(R, d)
  BY DEF Fits
<1> QED
  BY <1>3, <1>4, <1>5 DEF Fits

\* A turn begins, with its first snapshots.
LEMMA BeginFits ==
  ASSUME NEW h, NEW A, NEW R, NEW d,
         Fits(h, CP!Nothing, R, d), A # CP!Nothing, A.start = d,
         \A f \in DOMAIN A.files : f \notin CP!Pending(R) /\ (A.files[f] = CP!Unreadable \/ A.files[f] = d[f])
  PROVE  Fits(h, A, R, d)
<1>1. CP!Pending(A) = DOMAIN A.files /\ CP!Pending(CP!Nothing) = {}
  BY DEF CP!Pending
<1>2. \A g, v : HeldLast(CP!Nothing, R, d, g, v) => HeldLast(A, R, d, g, v)
  BY <1>1 DEF HeldLast, Right
<1>3. \A i \in DOMAIN h : FitsTurn(h, i, A, R, d)
  BY <1>2 DEF Fits, FitsTurn
<1>4. FitsOpen(A, d)
  BY DEF FitsOpen, Right
<1>5. FitsUndo(R, d)
  BY DEF Fits
<1> QED
  BY <1>3, <1>4, <1>5 DEF Fits

\* An undo is done with a file: it is written back, or nobody answers for it any more.
LEMMA DoneFits ==
  ASSUME NEW h, NEW A, NEW R, NEW R2, NEW d1, NEW d2, NEW f,
         Fits(h, A, R, d1), R # CP!Nothing, R2 # CP!Nothing, f \in DOMAIN R.files,
         DOMAIN R2.files = DOMAIN R.files \ {f}, \A g \in DOMAIN R.files \ {f} : R2.files[g] = R.files[g],
         R2.start = R.start, R2.cut = R.cut,
         \A g : g # f => d2[g] = d1[g], f \notin Known(A),
         \/ R.files[f] # CP!Unreadable /\ d2[f] = R.files[f]
         \/ f \notin Known(R) /\ \A i \in DOMAIN h : f \notin Known(h[i])
  PROVE  Fits(h, A, R2, d2)
<1>1. CP!Pending(R) = DOMAIN R.files /\ CP!Pending(R2) = DOMAIN R.files \ {f} /\ Known(R2) = Known(R)
  BY DEF CP!Pending, Known
<1>2. ASSUME NEW g, NEW v, HeldLast(A, R, d1, g, v), g = f => R.files[f] # CP!Unreadable /\ d2[f] = R.files[f]
      PROVE  HeldLast(A, R2, d2, g, v)
  <2>1. CASE g = f
    BY <1>1, <1>2, <2>1 DEF HeldLast, Right
  <2>2. CASE g # f
    BY <1>1, <1>2, <2>2 DEF HeldLast
  <2> QED
    BY <2>1, <2>2
<1>3. \A i \in DOMAIN h : FitsTurn(h, i, A, R2, d2)
  BY <1>2 DEF Fits, FitsTurn
<1>4. FitsOpen(A, d2)
  BY DEF Fits, FitsOpen
<1>5. FitsUndo(R2, d2)
  BY <1>1 DEF Fits, FitsUndo
<1> QED
  BY <1>3, <1>4, <1>5 DEF Fits

\* The undo is over.
LEMMA OverFits ==
  ASSUME NEW h, NEW A, NEW R, NEW d, Fits(h, A, R, d), CP!Pending(R) = {}
  PROVE  Fits(h, A, CP!Nothing, d)
<1>1. CP!Pending(CP!Nothing) = {} /\ Known(CP!Nothing) = {}
  BY DEF CP!Pending, Known
<1>2. \A i \in DOMAIN h : FitsTurn(h, i, A, CP!Nothing, d)
  BY <1>1 DEF Fits, FitsTurn, HeldLast
<1> QED
  BY <1>1, <1>2 DEF Fits, FitsUndo

-----------------------------------------------------------------------------
CallRecs == [left : Seq(Files), snapped : BOOLEAN, mine : BOOLEAN]

StoreType ==
  /\ disk \in [Files -> Int] /\ writes \in Int
  /\ active \in [CP!EditSessions -> Layers \cup {CP!Nothing}]
  /\ history \in [CP!EditSessions -> Seq(Layers)]
  /\ restoring \in [CP!EditSessions -> Undos \cup {CP!Nothing}]

\* All servers edit in one session: it is whole as long as there is one of them.
OneServer == \A y, z \in Servers : y = z

SessionFits(x) == Fits(history[x], active[x], restoring[x], disk)

Store == StoreType /\ \A x \in CP!EditSessions : x = "agents" \/ OneServer => SessionFits(x)

CallCovered(w) ==
  /\ toolcall[w].snapped => toolcall[w].left # <<>>
  /\ toolcall[w].mine => /\ toolcall[w].snapped /\ active["agents"] # CP!Nothing
                         /\ Head(toolcall[w].left) \in DOMAIN active["agents"].files

EditCovered(s) ==
  /\ edit[s].left # <<>> => edit[s].snapped
  /\ edit[s].snapped => /\ restoring["lsp"] = CP!Nothing /\ active["lsp"] # CP!Nothing
                        /\ \A i \in DOMAIN edit[s].left : edit[s].left[i] \in DOMAIN active["lsp"].files
  /\ ~edit[s].snapped => active["lsp"] = CP!Nothing

Control ==
  /\ toolcall \in [Workers -> CallRecs] /\ edit \in [Servers -> CallRecs]
  /\ running <=> active["agents"] # CP!Nothing
  /\ \A w \in Workers : CallCovered(w)
  /\ OneServer => \A s \in Servers : EditCovered(s)

SameTurns ==
  /\ \A x \in CP!EditSessions :
       /\ active'[x] = CP!Nothing <=> active[x] = CP!Nothing
       /\ active[x] # CP!Nothing => DOMAIN active[x].files \subseteq DOMAIN active'[x].files
  /\ restoring["lsp"] = CP!Nothing => restoring'["lsp"] = CP!Nothing

LEMMA ControlKept ==
  ASSUME Control, SameTurns, UNCHANGED <<running, toolcall, edit>>
  PROVE  Control'
<1>1. "agents" \in CP!EditSessions /\ "lsp" \in CP!EditSessions
  BY DEF CP!EditSessions
<1>2. ASSUME NEW w \in Workers
      PROVE  CallCovered(w)'
  BY <1>1 DEF Control, SameTurns, CallCovered
<1>3. ASSUME NEW s \in Servers, OneServer
      PROVE  EditCovered(s)'
  BY <1>1, <1>3 DEF Control, SameTurns, EditCovered
<1> QED
  BY <1>1, <1>2, <1>3 DEF Control, SameTurns

\* What another has changed is forgotten.
LEMMA ForgottenFits ==
  ASSUME NEW h \in Seq(Layers), NEW A \in Layers \cup {CP!Nothing}, NEW R \in Undos \cup {CP!Nothing},
         NEW d1, NEW d2, NEW f, Fits(h, A, R, d1), \A g : g # f => d2[g] = d1[g]
  PROVE  Fits(CP!ForgetAll(h, f), CP!Forget(A, f), CP!Forget(R, f), d2)
<1> DEFINE h2 == CP!ForgetAll(h, f)
           A2 == CP!Forget(A, f)
           R2 == CP!Forget(R, f)
<1>1. h2 \in Seq(Layers) /\ LessAll(h2, h) /\ \A i \in DOMAIN h2 : f \notin Known(h2[i])
  BY ForgetAllLess
<1>2. A2 \in Layers \cup {CP!Nothing} /\ Less(A2, A) /\ f \notin Known(A2)
  <2>1. /\ CP!Without(A, {f}) \in Layers \cup {CP!Nothing} /\ Less(CP!Without(A, {f}), A)
        /\ Known(CP!Without(A, {f})) \cap {f} = {}
    BY WithoutLayer
  <2> QED
    BY <2>1 DEF CP!Forget
<1>3. R2 \in Undos \cup {CP!Nothing} /\ Less(R2, R) /\ f \notin Known(R2)
  <2>1. /\ CP!Without(R, {f}) \in Undos \cup {CP!Nothing} /\ Less(CP!Without(R, {f}), R)
        /\ Known(CP!Without(R, {f})) \cap {f} = {}
    BY WithoutUndo
  <2> QED
    BY <2>1 DEF CP!Forget
<1> HIDE DEF h2, A2, R2
<1>4. \A g : \/ d1[g] = d2[g]
             \/ g \notin Known(A2) \cup Known(R2) /\ \A i \in DOMAIN h2 : g \notin Known(h2[i])
  BY <1>1, <1>2, <1>3
<1>5. Fits(h2, A2, R2, d2)
  BY <1>1, <1>2, <1>3, <1>4, LessFits
<1> QED
  BY <1>5 DEF h2, A2, R2

LEMMA ForgetTyped ==
  ASSUME NEW f
  PROVE  /\ \A h \in Seq(Layers) : CP!ForgetAll(h, f) \in Seq(Layers)
         /\ \A A \in Layers \cup {CP!Nothing} : CP!Forget(A, f) \in Layers \cup {CP!Nothing} /\ Less(CP!Forget(A, f), A)
         /\ \A R \in Undos \cup {CP!Nothing} : CP!Forget(R, f) \in Undos \cup {CP!Nothing} /\ Less(CP!Forget(R, f), R)
<1>1. \A h \in Seq(Layers) : CP!ForgetAll(h, f) \in Seq(Layers)
  BY ForgetAllLess
<1>2. \A A \in Layers \cup {CP!Nothing} : CP!Forget(A, f) \in Layers \cup {CP!Nothing} /\ Less(CP!Forget(A, f), A)
  BY WithoutLayer DEF CP!Forget
<1>3. \A R \in Undos \cup {CP!Nothing} : CP!Forget(R, f) \in Undos \cup {CP!Nothing} /\ Less(CP!Forget(R, f), R)
  BY WithoutUndo DEF CP!Forget
<1> QED
  BY <1>1, <1>2, <1>3

LEMMA ChangeKeeps ==
  ASSUME StoreType, NEW f \in Files, NEW X, CP!Change(f, X)
  PROVE  /\ StoreType' /\ SameTurns
         /\ \A x \in CP!EditSessions \cap X : SessionFits(x) => SessionFits(x)'
         /\ \A x \in CP!EditSessions \ X :
              history'[x] = history[x] /\ active'[x] = active[x] /\ restoring'[x] = restoring[x]
         /\ \A g : g # f => disk'[g] = disk[g]
<1>1. disk' \in [Files -> Int] /\ writes' \in Int /\ \A g : g # f => disk'[g] = disk[g]
  <2>1. disk' \in [Files -> Int] /\ writes' \in Int
    BY DEF StoreType, CP!Change, CP!New, CP!Absent
  <2>2. PICK c : disk' = [disk EXCEPT ![f] = c]
    BY DEF CP!Change
  <2> QED
    BY <2>1, <2>2 DEF StoreType
<1>2. \A x \in CP!EditSessions :
        /\ active'[x] = IF x \in X THEN CP!Forget(active[x], f) ELSE active[x]
        /\ history'[x] = IF x \in X THEN CP!ForgetAll(history[x], f) ELSE history[x]
        /\ restoring'[x] = IF x \in X THEN CP!Forget(restoring[x], f) ELSE restoring[x]
  BY DEF CP!Change, CP!Strange
<1>3. \A x \in CP!EditSessions : /\ active[x] \in Layers \cup {CP!Nothing} /\ history[x] \in Seq(Layers)
                                 /\ restoring[x] \in Undos \cup {CP!Nothing}
  BY DEF StoreType
<1>4. \A x \in CP!EditSessions : /\ active'[x] \in Layers \cup {CP!Nothing} /\ history'[x] \in Seq(Layers)
                                 /\ restoring'[x] \in Undos \cup {CP!Nothing}
                                 /\ Less(active'[x], active[x]) /\ Less(restoring'[x], restoring[x])
  BY <1>2, <1>3, ForgetTyped, LessItself
<1>5. StoreType'
  <2>1. /\ active' = [x \in CP!EditSessions |-> active'[x]] /\ history' = [x \in CP!EditSessions |-> history'[x]]
        /\ restoring' = [x \in CP!EditSessions |-> restoring'[x]]
    BY DEF CP!Change, CP!Strange
  <2>2. active' \in [CP!EditSessions -> Layers \cup {CP!Nothing}]
    BY <2>1, <1>4
  <2>3. history' \in [CP!EditSessions -> Seq(Layers)]
    BY <2>1, <1>4
  <2>4. restoring' \in [CP!EditSessions -> Undos \cup {CP!Nothing}]
    BY <2>1, <1>4
  <2> QED
    BY <1>1, <2>2, <2>3, <2>4 DEF StoreType
<1>6. SameTurns
  BY <1>4 DEF SameTurns, Less, CP!EditSessions
<1>7. ASSUME NEW x \in CP!EditSessions \cap X, SessionFits(x)
      PROVE  SessionFits(x)'
  <2> DEFINE h == history[x]
             A == active[x]
             R == restoring[x]
             d2 == disk'
  <2>1. /\ h \in Seq(Layers) /\ A \in Layers \cup {CP!Nothing} /\ R \in Undos \cup {CP!Nothing}
        /\ Fits(h, A, R, disk) /\ \A g : g # f => d2[g] = disk[g]
    BY <1>1, <1>3, <1>7 DEF SessionFits
  <2>2. history'[x] = CP!ForgetAll(h, f) /\ active'[x] = CP!Forget(A, f) /\ restoring'[x] = CP!Forget(R, f)
    BY <1>2
  <2> HIDE DEF h, A, R, d2
  <2>3. Fits(CP!ForgetAll(h, f), CP!Forget(A, f), CP!Forget(R, f), d2)
    BY <2>1, ForgottenFits
  <2> QED
    BY <2>2, <2>3 DEF SessionFits, d2
<1> QED
  BY <1>1, <1>2, <1>5, <1>6, <1>7

-----------------------------------------------------------------------------
(* One step of each kind.                                                  *)

LEMMA UserKeeps ==
  ASSUME Store, Control, NEW f \in Files, CP!UserChange(f)
  PROVE  Store' /\ Control'
<1>1. CP!Change(f, CP!EditSessions) /\ UNCHANGED <<running, toolcall, edit>>
  BY DEF CP!UserChange
<1> DEFINE X == CP!EditSessions
<1> HIDE DEF X
<1>2. /\ StoreType' /\ SameTurns
      /\ \A x \in CP!EditSessions \cap X : SessionFits(x) => SessionFits(x)'
  BY <1>1, ChangeKeeps DEF Store, X
<1>3. Store'
  BY <1>2 DEF Store, X, OneServer
<1> QED
  BY <1>1, <1>2, <1>3, ControlKept

\* The session that answers for a write has taken the snapshot before.
LEMMA OwnKeeps ==
  ASSUME StoreType, NEW f \in Files, NEW x \in CP!EditSessions, CP!Change(f, CP!EditSessions \ {x}),
         SessionFits(x), restoring[x] = CP!Nothing, active[x] # CP!Nothing, f \in DOMAIN active[x].files
  PROVE  SessionFits(x)'
<1> DEFINE X == CP!EditSessions \ {x}
<1>1. x \in CP!EditSessions \ X
  OBVIOUS
<1> HIDE DEF X
<1>2. /\ history'[x] = history[x] /\ active'[x] = active[x] /\ restoring'[x] = restoring[x]
      /\ \A g : g # f => disk'[g] = disk[g]
  BY <1>1, ChangeKeeps DEF X
<1> DEFINE d2 == disk'
           h == history[x]
           A == active[x]
<1>3. /\ Fits(h, A, CP!Nothing, disk) /\ A # CP!Nothing /\ f \in DOMAIN A.files
      /\ \A g : g # f => d2[g] = disk[g]
  BY <1>2 DEF SessionFits
<1>4. SessionFits(x)' <=> Fits(h, A, CP!Nothing, d2)
  BY <1>2 DEF SessionFits
<1> HIDE DEF d2, h, A
<1>5. Fits(h, A, CP!Nothing, d2)
  BY <1>3, TouchFits
<1> QED
  BY <1>4, <1>5

LEMMA HeadIn == \A S, l : l \in Seq(S) /\ l # <<>> => Head(l) \in S /\ 1 \in DOMAIN l /\ Head(l) = l[1] /\ Tail(l) \in Seq(S)
OBVIOUS

LEMMA WorkerWriteKeeps ==
  ASSUME Store, Control, NEW w \in Workers, CP!Write(w)
  PROVE  Store' /\ Control'
<1> DEFINE c == toolcall[w]
           f == Head(c.left)
           mine == CP!Answers(w)
           X == IF mine THEN {"lsp"} ELSE CP!EditSessions
<1>1. c \in CallRecs /\ c.snapped /\ c.left # <<>> /\ c.left \in Seq(Files)
  BY DEF Control, CP!Write, CallCovered, CallRecs
<1>2. f \in Files /\ Tail(c.left) \in Seq(Files)
  BY <1>1, HeadIn
<1>3. CP!Change(f, X) /\ toolcall' = [toolcall EXCEPT ![w] = CP!AfterFile(c)] /\ UNCHANGED <<running, edit>>
  BY DEF CP!Write
<1>4. c.mine => active["agents"] # CP!Nothing /\ f \in DOMAIN active["agents"].files
  BY DEF Control, CallCovered, Store
<1>5. mine => c.mine /\ restoring["agents"] = CP!Nothing
  BY DEF CP!Answers
<1>6. StoreType
  BY DEF Store
<1> HIDE DEF c, f, mine
<1> HIDE DEF X
<1>7. /\ StoreType' /\ SameTurns
      /\ \A x \in CP!EditSessions \cap X : SessionFits(x) => SessionFits(x)'
  BY <1>2, <1>3, <1>6, ChangeKeeps
<1>8. "agents" \in CP!EditSessions /\ CP!EditSessions = {"agents", "lsp"} /\ CP!EditSessions \ {"agents"} = {"lsp"}
  BY DEF CP!EditSessions
<1>9. ASSUME mine
      PROVE  Store'
  <2>1. X = CP!EditSessions \ {"agents"}
    BY <1>8, <1>9 DEF X
  <2>2. SessionFits("agents")
    BY <1>8 DEF Store
  <2>3. SessionFits("agents")'
    BY <1>2, <1>3, <1>4, <1>5, <1>6, <1>8, <1>9, <2>1, <2>2, OwnKeeps
  <2>4. \A x \in CP!EditSessions : x = "agents" \/ OneServer => SessionFits(x)'
    BY <1>7, <1>8, <2>1, <2>3 DEF Store
  <2> QED
    BY <1>7, <2>4 DEF Store, OneServer
<1>10. ASSUME ~mine
       PROVE  Store'
  <2>1. X = CP!EditSessions
    BY <1>10 DEF X
  <2> QED
    BY <1>7, <2>1 DEF Store, OneServer
<1>11. Store'
  BY <1>9, <1>10
<1>12. CP!AfterFile(c) \in CallRecs /\ ~CP!AfterFile(c).snapped /\ ~CP!AfterFile(c).mine
  <2>1. CP!Idle \in CallRecs /\ ~CP!Idle.snapped /\ ~CP!Idle.mine
    BY DEF CP!Idle, CallRecs
  <2> DEFINE r == [CP!Idle EXCEPT !.left = Tail(c.left)]
  <2>2. r \in CallRecs /\ ~r.snapped /\ ~r.mine
    BY <1>2, <2>1 DEF CallRecs
  <2>3. CP!AfterFile(c) = IF Len(c.left) = 1 THEN CP!Idle ELSE r
    BY DEF CP!AfterFile
  <2> QED
    BY <2>1, <2>2, <2>3
<1>13. \A y \in Workers : toolcall'[y] = IF y = w THEN CP!AfterFile(c) ELSE toolcall[y]
  BY <1>3 DEF Control
<1>14. ASSUME NEW y \in Workers
       PROVE  CallCovered(y)'
  BY <1>7, <1>8, <1>12, <1>13 DEF Control, SameTurns, CallCovered
<1>15. ASSUME NEW s \in Servers, OneServer
       PROVE  EditCovered(s)'
  BY <1>3, <1>7, <1>8, <1>15 DEF Control, SameTurns, EditCovered
<1>16. toolcall' \in [Workers -> CallRecs]
  BY <1>3, <1>12 DEF Control
<1>17. Control'
  BY <1>3, <1>7, <1>8, <1>14, <1>15, <1>16 DEF Control, SameTurns
<1> QED
  BY <1>11, <1>17

LEMMA FailKeeps ==
  ASSUME Store, Control, NEW w \in Workers, CP!CallFails(w)
  PROVE  Store' /\ Control'
<1>1. /\ UNCHANGED <<disk, active, history, restoring, running, edit, writes>>
      /\ toolcall' = [toolcall EXCEPT ![w] = CP!Idle]
  BY DEF CP!CallFails
<1>2. Store'
  BY <1>1 DEF Store, StoreType, SessionFits
<1>3. CP!Idle \in CallRecs /\ ~CP!Idle.snapped /\ ~CP!Idle.mine
  BY DEF CP!Idle, CallRecs
<1>4. \A y \in Workers : toolcall'[y] = IF y = w THEN CP!Idle ELSE toolcall[y]
  BY <1>1 DEF Control
<1>5. \A y \in Workers : CallCovered(y)'
  BY <1>1, <1>3, <1>4 DEF Control, CallCovered
<1>6. OneServer => \A s \in Servers : EditCovered(s)'
  BY <1>1 DEF Control, EditCovered
<1>7. toolcall' \in [Workers -> CallRecs]
  BY <1>1, <1>3 DEF Control
<1> QED
  BY <1>1, <1>2, <1>5, <1>6, <1>7 DEF Control

LEMMA OneSession ==
  ASSUME Store, NEW x \in CP!EditSessions, NEW h \in Seq(Layers), NEW A \in Layers \cup {CP!Nothing},
         NEW R \in Undos \cup {CP!Nothing}, disk' = disk, writes' = writes,
         history' = [history EXCEPT ![x] = h], active' = [active EXCEPT ![x] = A],
         restoring' = [restoring EXCEPT ![x] = R], x = "agents" \/ OneServer => Fits(h, A, R, disk)
  PROVE  /\ Store' /\ active'[x] = A /\ restoring'[x] = R
         /\ \A y \in CP!EditSessions \ {x} : active'[y] = active[y] /\ restoring'[y] = restoring[y]
<1>1. StoreType'
  BY DEF Store, StoreType
<1>2. /\ history'[x] = h /\ active'[x] = A /\ restoring'[x] = R
      /\ \A y \in CP!EditSessions \ {x} :
           history'[y] = history[y] /\ active'[y] = active[y] /\ restoring'[y] = restoring[y]
  BY DEF Store, StoreType
<1>3. x = "agents" \/ OneServer => SessionFits(x)'
  BY <1>2 DEF SessionFits
<1>4. ASSUME NEW y \in CP!EditSessions \ {x}, y = "agents" \/ OneServer
      PROVE  SessionFits(y)'
  BY <1>2, <1>4 DEF Store, SessionFits
<1>5. Store'
  BY <1>1, <1>3, <1>4 DEF Store, OneServer
<1> QED
  BY <1>2, <1>5

LEMMA Unaltered ==
  ASSUME StoreType, NEW x \in CP!EditSessions
  PROVE  /\ history = [history EXCEPT ![x] = history[x]] /\ active = [active EXCEPT ![x] = active[x]]
         /\ restoring = [restoring EXCEPT ![x] = restoring[x]]
         /\ history[x] \in Seq(Layers) /\ active[x] \in Layers \cup {CP!Nothing}
         /\ restoring[x] \in Undos \cup {CP!Nothing}
BY DEF StoreType

LEMMA EmptyMap == <<>> \in Maps /\ DOMAIN <<>> = {}
<1>1. <<>> = [f \in {} |-> 0]
  OBVIOUS
<1>2. [f \in {} |-> 0] \in [{} -> Int]
  OBVIOUS
<1> QED
  BY <1>1, <1>2 DEF Maps

LEMMA FreshLayer ==
  ASSUME StoreType, NEW m \in Maps
  PROVE  [files |-> m, start |-> disk, cut |-> {}] \in Layers
<1>1. disk \in Maps
  BY DEF StoreType, Maps
<1> QED
  BY <1>1 DEF Layers

LEMMA BeginTurnKeeps ==
  ASSUME Store, Control, CP!BeginTurn
  PROVE  Store' /\ Control'
<1> DEFINE A == CP!Fresh
           h == history["agents"]
           R == restoring["agents"]
<1>1. StoreType /\ "agents" \in CP!EditSessions /\ "lsp" \in CP!EditSessions \ {"agents"}
  BY DEF Store, CP!EditSessions
<1>2. /\ active["agents"] = CP!Nothing /\ running' /\ active' = [active EXCEPT !["agents"] = A]
      /\ UNCHANGED <<disk, history, restoring, toolcall, edit, writes>>
  BY DEF CP!BeginTurn, Control
<1>3. A = [files |-> <<>>, start |-> disk, cut |-> {}]
  BY DEF CP!Fresh
<1>4. A \in Layers /\ A.files = <<>> /\ A.start = disk
  BY <1>1, <1>3, EmptyMap, FreshLayer
<1>5. A # CP!Nothing
  BY <1>4, LayersAreThere
<1>6. Fits(h, CP!Nothing, R, disk)
  BY <1>1, <1>2 DEF Store, SessionFits
<1>7. /\ h \in Seq(Layers) /\ R \in Undos \cup {CP!Nothing}
      /\ history' = [history EXCEPT !["agents"] = h] /\ restoring' = [restoring EXCEPT !["agents"] = R]
  BY <1>1, <1>2, Unaltered
<1> HIDE DEF A, h, R
<1>8. Fits(h, A, R, disk)
  <2>1. \A f \in DOMAIN A.files : f \notin CP!Pending(R) /\ (A.files[f] = CP!Unreadable \/ A.files[f] = disk[f])
    BY <1>4, EmptyMap
  <2> DEFINE d == disk
  <2>2. Fits(h, CP!Nothing, R, d) /\ A.start = d
        /\ \A f \in DOMAIN A.files : f \notin CP!Pending(R) /\ (A.files[f] = CP!Unreadable \/ A.files[f] = d[f])
    BY <1>4, <1>6, <2>1
  <2> HIDE DEF d
  <2>3. Fits(h, A, R, d)
    BY <2>2, <1>5, BeginFits
  <2> QED
    BY <2>3 DEF d
<1>9. /\ Store' /\ active'["agents"] = A
      /\ \A y \in CP!EditSessions \ {"agents"} : active'[y] = active[y] /\ restoring'[y] = restoring[y]
  <2> DEFINE x == "agents"
  <2>1. /\ x \in CP!EditSessions /\ A \in Layers \cup {CP!Nothing}
        /\ h \in Seq(Layers) /\ R \in Undos \cup {CP!Nothing} /\ disk' = disk /\ writes' = writes
        /\ history' = [history EXCEPT ![x] = h] /\ active' = [active EXCEPT ![x] = A]
        /\ restoring' = [restoring EXCEPT ![x] = R] /\ Fits(h, A, R, disk)
    BY <1>1, <1>2, <1>4, <1>7, <1>8
  <2>2. /\ Store' /\ active'[x] = A
        /\ \A y \in CP!EditSessions \ {x} : active'[y] = active[y] /\ restoring'[y] = restoring[y]
    BY <2>1, OneSession
  <2> QED
    BY <2>2
<1>10. \A w \in Workers : CallCovered(w)'
  BY <1>2 DEF Control, CallCovered
<1>11. ASSUME NEW s \in Servers, OneServer
       PROVE  EditCovered(s)'
  BY <1>1, <1>2, <1>9, <1>11 DEF Control, EditCovered
<1>12. Control'
  BY <1>2, <1>5, <1>9, <1>10, <1>11 DEF Control, OneServer
<1> QED
  BY <1>9, <1>12

LEMMA EndTurnKeeps ==
  ASSUME MaxCheckpoints \in Nat \ {0}, Store, Control, CP!EndTurn
  PROVE  Store' /\ Control'
<1> DEFINE A == active["agents"]
           h == history["agents"]
           R == restoring["agents"]
           F == CP!Pending(R)
           B == CP!Without(A, F)
<1>1. StoreType /\ "agents" \in CP!EditSessions /\ "lsp" \in CP!EditSessions \ {"agents"}
  BY DEF Store, CP!EditSessions
<1>2. /\ A # CP!Nothing /\ ~running' /\ active' = [active EXCEPT !["agents"] = CP!Nothing]
      /\ history' = [history EXCEPT !["agents"] = CP!Committed(h, B)]
      /\ toolcall' = [w \in Workers |-> [toolcall[w] EXCEPT !.mine = FALSE]]
      /\ UNCHANGED <<disk, restoring, edit, writes>>
  BY <1>1 DEF CP!EndTurn, Control, StoreType
<1>3. /\ A \in Layers \cup {CP!Nothing} /\ h \in Seq(Layers) /\ R \in Undos \cup {CP!Nothing}
      /\ restoring' = [restoring EXCEPT !["agents"] = R] /\ Fits(h, A, R, disk)
  BY <1>1, <1>2, Unaltered DEF Store, SessionFits
<1> HIDE DEF A, h, R
<1>4. B \in Layers \cup {CP!Nothing} /\ Less(B, A) /\ Known(B) \cap F = {}
  BY <1>3, WithoutLayer
<1>5. B \in Layers
  BY <1>2, <1>4 DEF Less
<1> HIDE DEF B, F
<1> DEFINE d == disk
<1>6. Fits(h, B, R, d)
  <2>1. Fits(h, A, R, d) /\ LessAll(h, h) /\ Less(R, R)
    BY <1>3, LessItself, LessAllItself
  <2> HIDE DEF d
  <2> QED
    BY <2>1, <1>3, <1>4, LessFits
<1>7. CP!Committed(h, B) \in Seq(Layers) /\ Fits(CP!Committed(h, B), CP!Nothing, R, d)
  <2> HIDE DEF d
  <2> QED
    BY <1>3, <1>4, <1>5, <1>6, CommitFits DEF F
<1>8. /\ Store' /\ active'["agents"] = CP!Nothing
      /\ \A y \in CP!EditSessions \ {"agents"} : active'[y] = active[y] /\ restoring'[y] = restoring[y]
  <2> DEFINE g == CP!Committed(h, B)
             x == "agents"
             N == CP!Nothing
  <2>1. /\ x \in CP!EditSessions /\ g \in Seq(Layers) /\ N \in Layers \cup {CP!Nothing}
        /\ disk' = disk /\ writes' = writes /\ Fits(g, N, R, disk)
        /\ history' = [history EXCEPT ![x] = g] /\ active' = [active EXCEPT ![x] = N]
        /\ restoring' = [restoring EXCEPT ![x] = R]
    BY <1>1, <1>2, <1>3, <1>7
  <2> HIDE DEF g
  <2>2. /\ Store' /\ active'[x] = N
        /\ \A y \in CP!EditSessions \ {x} : active'[y] = active[y] /\ restoring'[y] = restoring[y]
    BY <2>1, <1>3, OneSession, ZenonT(60)
  <2> QED
    BY <2>2
<1>9. toolcall' \in [Workers -> CallRecs] /\ \A w \in Workers : ~toolcall'[w].mine
      /\ toolcall'[w].snapped = toolcall[w].snapped /\ toolcall'[w].left = toolcall[w].left
  <2>1. \A r \in CallRecs : LET q == [r EXCEPT !.mine = FALSE]
                            IN  q \in CallRecs /\ ~q.mine /\ q.snapped = r.snapped /\ q.left = r.left
    BY DEF CallRecs
  <2>2. \A w \in Workers : toolcall[w] \in CallRecs
    BY DEF Control
  <2> QED
    BY <2>1, <2>2, <1>2
<1>10. \A w \in Workers : CallCovered(w)'
  BY <1>9 DEF Control, CallCovered
<1>11. ASSUME NEW s \in Servers, OneServer
       PROVE  EditCovered(s)'
  BY <1>1, <1>2, <1>8, <1>11 DEF Control, EditCovered
<1>12. Control'
  BY <1>2, <1>8, <1>9, <1>10, <1>11 DEF Control, OneServer
<1> QED
  BY <1>8, <1>12

LEMMA UndoKeeps ==
  ASSUME Store, Control, NEW k \in Int, CP!Undo(k)
  PROVE  Store' /\ Control'
<1> DEFINE A == active["agents"]
           h == history["agents"]
           g == CP!Kept(h, k, A)
           R == CP!Popped(h, k, A)
<1>1. StoreType /\ "agents" \in CP!EditSessions /\ "lsp" \in CP!EditSessions \ {"agents"}
  BY DEF Store, CP!EditSessions
<1>2. /\ k \in 1..Len(h) /\ restoring["agents"] = CP!Nothing
      /\ restoring' = [restoring EXCEPT !["agents"] = R] /\ history' = [history EXCEPT !["agents"] = g]
      /\ UNCHANGED <<disk, active, running, toolcall, edit, writes>>
  BY DEF CP!Undo
<1>3. /\ A \in Layers \cup {CP!Nothing} /\ h \in Seq(Layers)
      /\ active' = [active EXCEPT !["agents"] = A] /\ Fits(h, A, CP!Nothing, disk)
  BY <1>1, <1>2, Unaltered DEF Store, SessionFits
<1> DEFINE d == disk
<1> HIDE DEF A, h
<1>4. R \in Undos /\ g \in Seq(Layers) /\ Fits(g, A, R, d)
  <2>1. Fits(h, A, CP!Nothing, d)
    BY <1>3
  <2> HIDE DEF d
  <2> QED
    BY <2>1, <1>2, <1>3, PopFits
<1> HIDE DEF R, g
<1>5. /\ Store' /\ active'["agents"] = A
      /\ \A y \in CP!EditSessions \ {"agents"} : active'[y] = active[y] /\ restoring'[y] = restoring[y]
  <2> DEFINE x == "agents"
  <2>1. /\ x \in CP!EditSessions /\ R \in Undos \cup {CP!Nothing}
        /\ disk' = disk /\ writes' = writes /\ Fits(g, A, R, disk)
        /\ history' = [history EXCEPT ![x] = g] /\ active' = [active EXCEPT ![x] = A]
        /\ restoring' = [restoring EXCEPT ![x] = R]
    BY <1>1, <1>2, <1>3, <1>4
  <2>2. /\ Store' /\ active'[x] = A
        /\ \A y \in CP!EditSessions \ {x} : active'[y] = active[y] /\ restoring'[y] = restoring[y]
    BY <2>1, <1>3, <1>4, OneSession, ZenonT(60)
  <2> QED
    BY <2>2
<1>6. SameTurns
  BY <1>1, <1>2, <1>5 DEF SameTurns
<1> QED
  BY <1>2, <1>5, <1>6, ControlKept

\* The first mutation of a file in a turn takes its snapshot.
LEMMA WithSnapshotIs ==
  ASSUME NEW A \in Layers, NEW f \in Files, NEW c \in Int, f \notin DOMAIN A.files
  PROVE  LET B == CP!WithSnapshot(A, f, c)
         IN  /\ B \in Layers /\ B.start = A.start /\ B.cut = A.cut
             /\ DOMAIN B.files = DOMAIN A.files \cup {f} /\ B.files[f] = c
             /\ \A g \in DOMAIN A.files : B.files[g] = A.files[g]
<1> DEFINE m == A.files
           n == CP!Put(m, f, c)
<1>1. m \in Maps
  BY DEF Layers
<1> HIDE DEF m
<1>2. PICK D \in SUBSET Files : m \in [D -> Int]
  BY <1>1 DEF Maps
<1>3. n = [g \in D \cup {f} |-> IF g = f THEN c ELSE m[g]]
  BY <1>2 DEF CP!Put
<1>4. n \in [D \cup {f} -> Int] /\ D \cup {f} \in SUBSET Files
  BY <1>2, <1>3
<1>5. n \in Maps
  BY <1>4 DEF Maps
<1>6. DOMAIN n = DOMAIN m \cup {f} /\ n[f] = c /\ \A g \in DOMAIN m : g # f => n[g] = m[g]
  BY <1>2, <1>3
<1> HIDE DEF n
<1>7. CP!WithSnapshot(A, f, c) = [A EXCEPT !.files = n]
  BY DEF CP!WithSnapshot, n, m
<1>8. LET B == [A EXCEPT !.files = n] IN B \in Layers /\ B.files = n /\ B.start = A.start /\ B.cut = A.cut
  BY <1>5 DEF Layers
<1> QED
  BY <1>6, <1>7, <1>8 DEF m

LEMMA SnapshotKeeps ==
  ASSUME Store, Control, NEW w \in Workers, NEW l \in Seq(Files) \ {<<>>}, CP!SnapshotBefore(w, l),
         UNCHANGED <<disk, restoring, running, edit, writes>>
  PROVE  Store' /\ Control'
<1> DEFINE f == Head(l)
           A == active["agents"]
           h == history["agents"]
           R == restoring["agents"]
           F == {f} \cap CP!Pending(R)
           q == [left |-> l, snapped |-> TRUE, mine |-> A # CP!Nothing]
<1>1. StoreType /\ "agents" \in CP!EditSessions /\ "lsp" \in CP!EditSessions \ {"agents"}
  BY DEF Store, CP!EditSessions
<1>2. f \in Files
  BY HeadIn
<1>3. toolcall' = [toolcall EXCEPT ![w] = q]
  BY DEF CP!SnapshotBefore
<1>4. q \in CallRecs /\ q.left = l /\ q.snapped /\ (q.mine <=> A # CP!Nothing)
  BY DEF CallRecs
<1>5. toolcall' \in [Workers -> CallRecs] /\ \A y \in Workers : toolcall'[y] = IF y = w THEN q ELSE toolcall[y]
  BY <1>3, <1>4 DEF Control
<1>6. ASSUME A = CP!Nothing
      PROVE  Store' /\ active' = active
  <2>1. UNCHANGED <<active, history>>
    BY <1>6 DEF CP!SnapshotBefore
  <2> QED
    BY <2>1 DEF Store, StoreType, SessionFits
<1>7. ASSUME A # CP!Nothing
      PROVE  /\ Store' /\ f \in DOMAIN active'["agents"].files /\ active'["agents"] # CP!Nothing
             /\ DOMAIN A.files \subseteq DOMAIN active'["agents"].files /\ active'["lsp"] = active["lsp"]
  <2>1. PICK c \in CP!Readings(f) : active' = [active EXCEPT !["agents"] = CP!WithSnapshot(A, f, c)]
    BY <1>7 DEF CP!SnapshotBefore
  <2> DEFINE B == CP!WithSnapshot(A, f, c)
             g == CP!CutAll(h, F)
             d == disk
  <2>2. history' = [history EXCEPT !["agents"] = g]
    BY <1>7 DEF CP!SnapshotBefore
  <2>3. c \in Int /\ (c = CP!Unreadable \/ c = d[f])
    <3>1. disk[f] \in Int
      BY <1>1, <1>2 DEF StoreType
    <3> QED
      BY <3>1 DEF CP!Readings, CP!Unreadable, CP!Absent
  <2>4. /\ A \in Layers /\ h \in Seq(Layers) /\ R \in Undos \cup {CP!Nothing}
        /\ restoring' = [restoring EXCEPT !["agents"] = R] /\ Fits(h, A, R, d)
    <3>1. A \in Layers \cup {CP!Nothing} /\ h \in Seq(Layers) /\ R \in Undos \cup {CP!Nothing}
          /\ restoring' = [restoring EXCEPT !["agents"] = R]
      BY <1>1, Unaltered
    <3>2. Fits(h, A, R, d)
      BY <1>1 DEF Store, SessionFits
    <3> QED
      BY <3>1, <3>2, <1>7
  <2>5. F \in SUBSET Files
    BY <1>2
  <2> HIDE DEF f, A, h, R, d, F, B
  <2>6. /\ g \in Seq(Layers) /\ LessAll(g, h)
        /\ \A i \in DOMAIN g : Known(g[i]) = Known(h[i]) \ F
    BY <2>4, <2>5, CutAllLess
  <2> HIDE DEF g
  <2>7. Fits(g, A, R, d)
    <3>1. Less(A, A) /\ Less(R, R)
      BY LessItself
    <3> QED
      BY <3>1, <2>4, <2>6, LessFits
  <2>8. f \in CP!Pending(R) => \A i \in DOMAIN g : f \notin Known(g[i])
    BY <2>6 DEF F
  <2>9. B \in Layers /\ B # CP!Nothing /\ f \in DOMAIN B.files /\ DOMAIN A.files \subseteq DOMAIN B.files /\ Fits(g, B, R, d)
    <3>1. CASE f \in DOMAIN A.files
      <4>1. B = A
        BY <3>1 DEF CP!WithSnapshot, B
      <4> QED
        BY <4>1, <3>1, <2>4, <2>7, <1>7
    <3>2. CASE f \notin DOMAIN A.files
      <4>1. /\ B \in Layers /\ B.start = A.start /\ B.cut = A.cut
            /\ DOMAIN B.files = DOMAIN A.files \cup {f} /\ B.files[f] = c
            /\ \A x \in DOMAIN A.files : B.files[x] = A.files[x]
        BY <3>2, <2>3, <2>4, <1>2, WithSnapshotIs DEF B
      <4>2. B # CP!Nothing
        BY <4>1, LayersAreThere
      <4>3. Fits(g, B, R, d)
        BY <4>1, <4>2, <3>2, <2>3, <2>7, <2>8, <1>7, SnapFits
      <4> QED
        BY <4>1, <4>2, <4>3
    <3> QED
      BY <3>1, <3>2
  <2>10. /\ Store' /\ active'["agents"] = B
         /\ \A y \in CP!EditSessions \ {"agents"} : active'[y] = active[y] /\ restoring'[y] = restoring[y]
    <3> DEFINE x == "agents"
    <3>1. /\ x \in CP!EditSessions /\ B \in Layers \cup {CP!Nothing}
          /\ disk' = disk /\ writes' = writes /\ Fits(g, B, R, disk)
          /\ history' = [history EXCEPT ![x] = g] /\ active' = [active EXCEPT ![x] = B]
          /\ restoring' = [restoring EXCEPT ![x] = R]
      BY <1>1, <2>1, <2>2, <2>4, <2>9 DEF d, B
    <3>2. /\ Store' /\ active'[x] = B
          /\ \A y \in CP!EditSessions \ {x} : active'[y] = active[y] /\ restoring'[y] = restoring[y]
      BY <3>1, <2>4, <2>6, OneSession
    <3> QED
      BY <3>2
  <2> QED
    BY <2>9, <2>10, <1>1
<1>8. Store'
  BY <1>6, <1>7
<1>9. \A y \in Workers : CallCovered(y)'
  BY <1>4, <1>5, <1>6, <1>7 DEF Control, CallCovered
<1>10. active'["lsp"] = active["lsp"] /\ (active'["agents"] = CP!Nothing <=> active["agents"] = CP!Nothing)
  BY <1>6, <1>7
<1>11. ASSUME NEW s \in Servers, OneServer
       PROVE  EditCovered(s)'
  BY <1>10, <1>11 DEF Control, EditCovered
<1>12. Control'
  BY <1>5, <1>9, <1>10, <1>11 DEF Control, OneServer
<1> QED
  BY <1>8, <1>12

\* What remains of an undo that is done with f.
Rest(L, R, f) ==
  /\ L \in Undos /\ L.start = R.start /\ L.cut = R.cut
  /\ DOMAIN L.files = DOMAIN R.files \ {f} /\ \A g \in DOMAIN R.files \ {f} : L.files[g] = R.files[g]

LEMMA LeftIs ==
  ASSUME NEW R \in Undos, NEW f
  PROVE  Rest(CP!Left(R, f), R, f) /\ Rest([CP!Left(R, f) EXCEPT !.ok = FALSE], R, f)
<1> DEFINE m == R.files
           n == CP!Restrict(m, DOMAIN m \ {f})
<1>1. m \in Maps
  BY DEF Undos
<1> HIDE DEF m
<1>2. n \in Maps /\ DOMAIN n = DOMAIN m \ {f} /\ \A g \in DOMAIN m \ {f} : n[g] = m[g]
  BY <1>1, RestrictMaps
<1> HIDE DEF n
<1>3. CP!Left(R, f) = [R EXCEPT !.files = n]
  BY DEF CP!Left, n, m
<1> DEFINE L == [R EXCEPT !.files = n]
           L2 == [L EXCEPT !.ok = FALSE]
<1>4. L \in Undos /\ L.files = n /\ L.start = R.start /\ L.cut = R.cut
  BY <1>2 DEF Undos
<1> HIDE DEF L
<1>5. L2 \in Undos /\ L2.files = n /\ L2.start = R.start /\ L2.cut = R.cut
  BY <1>4 DEF Undos
<1> HIDE DEF L2
<1>6. Rest(L, R, f) /\ Rest(L2, R, f)
  BY <1>2, <1>4, <1>5 DEF Rest, m
<1> QED
  BY <1>3, <1>6 DEF L, L2

\* The file stays as it is, and the session no longer answers for it.
LEMMA DropFits ==
  ASSUME NEW h \in Seq(Layers), NEW A \in Layers \cup {CP!Nothing}, NEW R \in Undos, NEW L \in Undos, NEW d,
         NEW f, Fits(h, A, R, d), f \in DOMAIN R.files, Rest(L, R, f)
  PROVE  Fits(CP!ForgetAll(h, f), CP!Forget(A, f), CP!Forget(L, f), d)
<1> DEFINE h2 == CP!ForgetAll(h, f)
           A2 == CP!Forget(A, f)
           R2 == CP!Forget(R, f)
           L2 == CP!Forget(L, f)
<1>1. Fits(h2, A2, R2, d)
  BY ForgottenFits
<1>2. \A i \in DOMAIN h2 : f \notin Known(h2[i])
  BY ForgetAllLess
<1>3. f \notin Known(A2)
  <2>1. Known(CP!Without(A, {f})) \cap {f} = {}
    BY WithoutLayer
  <2> QED
    BY <2>1 DEF CP!Forget
<1>4. R # CP!Nothing /\ L # CP!Nothing
  BY LayersAreThere
<1>5. /\ R2 = [R EXCEPT !.start = CP!Restrict(R.start, DOMAIN R.start \ {f})]
      /\ L2 = [L EXCEPT !.start = CP!Restrict(L.start, DOMAIN L.start \ {f})]
  BY <1>4 DEF CP!Forget, CP!Without
<1> DEFINE m == CP!Restrict(R.start, DOMAIN R.start \ {f})
<1>6. R2 = [R EXCEPT !.start = m] /\ L2 = [L EXCEPT !.start = m]
  BY <1>5 DEF Rest
<1>7. f \notin DOMAIN m
  BY DEF CP!Restrict
<1> HIDE DEF m, R2, L2
<1>8. /\ R2.files = R.files /\ R2.start = m /\ R2.cut = R.cut
      /\ L2.files = L.files /\ L2.start = m /\ L2.cut = L.cut
  BY <1>6 DEF Undos
<1>9. R2 # CP!Nothing /\ L2 # CP!Nothing
  <2>1. R2 \in Undos \cup {CP!Nothing} /\ Less(R2, R)
    BY ForgetTyped DEF R2
  <2>2. L2 \in Undos \cup {CP!Nothing} /\ Less(L2, L)
    BY ForgetTyped DEF L2
  <2> QED
    BY <1>4, <2>1, <2>2 DEF Less
<1>10. f \notin Known(R2)
  BY <1>7, <1>8 DEF Known
<1> HIDE DEF h2, A2
<1>11. /\ L2.start = R2.start /\ L2.cut = R2.cut /\ f \in DOMAIN R2.files
       /\ DOMAIN L2.files = DOMAIN R2.files \ {f} /\ \A g \in DOMAIN R2.files \ {f} : L2.files[g] = R2.files[g]
  BY <1>8 DEF Rest
<1>12. Fits(h2, A2, L2, d)
  BY <1>1, <1>2, <1>3, <1>9, <1>10, <1>11, DoneFits
<1> QED
  BY <1>12 DEF h2, A2, L2

\* The file is written back.
LEMMA BackFits ==
  ASSUME NEW h \in Seq(Layers), NEW A \in Layers \cup {CP!Nothing}, NEW R \in Undos, NEW L \in Undos, NEW d1, NEW d2,
         NEW f, Fits(h, A, R, d1), f \in DOMAIN R.files, Rest(L, R, f),
         R.files[f] # CP!Unreadable, d2[f] = R.files[f], \A g : g # f => d2[g] = d1[g]
  PROVE  Fits(h, CP!Forget(A, f), L, d2)
<1> DEFINE A2 == CP!Forget(A, f)
<1>1. A2 \in Layers \cup {CP!Nothing} /\ Less(A2, A) /\ f \notin Known(A2)
  <2>1. /\ CP!Without(A, {f}) \in Layers \cup {CP!Nothing} /\ Less(CP!Without(A, {f}), A)
        /\ Known(CP!Without(A, {f})) \cap {f} = {}
    BY WithoutLayer
  <2> QED
    BY <2>1 DEF CP!Forget
<1> HIDE DEF A2
<1>2. Fits(h, A2, R, d1)
  BY <1>1, LessItself, LessAllItself, LessFits
<1>3. R # CP!Nothing /\ L # CP!Nothing
  BY LayersAreThere
<1>4. Fits(h, A2, L, d2)
  BY <1>1, <1>2, <1>3, DoneFits DEF Rest
<1> QED
  BY <1>4 DEF A2

LEMMA RestoreKeeps ==
  ASSUME Store, Control, NEW x \in CP!EditSessions, NEW f \in Files, CP!RestoreOne(x, f)
  PROVE  Store' /\ Control'
<1> DEFINE R == restoring[x]
           A == active[x]
           h == history[x]
<1>1. StoreType /\ CP!EditSessions = {"agents", "lsp"}
  BY DEF Store, CP!EditSessions
<1>2. R \in Undos /\ f \in DOMAIN R.files /\ UNCHANGED <<running, toolcall, edit, writes>>
      /\ (CP!WriteBack(x, f) \/ CP!Skip(x, f) \/ CP!Refused(x, f))
  BY <1>1 DEF CP!RestoreOne, StoreType
<1>3. \A y \in CP!EditSessions : /\ active[y] \in Layers \cup {CP!Nothing} /\ history[y] \in Seq(Layers)
                                 /\ restoring[y] \in Undos \cup {CP!Nothing}
  BY <1>1 DEF StoreType
<1>4. R.files[f] \in Int
  <2> DEFINE m == R.files
  <2>1. m \in Maps /\ f \in DOMAIN m
    BY <1>2 DEF Undos
  <2> HIDE DEF m
  <2>2. m[f] \in Int
    BY <2>1 DEF Maps
  <2> QED
    BY <2>2 DEF m
<1>5. Rest(CP!Left(R, f), R, f) /\ Rest([CP!Left(R, f) EXCEPT !.ok = FALSE], R, f)
  BY <1>2, LeftIs
<1> DEFINE Goal == /\ Store'
                   /\ \A y \in CP!EditSessions : Less(active'[y], active[y])
                   /\ \A y \in CP!EditSessions \ {x} : restoring[y] = CP!Nothing => restoring'[y] = CP!Nothing
<1>6. ASSUME CP!WriteBack(x, f)
      PROVE  Goal
  <2> DEFINE L == CP!Left(R, f)
             d2 == disk'
  <2>1. /\ R.files[f] # CP!Unreadable /\ disk' = [disk EXCEPT ![f] = R.files[f]]
        /\ active' = [y \in CP!EditSessions |-> CP!Forget(active[y], f)]
        /\ history' = [y \in CP!EditSessions |-> IF y = x THEN history[y] ELSE CP!ForgetAll(history[y], f)]
        /\ restoring' = [y \in CP!EditSessions |-> IF y = x THEN CP!Left(restoring[y], f) ELSE CP!Forget(restoring[y], f)]
    BY <1>6 DEF CP!WriteBack
  <2>2. L \in Undos /\ Rest(L, R, f)
    BY <1>5 DEF Rest
  <2>3. disk' \in [Files -> Int] /\ disk'[f] = R.files[f] /\ \A g : g # f => disk'[g] = disk[g]
    BY <1>1, <1>4, <2>1 DEF StoreType
  <2>4. \A y \in CP!EditSessions : /\ CP!Forget(active[y], f) \in Layers \cup {CP!Nothing}
                                   /\ CP!ForgetAll(history[y], f) \in Seq(Layers)
                                   /\ CP!Forget(restoring[y], f) \in Undos \cup {CP!Nothing}
                                   /\ Less(CP!Forget(active[y], f), active[y])
                                   /\ Less(CP!Forget(restoring[y], f), restoring[y])
    BY <1>3, ForgetTyped
  <2>5. StoreType'
    <3>1. active' \in [CP!EditSessions -> Layers \cup {CP!Nothing}]
      BY <2>1, <2>4
    <3>2. history' \in [CP!EditSessions -> Seq(Layers)]
      BY <1>3, <2>1, <2>4
    <3>3. restoring' \in [CP!EditSessions -> Undos \cup {CP!Nothing}]
      BY <2>1, <2>2, <2>4
    <3> QED
      BY <1>1, <1>2, <2>3, <3>1, <3>2, <3>3 DEF StoreType
  <2>6. ASSUME x = "agents" \/ OneServer
        PROVE  SessionFits(x)'
    <3>1. history'[x] = h /\ active'[x] = CP!Forget(A, f) /\ restoring'[x] = L
      BY <2>1
    <3>2. Fits(h, A, R, disk)
      BY <2>6 DEF Store, SessionFits
    <3>3. h \in Seq(Layers) /\ A \in Layers \cup {CP!Nothing} /\ R.files[f] # CP!Unreadable
          /\ d2[f] = R.files[f] /\ \A g : g # f => d2[g] = disk[g]
      BY <1>3, <2>1, <2>3
    <3> HIDE DEF h, A, R, L, d2
    <3>4. Fits(h, CP!Forget(A, f), L, d2)
      BY <1>2, <2>2, <3>2, <3>3, BackFits
    <3> QED
      BY <3>1, <3>4 DEF SessionFits, d2
  <2>7. ASSUME NEW y \in CP!EditSessions \ {x}, y = "agents" \/ OneServer
        PROVE  SessionFits(y)'
    <3> DEFINE h3 == history[y]
               A3 == active[y]
               R3 == restoring[y]
    <3>1. history'[y] = CP!ForgetAll(h3, f) /\ active'[y] = CP!Forget(A3, f) /\ restoring'[y] = CP!Forget(R3, f)
      BY <2>1
    <3>2. Fits(h3, A3, R3, disk)
      BY <2>7 DEF Store, SessionFits
    <3>3. h3 \in Seq(Layers) /\ A3 \in Layers \cup {CP!Nothing} /\ R3 \in Undos \cup {CP!Nothing}
          /\ \A g : g # f => d2[g] = disk[g]
      BY <1>3, <2>3
    <3> HIDE DEF h3, A3, R3, d2
    <3>4. Fits(CP!ForgetAll(h3, f), CP!Forget(A3, f), CP!Forget(R3, f), d2)
      BY <3>2, <3>3, ForgottenFits
    <3> QED
      BY <3>1, <3>4 DEF SessionFits, d2
  <2>8. Store'
    BY <2>5, <2>6, <2>7 DEF Store, OneServer
  <2>9. \A y \in CP!EditSessions : Less(active'[y], active[y])
    BY <2>1, <2>4
  <2>10. \A y \in CP!EditSessions \ {x} : restoring[y] = CP!Nothing => restoring'[y] = CP!Nothing
    BY <2>1, <2>4 DEF Less
  <2> QED
    BY <2>8, <2>9, <2>10
<1>7. ASSUME NEW L \in Undos, Rest(L, R, f), CP!Strange({x}, f, [restoring EXCEPT ![x] = L]), disk' = disk
      PROVE  Goal
  <2> DEFINE r == [restoring EXCEPT ![x] = L]
  <2>1. r[x] = L /\ \A y \in CP!EditSessions \ {x} : r[y] = restoring[y]
    BY <1>1 DEF StoreType
  <2>2. CP!Strange({x}, f, r)
    BY <1>7
  <2> HIDE DEF r
  <2>3. /\ active' = [y \in CP!EditSessions |-> IF y \in {x} THEN CP!Forget(active[y], f) ELSE active[y]]
        /\ history' = [y \in CP!EditSessions |-> IF y \in {x} THEN CP!ForgetAll(history[y], f) ELSE history[y]]
        /\ restoring' = [y \in CP!EditSessions |-> IF y \in {x} THEN CP!Forget(r[y], f) ELSE r[y]]
    BY <2>2 DEF CP!Strange
  <2>4. /\ active'[x] = CP!Forget(A, f) /\ history'[x] = CP!ForgetAll(h, f) /\ restoring'[x] = CP!Forget(L, f)
        /\ \A y \in CP!EditSessions \ {x} :
             active'[y] = active[y] /\ history'[y] = history[y] /\ restoring'[y] = restoring[y]
    BY <2>1, <2>3
  <2>5. /\ h \in Seq(Layers) /\ A \in Layers \cup {CP!Nothing} /\ CP!ForgetAll(h, f) \in Seq(Layers)
        /\ CP!Forget(A, f) \in Layers \cup {CP!Nothing} /\ Less(CP!Forget(A, f), A)
        /\ CP!Forget(L, f) \in Undos \cup {CP!Nothing}
    BY <1>3, ForgetTyped
  <2>6. StoreType'
    <3>1. active' \in [CP!EditSessions -> Layers \cup {CP!Nothing}]
      BY <1>3, <2>3, <2>5
    <3>2. history' \in [CP!EditSessions -> Seq(Layers)]
      BY <1>3, <2>3, <2>5
    <3>3. restoring' \in [CP!EditSessions -> Undos \cup {CP!Nothing}]
      BY <1>3, <2>1, <2>3, <2>5
    <3> QED
      BY <1>1, <1>2, <1>7, <3>1, <3>2, <3>3 DEF StoreType
  <2>7. ASSUME x = "agents" \/ OneServer
        PROVE  SessionFits(x)'
    <3> DEFINE d == disk
    <3>1. Fits(h, A, R, d)
      BY <2>7 DEF Store, SessionFits
    <3> HIDE DEF h, A, R, d
    <3>2. Fits(CP!ForgetAll(h, f), CP!Forget(A, f), CP!Forget(L, f), d)
      BY <1>2, <1>7, <2>5, <3>1, DropFits
    <3> QED
      BY <1>7, <2>4, <3>2 DEF SessionFits, d
  <2>8. ASSUME NEW y \in CP!EditSessions \ {x}, y = "agents" \/ OneServer
        PROVE  SessionFits(y)'
    BY <1>7, <2>4, <2>8 DEF Store, SessionFits
  <2>9. Store'
    BY <2>6, <2>7, <2>8 DEF Store, OneServer
  <2> QED
    BY <2>4, <2>5, <2>9, LessItself
<1>8. ASSUME CP!Skip(x, f)
      PROVE  Goal
  BY <1>1, <1>5, <1>7, <1>8 DEF CP!Skip, Rest, StoreType
<1>9. ASSUME CP!Refused(x, f)
      PROVE  Goal
  BY <1>1, <1>5, <1>7, <1>9 DEF CP!Refused, Rest, StoreType
<1>10. Goal
  BY <1>2, <1>6, <1>8, <1>9
<1>11. restoring["lsp"] = CP!Nothing => x # "lsp"
  BY <1>2, LayersAreThere
<1>12. SameTurns
  BY <1>1, <1>10, <1>11 DEF SameTurns, Less
<1> QED
  BY <1>2, <1>10, <1>12, ControlKept

LEMMA RestoredKeeps ==
  ASSUME Store, Control, NEW x \in CP!EditSessions, CP!Restored(x)
  PROVE  Store' /\ Control'
<1> DEFINE A == active[x]
           h == history[x]
           R == restoring[x]
           N == CP!Nothing
<1>1. StoreType /\ CP!EditSessions = {"agents", "lsp"}
  BY DEF Store, CP!EditSessions
<1>2. /\ R.files = <<>> /\ restoring' = [restoring EXCEPT ![x] = N]
      /\ UNCHANGED <<disk, active, history, running, toolcall, edit, writes>>
  BY DEF CP!Restored
<1>3. /\ A \in Layers \cup {CP!Nothing} /\ h \in Seq(Layers) /\ N \in Undos \cup {CP!Nothing}
      /\ history' = [history EXCEPT ![x] = h] /\ active' = [active EXCEPT ![x] = A]
  BY <1>1, <1>2, Unaltered
<1>4. CP!Pending(R) = {}
  BY <1>2, EmptyMap DEF CP!Pending
<1>5. x = "agents" \/ OneServer => Fits(h, A, N, disk)
  <2> DEFINE d == disk
  <2>1. x = "agents" \/ OneServer => Fits(h, A, R, d)
    BY DEF Store, SessionFits
  <2> HIDE DEF A, h, R, d
  <2>2. x = "agents" \/ OneServer => Fits(h, A, N, d)
    BY <2>1, <1>4, OverFits
  <2> QED
    BY <2>2 DEF d
<1> HIDE DEF A, h
<1>6. /\ Store' /\ active'[x] = A /\ restoring'[x] = N
      /\ \A y \in CP!EditSessions \ {x} : active'[y] = active[y] /\ restoring'[y] = restoring[y]
  <2>1. disk' = disk /\ writes' = writes
    BY <1>2
  <2> QED
    BY <2>1, <1>2, <1>3, <1>5, OneSession
<1>7. SameTurns
  BY <1>1, <1>2, <1>6 DEF SameTurns
<1> QED
  BY <1>2, <1>6, <1>7, ControlKept

LEMMA BeginEditKeeps ==
  ASSUME Lists \subseteq Seq(Files) \ {<<>>}, Store, Control, NEW s \in Servers, CP!BeginEdit(s)
  PROVE  Store' /\ Control'
<1> DEFINE h == history["lsp"]
           N == CP!Nothing
<1>1. StoreType /\ "lsp" \in CP!EditSessions /\ "agents" \in CP!EditSessions \ {"lsp"}
  BY DEF Store, CP!EditSessions
<1>2. /\ edit[s] = CP!Idle /\ restoring["lsp"] = N
      /\ UNCHANGED <<disk, history, restoring, running, toolcall, writes>>
  BY DEF CP!BeginEdit
<1>3. PICK l \in Lists : \E whole \in [CP!Range(l) -> BOOLEAN] :
        /\ edit' = [edit EXCEPT ![s] = [CP!Idle EXCEPT !.left = l, !.snapped = TRUE]]
        /\ active' = [active EXCEPT !["lsp"] = [CP!Fresh EXCEPT !.files =
             [f \in CP!Range(l) |-> IF whole[f] \/ disk[f] = CP!Absent THEN disk[f] ELSE CP!Unreadable]]]
  BY DEF CP!BeginEdit
<1> PICK whole \in [CP!Range(l) -> BOOLEAN] :
        /\ edit' = [edit EXCEPT ![s] = [CP!Idle EXCEPT !.left = l, !.snapped = TRUE]]
        /\ active' = [active EXCEPT !["lsp"] = [CP!Fresh EXCEPT !.files =
             [f \in CP!Range(l) |-> IF whole[f] \/ disk[f] = CP!Absent THEN disk[f] ELSE CP!Unreadable]]]
  BY <1>3
<1>4. l \in Seq(Files) /\ CP!Range(l) \subseteq Files /\ \A i \in DOMAIN l : l[i] \in CP!Range(l)
  BY DEF CP!Range
<1> DEFINE q == [CP!Idle EXCEPT !.left = l, !.snapped = TRUE]
           m == [f \in CP!Range(l) |-> IF whole[f] \/ disk[f] = CP!Absent THEN disk[f] ELSE CP!Unreadable]
           A == [CP!Fresh EXCEPT !.files = m]
<1>5. /\ m \in Maps /\ DOMAIN m = CP!Range(l)
      /\ \A f \in DOMAIN m : m[f] = CP!Unreadable \/ m[f] = disk[f]
  <2>1. \A f \in CP!Range(l) : disk[f] \in Int
    BY <1>1, <1>4 DEF StoreType
  <2>2. m \in [CP!Range(l) -> Int]
    BY <2>1 DEF CP!Unreadable
  <2>3. m \in Maps
    BY <2>2, <1>4 DEF Maps
  <2> QED
    BY <2>3
<1>6. edit' = [edit EXCEPT ![s] = q] /\ active' = [active EXCEPT !["lsp"] = A]
  BY <1>3
<1> HIDE DEF m
<1>7. CP!Fresh \in Layers /\ CP!Fresh.start = disk
  <2>1. CP!Fresh = [files |-> <<>>, start |-> disk, cut |-> {}]
    BY DEF CP!Fresh
  <2> QED
    BY <1>1, <2>1, EmptyMap, FreshLayer
<1>8. A \in Layers /\ A.files = m /\ A.start = disk
  BY <1>5, <1>7 DEF Layers
<1>9. A # CP!Nothing
  BY <1>8, LayersAreThere
<1>10. q \in CallRecs /\ q.left = l /\ q.snapped
  BY <1>4 DEF CP!Idle, CallRecs
<1> HIDE DEF q, A
<1>11. OneServer => active["lsp"] = CP!Nothing
  <2>1. ~CP!Idle.snapped
    BY DEF CP!Idle
  <2> QED
    BY <1>2, <2>1 DEF Control, EditCovered
<1>12. /\ h \in Seq(Layers) /\ N \in Undos \cup {CP!Nothing} /\ A \in Layers \cup {CP!Nothing}
       /\ history' = [history EXCEPT !["lsp"] = h] /\ restoring' = [restoring EXCEPT !["lsp"] = N]
  BY <1>1, <1>2, <1>8, Unaltered
<1>13. OneServer => Fits(h, A, N, disk)
  <2> DEFINE d == disk
  <2>1. OneServer => Fits(h, CP!Nothing, N, d)
    BY <1>1, <1>2, <1>11 DEF Store, SessionFits
  <2>2. A.start = d /\ \A f \in DOMAIN A.files : f \notin CP!Pending(N) /\ (A.files[f] = CP!Unreadable \/ A.files[f] = d[f])
    BY <1>5, <1>8 DEF CP!Pending
  <2> HIDE DEF h, d, N
  <2>3. OneServer => Fits(h, A, N, d)
    BY <2>1, <2>2, <1>9, BeginFits
  <2> QED
    BY <2>3 DEF d
<1> HIDE DEF h
<1>14. /\ Store' /\ active'["lsp"] = A /\ restoring'["lsp"] = N
       /\ \A y \in CP!EditSessions \ {"lsp"} : active'[y] = active[y] /\ restoring'[y] = restoring[y]
  <2> DEFINE x == "lsp"
  <2>1. /\ x \in CP!EditSessions /\ disk' = disk /\ writes' = writes
        /\ (x = "agents" \/ OneServer => Fits(h, A, N, disk)) /\ history' = [history EXCEPT ![x] = h]
        /\ active' = [active EXCEPT ![x] = A] /\ restoring' = [restoring EXCEPT ![x] = N]
        /\ h \in Seq(Layers) /\ N \in Undos \cup {CP!Nothing} /\ A \in Layers \cup {CP!Nothing}
    BY <1>1, <1>2, <1>6, <1>12, <1>13
  <2>2. /\ Store' /\ active'[x] = A /\ restoring'[x] = N
        /\ \A y \in CP!EditSessions \ {x} : active'[y] = active[y] /\ restoring'[y] = restoring[y]
    BY <2>1, OneSession
  <2> QED
    BY <2>2
<1>15. edit' \in [Servers -> CallRecs] /\ edit'[s] = q
  BY <1>6, <1>10 DEF Control
<1>16. ASSUME NEW z \in Servers, OneServer
       PROVE  EditCovered(z)'
  <2>1. edit'[z] = q
    BY <1>15, <1>16 DEF OneServer
  <2>2. \A i \in DOMAIN q.left : q.left[i] \in DOMAIN A.files
    BY <1>4, <1>5, <1>8, <1>10
  <2> QED
    BY <2>1, <2>2, <1>9, <1>10, <1>14 DEF EditCovered
<1>17. \A w \in Workers : CallCovered(w)'
  BY <1>1, <1>2, <1>14 DEF Control, CallCovered
<1>18. Control'
  BY <1>1, <1>2, <1>14, <1>15, <1>16, <1>17 DEF Control, OneServer
<1> QED
  BY <1>14, <1>18

LEMMA ApplyKeeps ==
  ASSUME Store, Control, NEW s \in Servers, CP!ApplyOne(s)
  PROVE  Store' /\ Control'
<1> DEFINE q == edit[s]
           l == q.left
           f == Head(l)
           r == [q EXCEPT !.left = Tail(l)]
<1>1. StoreType /\ CP!EditSessions = {"agents", "lsp"}
  BY DEF Store, CP!EditSessions
<1>2. q \in CallRecs /\ l \in Seq(Files) /\ l # <<>>
  BY DEF Control, CP!ApplyOne, CallRecs
<1>3. f \in Files /\ Tail(l) \in Seq(Files) /\ 1 \in DOMAIN l /\ f = l[1]
  BY <1>2, HeadIn
<1>4. CP!Change(f, {"agents"}) /\ edit' = [edit EXCEPT ![s] = r] /\ UNCHANGED <<running, toolcall>>
  BY DEF CP!ApplyOne, Control
<1>5. r \in CallRecs /\ r.left = Tail(l) /\ r.snapped = q.snapped
  BY <1>2, <1>3 DEF CallRecs
<1>6. OneServer => /\ q.snapped /\ restoring["lsp"] = CP!Nothing /\ active["lsp"] # CP!Nothing
                   /\ \A i \in DOMAIN l : l[i] \in DOMAIN active["lsp"].files
  BY <1>2 DEF Control, EditCovered
<1>7. \A i \in DOMAIN Tail(l) : i + 1 \in DOMAIN l /\ Tail(l)[i] = l[i + 1]
  BY <1>2
<1> HIDE DEF q, l, f, r
<1>8. /\ StoreType' /\ SameTurns
      /\ \A x \in CP!EditSessions \cap {"agents"} : SessionFits(x) => SessionFits(x)'
      /\ \A x \in CP!EditSessions \ {"agents"} : restoring'[x] = restoring[x] /\ active'[x] = active[x]
  BY <1>1, <1>3, <1>4, ChangeKeeps
<1>9. SessionFits("agents")'
  BY <1>1, <1>8 DEF Store
<1>10. OneServer => SessionFits("lsp")'
  <2> DEFINE x == "lsp"
  <2>1. {"agents"} = CP!EditSessions \ {x} /\ x \in CP!EditSessions
    BY <1>1
  <2>2. CP!Change(f, CP!EditSessions \ {x})
    BY <1>4, <2>1
  <2>3. OneServer => /\ SessionFits(x) /\ restoring[x] = CP!Nothing /\ active[x] # CP!Nothing
                     /\ f \in DOMAIN active[x].files
    BY <1>1, <1>3, <1>6 DEF Store
  <2> HIDE DEF x
  <2>4. OneServer => SessionFits(x)'
    BY <1>1, <1>3, <2>1, <2>2, <2>3, OwnKeeps
  <2> QED
    BY <2>4 DEF x
<1>11. Store'
  BY <1>1, <1>8, <1>9, <1>10 DEF Store, OneServer
<1>12. edit' \in [Servers -> CallRecs] /\ edit'[s] = r
  BY <1>4, <1>5 DEF Control
<1>13. ASSUME NEW z \in Servers, OneServer
       PROVE  EditCovered(z)'
  <2>1. edit'[z] = r
    BY <1>12, <1>13 DEF OneServer
  <2>2. \A i \in DOMAIN r.left : r.left[i] \in DOMAIN active["lsp"].files
    BY <1>5, <1>6, <1>7, <1>13
  <2>3. restoring'["lsp"] = restoring["lsp"] /\ active'["lsp"] = active["lsp"]
    BY <1>1, <1>8
  <2> QED
    BY <2>1, <2>2, <2>3, <1>5, <1>6, <1>13 DEF EditCovered
<1>14. \A w \in Workers : CallCovered(w)'
  BY <1>1, <1>4, <1>8 DEF Control, SameTurns, CallCovered
<1>15. running' <=> active'["agents"] # CP!Nothing
  BY <1>1, <1>4, <1>8 DEF Control, SameTurns
<1>16. Control'
  BY <1>4, <1>12, <1>13, <1>14, <1>15 DEF Control, OneServer
<1> QED
  BY <1>11, <1>16

LEMMA CommittedTyped ==
  ASSUME MaxCheckpoints \in Nat \ {0}, NEW h \in Seq(Layers), NEW A \in Layers
  PROVE  CP!Committed(h, A) \in Seq(Layers)
<1>1. Append(h, A) \in Seq(Layers)
  OBVIOUS
<1>2. h # <<>> => Append(Tail(h), A) \in Seq(Layers)
  OBVIOUS
<1>3. h = <<>> => Len(h) # MaxCheckpoints
  OBVIOUS
<1> QED
  BY <1>1, <1>2, <1>3 DEF CP!Committed

\* The edit is over, whether it is then rolled back or not.
LEMMA EditsCommitted ==
  ASSUME MaxCheckpoints \in Nat \ {0}, Store
  PROVE  /\ CP!CommittedEdits \in Seq(Layers)
         /\ OneServer /\ restoring["lsp"] = CP!Nothing => Fits(CP!CommittedEdits, CP!Nothing, CP!Nothing, disk)
<1> DEFINE A == active["lsp"]
           h == history["lsp"]
           d == disk
           N == CP!Nothing
<1>1. StoreType /\ "lsp" \in CP!EditSessions
  BY DEF Store, CP!EditSessions
<1>2. h \in Seq(Layers) /\ A \in Layers \cup {CP!Nothing} /\ N \in Undos \cup {CP!Nothing}
  BY <1>1, Unaltered
<1>3. OneServer /\ restoring["lsp"] = N => Fits(h, A, N, d)
  BY <1>1 DEF Store, SessionFits
<1>4. CP!CommittedEdits = IF A = CP!Nothing THEN h ELSE CP!Committed(h, A)
  BY DEF CP!CommittedEdits
<1>5. Known(A) \cap CP!Pending(N) = {}
  BY DEF CP!Pending
<1> HIDE DEF A, h, d
<1>6. CASE A = CP!Nothing
  BY <1>2, <1>3, <1>4, <1>6 DEF d
<1>7. CASE A # CP!Nothing
  <2>1. A \in Layers
    BY <1>2, <1>7
  <2>2. Fits(h, A, N, d) => CP!Committed(h, A) \in Seq(Layers) /\ Fits(CP!Committed(h, A), N, N, d)
    <3> HIDE DEF N
    <3>1. ASSUME Fits(h, A, N, d)
          PROVE  CP!Committed(h, A) \in Seq(Layers) /\ Fits(CP!Committed(h, A), CP!Nothing, N, d)
      BY <3>1, <2>1, <1>2, <1>5, CommitFits
    <3> QED
      BY <3>1 DEF N
  <2>3. CP!Committed(h, A) \in Seq(Layers)
    BY <2>1, <1>2, CommittedTyped
  <2> QED
    BY <1>3, <1>4, <1>7, <2>2, <2>3 DEF d
<1> QED
  BY <1>6, <1>7

\* The only server is through with its edit.
LEMMA EditOver ==
  ASSUME Control, NEW s \in Servers, edit' = [edit EXCEPT ![s] = CP!Idle], active'["lsp"] = CP!Nothing,
         active'["agents"] = active["agents"], UNCHANGED <<running, toolcall>>
  PROVE  Control'
<1>1. CP!Idle \in CallRecs /\ ~CP!Idle.snapped /\ CP!Idle.left = <<>>
  BY DEF CP!Idle, CallRecs
<1>2. edit' \in [Servers -> CallRecs] /\ edit'[s] = CP!Idle
  BY <1>1 DEF Control
<1>3. ASSUME NEW z \in Servers, OneServer
      PROVE  EditCovered(z)'
  <2>1. edit'[z] = CP!Idle
    BY <1>2, <1>3 DEF OneServer
  <2> QED
    BY <2>1, <1>1 DEF EditCovered
<1>4. \A w \in Workers : CallCovered(w)'
  BY DEF Control, CallCovered
<1> QED
  BY <1>2, <1>3, <1>4 DEF Control, OneServer

LEMMA EndEditKeeps ==
  ASSUME MaxCheckpoints \in Nat \ {0}, Store, Control, NEW s \in Servers, CP!EndEdit(s)
  PROVE  Store' /\ Control'
<1> DEFINE g == CP!CommittedEdits
           R == restoring["lsp"]
           N == CP!Nothing
<1>1. StoreType /\ "lsp" \in CP!EditSessions /\ "agents" \in CP!EditSessions \ {"lsp"}
  BY DEF Store, CP!EditSessions
<1>2. /\ edit[s].snapped /\ edit' = [edit EXCEPT ![s] = CP!Idle]
      /\ active' = [active EXCEPT !["lsp"] = N] /\ history' = [history EXCEPT !["lsp"] = g]
      /\ UNCHANGED <<disk, restoring, running, toolcall, writes>>
  BY DEF CP!EndEdit
<1>3. OneServer => R = N
  BY <1>2 DEF Control, EditCovered
<1>4. g \in Seq(Layers) /\ (OneServer /\ R = N => Fits(g, N, N, disk))
  BY EditsCommitted
<1>5. R \in Undos \cup {CP!Nothing} /\ restoring' = [restoring EXCEPT !["lsp"] = R]
  BY <1>1, <1>2, Unaltered
<1> HIDE DEF g, R
<1>6. OneServer => Fits(g, N, R, disk)
  BY <1>3, <1>4
<1>7. /\ Store' /\ active'["lsp"] = N
      /\ \A y \in CP!EditSessions \ {"lsp"} : active'[y] = active[y] /\ restoring'[y] = restoring[y]
  <2> DEFINE x == "lsp"
  <2>1. /\ x \in CP!EditSessions /\ disk' = disk /\ writes' = writes
        /\ (x = "agents" \/ OneServer => Fits(g, N, R, disk)) /\ history' = [history EXCEPT ![x] = g]
        /\ active' = [active EXCEPT ![x] = N] /\ restoring' = [restoring EXCEPT ![x] = R]
        /\ g \in Seq(Layers) /\ R \in Undos \cup {CP!Nothing} /\ N \in Layers \cup {CP!Nothing}
    BY <1>1, <1>2, <1>4, <1>5, <1>6
  <2>2. /\ Store' /\ active'[x] = N
        /\ \A y \in CP!EditSessions \ {x} : active'[y] = active[y] /\ restoring'[y] = restoring[y]
    BY <2>1, OneSession
  <2> QED
    BY <2>2
<1>8. Control'
  BY <1>1, <1>2, <1>7, EditOver
<1> QED
  BY <1>7, <1>8

\* The newest checkpoint is taken back while no turn is in progress.
LEMMA RollbackFits ==
  ASSUME NEW h \in Seq(Layers), NEW d
  PROVE  LET q == SubSeq(h, 1, Len(h) - 1)
             R == IF h = <<>> THEN CP!Nothing ELSE CP!Rollback(h)
         IN  /\ q \in Seq(Layers) /\ R \in Undos \cup {CP!Nothing}
             /\ Fits(h, CP!Nothing, CP!Nothing, d) => Fits(q, CP!Nothing, R, d)
<1> DEFINE q == SubSeq(h, 1, Len(h) - 1)
           N == CP!Nothing
<1>1. CASE h = <<>>
  <2>1. q = <<>> /\ q \in Seq(Layers) /\ DOMAIN q = {}
    BY <1>1
  <2>2. Known(N) = {}
    BY DEF Known
  <2>3. Fits(q, N, N, d)
    <3> HIDE DEF N, q
    <3> QED
      BY <2>1, <2>2 DEF Fits, FitsOpen, FitsUndo
  <2> QED
    BY <1>1, <2>1, <2>3
<1>2. CASE h # <<>>
  <2> DEFINE K == CP!Kept(h, 1, N)
             R == CP!Popped(h, 1, N)
  <2>1. N \in Layers \cup {CP!Nothing} /\ 1 \in 1..Len(h)
    BY <1>2
  <2>2. /\ R \in Undos /\ K \in Seq(Layers)
        /\ Fits(h, N, CP!Nothing, d) => Fits(K, N, R, d)
    <3> HIDE DEF N
    <3> QED
      BY <2>1, PopFits
  <2>3. q \in Seq(Layers) /\ Len(q) = Len(h) - 1 /\ DOMAIN q = 1..Len(q)
    <3>1. \A i \in 1..(Len(h) - 1) : h[i] \in Layers
      OBVIOUS
    <3>2. SubSeq(h, 1, Len(h) - 1) \in Seq(Layers)
      BY <3>1, SubSeqProperties
    <3>3. Len(SubSeq(h, 1, Len(h) - 1)) = Len(h) - 1
      <4>1. Len(h) \in Nat /\ Len(h) >= 1 /\ Len(h) - 1 \in Int
        BY <1>2
      <4>2. Len(SubSeq(h, 1, Len(h) - 1)) = IF 1 <= Len(h) - 1 THEN (Len(h) - 1) - 1 + 1 ELSE 0
        BY <3>1, <4>1, SubSeqProperties
      <4> DEFINE n == Len(h)
      <4> HIDE DEF n
      <4>3. n \in Nat /\ n >= 1 => (IF 1 <= n - 1 THEN (n - 1) - 1 + 1 ELSE 0) = n - 1
        OBVIOUS
      <4> QED
        BY <4>1, <4>2, <4>3 DEF n
    <3> QED
      BY <3>2, <3>3
  <2> DEFINE F == CP!Pending(N) \cap DOMAIN CP!Merged(CP!Newest(h, 1))
  <2>4. F = {}
    BY DEF CP!Pending
  <2>11. F \in SUBSET Files /\ K = CP!CutAll(q, F)
    BY <2>4 DEF CP!Kept
  <2>5. CP!Rollback(h) = R
    BY DEF CP!Rollback
  <2> HIDE DEF q, F, K, R
  <2>6. /\ LessAll(K, q) /\ \A i \in DOMAIN K : Known(K[i]) = Known(q[i]) \ F /\ K[i].start = q[i].start
    BY <2>3, <2>11, CutAllLess
  <2>7. DOMAIN K = DOMAIN q /\ Len(K) = Len(q)
    BY <2>2, <2>3, <2>6 DEF LessAll
  <2>8. \A i \in DOMAIN K : Less(q[i], K[i])
    BY <2>4, <2>6, <2>7 DEF LessAll, Less
  <2>9. LessAll(q, K)
    BY <2>7, <2>8 DEF LessAll
  <2>10. Fits(h, N, N, d) => Fits(q, N, R, d)
    <3>1. Less(N, N) /\ Less(R, R) /\ R \in Undos \cup {CP!Nothing}
      BY <2>2, LessItself
    <3>2. ASSUME Fits(K, N, R, d)
          PROVE  Fits(q, N, R, d)
      <4> HIDE DEF N
      <4> QED
        BY <3>1, <3>2, <2>1, <2>2, <2>3, <2>9, LessFits
    <3> QED
      BY <3>2, <2>2
  <2> QED
    BY <1>2, <2>2, <2>3, <2>5, <2>10 DEF q
<1> QED
  BY <1>1, <1>2

LEMMA EditFailsKeeps ==
  ASSUME MaxCheckpoints \in Nat \ {0}, Store, Control, NEW s \in Servers, CP!EditFails(s)
  PROVE  Store' /\ Control'
<1> DEFINE h == CP!CommittedEdits
           q == SubSeq(h, 1, Len(h) - 1)
           R == IF h = <<>> THEN CP!Nothing ELSE CP!Rollback(h)
           N == CP!Nothing
           d == disk
<1>1. StoreType /\ "lsp" \in CP!EditSessions /\ "agents" \in CP!EditSessions \ {"lsp"}
  BY DEF Store, CP!EditSessions
<1>2. /\ restoring["lsp"] = N /\ edit' = [edit EXCEPT ![s] = CP!Idle]
      /\ active' = [active EXCEPT !["lsp"] = N] /\ history' = [history EXCEPT !["lsp"] = q]
      /\ restoring' = [restoring EXCEPT !["lsp"] = R]
      /\ UNCHANGED <<disk, running, toolcall, writes>>
  BY DEF CP!EditFails
<1>3. h \in Seq(Layers) /\ (OneServer => Fits(h, N, N, d))
  BY <1>2, EditsCommitted
<1> HIDE DEF h, d
<1>4. q \in Seq(Layers) /\ R \in Undos \cup {CP!Nothing} /\ (Fits(h, N, N, d) => Fits(q, N, R, d))
  BY <1>3, RollbackFits
<1> HIDE DEF q, R
<1>5. OneServer => Fits(q, N, R, disk)
  BY <1>3, <1>4 DEF d
<1>6. /\ Store' /\ active'["lsp"] = N
      /\ \A y \in CP!EditSessions \ {"lsp"} : active'[y] = active[y] /\ restoring'[y] = restoring[y]
  <2> DEFINE x == "lsp"
  <2>1. /\ x \in CP!EditSessions /\ disk' = disk /\ writes' = writes
        /\ (x = "agents" \/ OneServer => Fits(q, N, R, disk)) /\ history' = [history EXCEPT ![x] = q]
        /\ active' = [active EXCEPT ![x] = N] /\ restoring' = [restoring EXCEPT ![x] = R]
        /\ q \in Seq(Layers) /\ R \in Undos \cup {CP!Nothing} /\ N \in Layers \cup {CP!Nothing}
    BY <1>1, <1>2, <1>4, <1>5
  <2>2. /\ Store' /\ active'[x] = N
        /\ \A y \in CP!EditSessions \ {x} : active'[y] = active[y] /\ restoring'[y] = restoring[y]
    BY <2>1, OneSession
  <2> QED
    BY <2>2
<1>7. Control'
  BY <1>1, <1>2, <1>6, EditOver
<1> QED
  BY <1>6, <1>7

-----------------------------------------------------------------------------
LEMMA InitKeeps == CP!Init => Store /\ Control
<1> SUFFICES ASSUME CP!Init
             PROVE  Store /\ Control
  OBVIOUS
<1> DEFINE N == CP!Nothing
<1>1. /\ \A x \in CP!EditSessions : active[x] = N /\ history[x] = <<>> /\ restoring[x] = N
      /\ ~running /\ \A w \in Workers : toolcall[w] = CP!Idle
      /\ \A s \in Servers : edit[s] = CP!Idle
  BY DEF CP!Init
<1>2. StoreType
  <2>1. disk \in [Files -> Int] /\ writes \in Int
    BY DEF CP!Init, CP!Absent
  <2>2. active \in [CP!EditSessions -> Layers \cup {N}] /\ restoring \in [CP!EditSessions -> Undos \cup {N}]
    BY DEF CP!Init
  <2>3. history \in [CP!EditSessions -> Seq(Layers)]
    BY DEF CP!Init
  <2> QED
    BY <2>1, <2>2, <2>3 DEF StoreType
<1>3. \A d : Fits(<<>>, N, N, d)
  <2>1. Known(N) = {} /\ DOMAIN <<>> = {}
    BY EmptyMap DEF Known
  <2> HIDE DEF N
  <2> QED
    BY <2>1 DEF Fits, FitsOpen, FitsUndo
<1>4. \A x \in CP!EditSessions : SessionFits(x)
  BY <1>1, <1>3 DEF SessionFits
<1>5. CP!Idle \in CallRecs /\ ~CP!Idle.snapped /\ ~CP!Idle.mine /\ CP!Idle.left = <<>>
  BY DEF CP!Idle, CallRecs
<1>6. toolcall \in [Workers -> CallRecs] /\ edit \in [Servers -> CallRecs]
  BY <1>5 DEF CP!Init
<1>7. Control
  BY <1>1, <1>5, <1>6 DEF Control, CallCovered, EditCovered, CP!EditSessions
<1> QED
  BY <1>2, <1>4, <1>7 DEF Store

LEMMA FilesStepKeeps ==
  ASSUME CP!CheckpointsAssumption, Store, Control, [CP!Next]_(CP!ckvars)
  PROVE  Store' /\ Control'
<1>1. Lists \subseteq Seq(Files) \ {<<>>} /\ MaxCheckpoints \in Nat \ {0}
  BY DEF CP!CheckpointsAssumption
<1>2. CASE UNCHANGED CP!ckvars
  BY <1>2 DEF CP!ckvars, Store, StoreType, SessionFits, Control, CallCovered, EditCovered
<1>3. CASE CP!BeginTurn
  BY <1>3, BeginTurnKeeps
<1>4. CASE CP!EndTurn
  BY <1>1, <1>4, EndTurnKeeps
<1>5. ASSUME NEW w \in Workers, CP!StartCall(w)
      PROVE  Store' /\ Control'
  <2>1. UNCHANGED <<disk, restoring, running, edit, writes>>
    BY <1>5 DEF CP!StartCall
  <2>2. PICK l \in Lists : CP!SnapshotBefore(w, l)
    BY <1>5 DEF CP!StartCall
  <2> QED
    BY <1>1, <2>1, <2>2, SnapshotKeeps
<1>6. ASSUME NEW w \in Workers, CP!NextFile(w)
      PROVE  Store' /\ Control'
  <2> DEFINE l == toolcall[w].left
  <2>1. CP!SnapshotBefore(w, l) /\ UNCHANGED <<disk, restoring, running, edit, writes>>
    BY <1>6 DEF CP!NextFile
  <2>2. l \in Seq(Files) \ {<<>>}
    BY <1>6 DEF CP!NextFile, Control, CallRecs
  <2> HIDE DEF l
  <2> QED
    BY <2>1, <2>2, SnapshotKeeps
<1>7. ASSUME NEW w \in Workers, CP!Write(w)
      PROVE  Store' /\ Control'
  BY <1>7, WorkerWriteKeeps
<1>8. ASSUME NEW w \in Workers, CP!CallFails(w)
      PROVE  Store' /\ Control'
  BY <1>8, FailKeeps
<1>9. ASSUME NEW f \in Files, CP!UserChange(f)
      PROVE  Store' /\ Control'
  BY <1>9, UserKeeps
<1>10. ASSUME NEW k \in 1..MaxCheckpoints, CP!Undo(k)
       PROVE  Store' /\ Control'
  BY <1>10, UndoKeeps
<1>11. ASSUME NEW x \in CP!EditSessions, CP!Restored(x)
       PROVE  Store' /\ Control'
  BY <1>11, RestoredKeeps
<1>12. ASSUME NEW x \in CP!EditSessions, NEW f \in Files, CP!RestoreOne(x, f)
       PROVE  Store' /\ Control'
  BY <1>12, RestoreKeeps
<1>13. ASSUME NEW s \in Servers, CP!BeginEdit(s)
       PROVE  Store' /\ Control'
  BY <1>1, <1>13, BeginEditKeeps
<1>14. ASSUME NEW s \in Servers, CP!ApplyOne(s)
       PROVE  Store' /\ Control'
  BY <1>14, ApplyKeeps
<1>15. ASSUME NEW s \in Servers, CP!EndEdit(s)
       PROVE  Store' /\ Control'
  BY <1>1, <1>15, EndEditKeeps
<1>16. ASSUME NEW s \in Servers, CP!EditFails(s)
       PROVE  Store' /\ Control'
  BY <1>1, <1>16, EditFailsKeeps
<1> QED
  BY <1>2, <1>3, <1>4, <1>5, <1>6, <1>7, <1>8, <1>9, <1>10, <1>11, <1>12, <1>13, <1>14, <1>15, <1>16 DEF CP!Next

\* An undo that is through, and says so, has reached the start of its turns.
LEMMA FitsRestores ==
  ASSUME NEW x \in CP!EditSessions, SessionFits(x)
  PROVE  CP!RestoresStart(x)
<1> DEFINE R == restoring[x]
<1>1. FitsUndo(R, disk)
  BY DEF SessionFits, Fits
<1>2. R.files = <<>> => DOMAIN R.files = {}
  BY EmptyMap
<1> QED
  BY <1>1, <1>2 DEF FitsUndo, Known, CP!RestoresStart

\* An undo or a rewind of the session's turns (UndoLastTurn, Rewind) that reports no
\* error leaves every file as it was when the earliest of them began, but for what
\* others changed since and what was undone from under a turn in progress: for any
\* number of files, workers, servers and turns kept.
THEOREM TurnsAreUndone == ServicesSpec => []CP!RestoresStart("agents")
<1>1. "agents" \in CP!EditSessions
  BY DEF CP!EditSessions
<1>2. Store => CP!RestoresStart("agents")
  BY <1>1, FitsRestores DEF Store
<1>3. CP!CheckpointsAssumption
  BY ServicesAssumption DEF ServicesAssumption
<1>4. Store /\ Control /\ [CP!Next]_(CP!ckvars) => (Store /\ Control)'
  BY <1>3, FilesStepKeeps
<1> QED
  BY <1>2, <1>4, InitKeeps, FilesAlone, PTL

\* The rollback of a workspace edit that was not applied (ApplyEdit) restores its
\* files as well, as long as one language server asks for edits: all of them edit
\* in one session, without a lock.
THEOREM UndoReachesStart ==
  ASSUME \A y, z \in Servers : y = z
  PROVE  ServicesSpec => []UndoRestoresStart
<1>1. OneServer
  BY DEF OneServer
<1>2. Store => UndoRestoresStart
  BY <1>1, FitsRestores DEF Store, UndoRestoresStart, CP!UndoRestoresStart
<1>3. CP!CheckpointsAssumption
  BY ServicesAssumption DEF ServicesAssumption
<1>4. Store /\ Control /\ [CP!Next]_(CP!ckvars) => (Store /\ Control)'
  BY <1>3, FilesStepKeeps
<1> QED
  BY <1>2, <1>4, InitKeeps, FilesAlone, PTL
=============================================================================
