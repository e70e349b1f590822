------------------------------ MODULE LogTail ------------------------------
(***************************************************************************)
(* The diagnostic log of a daemon in the Logs window of an attached         *)
(* terminal: the ring of recent records and its subscribers                 *)
(* (diag/ring.go), the stream that replays the ring and then follows it      *)
(* (server/logs.go), and the client that reconnects with a cursor and        *)
(* drops what it has shown (remote_handlers.go).                             *)
(*                                                                         *)
(* A record is its time stamp, taken before the ring's lock: records may be  *)
(* appended out of order.  The buffers between the ring and the network are  *)
(* one, as are those between the network and the window.                    *)
(***************************************************************************)
EXTENDS Integers, Sequences, SequencesExt

CONSTANTS
  RingSize,    \* logRingSize
  DedupCap,    \* logsDedupCap
  SubBuffer,   \* ringDefaultSubBuffer
  MaxRecords,  \* bound: records
  MaxStreams   \* bound: connections

\* logsDedupCap "must exceed the daemon's log ring size"; by how much is what
\* ShownOnce needs.  Between two times a record is sent, as many others may have
\* been shown as there were before it in the ring and after it.
LogAssumption ==
  /\ RingSize \in Nat \ {0} /\ SubBuffer \in Nat \ {0} /\ MaxRecords \in Nat
  /\ DedupCap \in Nat /\ DedupCap >= 2 * RingSize - 1

Records == 1..MaxRecords

VARIABLES
  stamped,    \* records made so far: the clock
  logging,    \* records whose logger has not reached the ring
  ring,       \* Ring.buf
  server,     \* the stream's producer: what it does and the records it has in hand
  wire,       \* records sent and not yet read
  link,       \* "down", "up" or "cut": the client has not read the rest yet
  since,      \* the cursor, 0 at first
  keys,       \* logDedup.keys from the oldest on; its seen set
  shown,      \* history: the records shown, in order
  streams     \* connections so far

ltvars == <<stamped, logging, ring, server, wire, link, since, keys, shown, streams>>

Off == [at |-> "off", from |-> 0, hold |-> <<>>]

TypeOK ==
  /\ stamped \in 0..MaxRecords /\ logging \subseteq Records
  /\ ring \in BoundedSeq(Records, RingSize)
  /\ server.at \in {"off", "asked", "history", "live"} /\ server.from \in 0..MaxRecords
  /\ Range(server.hold) \subseteq Records /\ Range(wire) \subseteq Records
  /\ link \in {"down", "up", "cut"} /\ since \in 0..MaxRecords
  /\ keys \in BoundedSeq(Records, DedupCap) /\ Range(shown) \subseteq Records
  /\ streams \in 0..MaxStreams

Init ==
  /\ stamped = 0 /\ logging = {} /\ ring = <<>> /\ server = Off
  /\ wire = <<>> /\ link = "down" /\ since = 0 /\ keys = <<>> /\ shown = <<>> /\ streams = 0

-----------------------------------------------------------------------------
(* The logger and the ring.                                                *)

Stamp ==
  /\ stamped < MaxRecords
  /\ stamped' = stamped + 1 /\ logging' = logging \cup {stamped + 1}
  /\ UNCHANGED <<ring, server, wire, link, since, keys, shown, streams>>

\* the last n of s
Newest(s, n) == IF Len(s) > n THEN SubSeq(s, Len(s) - n + 1, Len(s)) ELSE s

\* append: a full subscriber loses the record
RingAppend(r) ==
  /\ r \in logging /\ logging' = logging \ {r}
  /\ ring' = Newest(Append(ring, r), RingSize)
  /\ server' = IF server.at = "live" /\ Len(server.hold) < SubBuffer
               THEN [server EXCEPT !.hold = Append(@, r)] ELSE server
  /\ UNCHANGED <<stamped, wire, link, since, keys, shown, streams>>

-----------------------------------------------------------------------------
(* LogStream.                                                              *)

Snapshot ==
  /\ server.at = "asked" /\ link = "up"
  /\ server' = [server EXCEPT !.at = "history", !.hold = ring]
  /\ UNCHANGED <<stamped, logging, ring, wire, link, since, keys, shown, streams>>

\* The history leaves out what the client has had before it came back.
Delivered(r) == server.at = "history" /\ server.from # 0 /\ r <= server.from

Ready == server.at \in {"history", "live"} /\ server.hold # <<>> /\ link = "up"

Skip ==
  /\ Ready /\ Delivered(Head(server.hold))
  /\ server' = [server EXCEPT !.hold = Tail(@)]
  /\ UNCHANGED <<stamped, logging, ring, wire, link, since, keys, shown, streams>>

Send ==
  /\ Ready /\ ~Delivered(Head(server.hold))
  /\ wire' = Append(wire, Head(server.hold)) /\ server' = [server EXCEPT !.hold = Tail(@)]
  /\ UNCHANGED <<stamped, logging, ring, link, since, keys, shown, streams>>

\* what is appended between the snapshot and here is not sent
Subscribe ==
  /\ server.at = "history" /\ server.hold = <<>> /\ link = "up"
  /\ server' = [server EXCEPT !.at = "live"]
  /\ UNCHANGED <<stamped, logging, ring, wire, link, since, keys, shown, streams>>

\* the connection is lost, with the end of what was sent; the daemon may start anew
Cut ==
  /\ link = "up" /\ link' = "cut" /\ server' = Off
  /\ \E n \in 0..Len(wire) : wire' = SubSeq(wire, 1, n)
  /\ \/ UNCHANGED <<ring, logging>>
     \/ ring' = <<>> /\ logging' = {}
  /\ UNCHANGED <<stamped, since, keys, shown, streams>>

-----------------------------------------------------------------------------
(* StreamLogsTo and logDedup.                                              *)

Connect ==
  /\ link = "down" /\ streams < MaxStreams
  /\ link' = "up" /\ streams' = streams + 1
  /\ server' = [at |-> "asked", from |-> since, hold |-> <<>>]
  /\ UNCHANGED <<stamped, logging, ring, wire, since, keys, shown>>

\* faulty variant: a full ring evicts the key it has just put in
EvictNewest(r) == IF Len(keys) < DedupCap THEN Append(keys, r) ELSE keys

\* seenAdd with a new key: the oldest makes room
Remember(r) == Newest(Append(keys, r), DedupCap)

Read ==
  LET r == Head(wire) IN
  /\ wire # <<>> /\ wire' = Tail(wire) /\ since' = r
  /\ IF r \in Range(keys) THEN UNCHANGED <<keys, shown>>
     ELSE keys' = Remember(r) /\ shown' = Append(shown, r)
  /\ UNCHANGED <<stamped, logging, ring, server, link, streams>>

\* the channel is closed; the backoff follows
Ended ==
  /\ link = "cut" /\ wire = <<>> /\ link' = "down"
  /\ UNCHANGED <<stamped, logging, ring, server, wire, since, keys, shown, streams>>

Next ==
  \/ Stamp \/ (\E r \in logging : RingAppend(r)) \/ Snapshot \/ Skip \/ Send \/ Subscribe \/ Cut
  \/ Connect \/ Read \/ Ended

Spec == Init /\ [][Next]_ltvars

-----------------------------------------------------------------------------
(* Properties.                                                             *)

\* logsDedupCap: "the invariant (remember everything still re-primable) holds".
\* A record that was shown and is still in the ring is remembered, and none is
\* shown twice, although the cursor may move back.
ShownOnce ==
  /\ IsInjective(shown)
  /\ Range(shown) \cap Range(ring) \subseteq Range(keys)

\* LogStream: "the catch-up history excludes records it already has".  It excludes
\* no other.
OnlyShownSkipped ==
  [][Skip => Head(server.hold) \in Range(shown)]_ltvars
=============================================================================
