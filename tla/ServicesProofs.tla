--------------------------- MODULE ServicesProofs ---------------------------
(***************************************************************************)
(* The services of the daemon, for all turns, callers, clients, servers,   *)
(* processes, calls and bounds.  They share no state, so that a behaviour  *)
(* of MCServices is a behaviour of each of them; what is proved of one is  *)
(* then said by the name the run gives it.                                 *)
(*                                                                         *)
(* Language servers: the gate of a slot lets one call at a time look at    *)
(* its client, a table that Shutdown has put away is never filled again,   *)
(* and what belongs to a call, to a slot and to Shutdown is kept apart.    *)
(*                                                                         *)
(* MCP: the pipe of a server has one reader, the call that holds its       *)
(* mutex, and no other call ever reads.  A process that runs is the one in *)
(* the handshake, or it is registered for the shutdown to release.         *)
(*                                                                         *)
(* Documents: a message about the document is ahead, in the wire or at the *)
(* server, of every request that relies on it, and what was published of a *)
(* life of the document is never about a version the table has not seen.   *)
(*                                                                         *)
(* Transcripts: the messages are numbered without a gap, a chunk ends      *)
(* where no result follows, and a kept part starts with a user's message.  *)
(*                                                                         *)
(* Watchers: where the tables differ, the one call under way has still to  *)
(* write the one that is behind.                                           *)
(***************************************************************************)
EXTENDS MCServices, FiniteSetTheorems, SequenceTheorems, WellFoundedInduction, TLAPS

-----------------------------------------------------------------------------
(* Each component runs by itself.                                          *)

LEMMA ServersAlone == ServicesSpec => LS!Spec
<1>1. ServicesInit => LS!Init
  BY DEF ServicesInit
<1>2. [ServicesNext]_servicesvars => [LS!Next]_(LS!lsvars)
  BY DEF ServicesNext, servicesvars, servers, LS!lsvars, HubRuns, FilesRun, TranscriptRuns, WatchersRun,
         HandoffRuns, ServersRun, DocumentRuns, PermissionsRun, PromptsRun, LogsRun, McpRuns
<1> QED
  BY <1>1, <1>2, PTL DEF ServicesSpec, LS!Spec

LEMMA DocumentAlone == ServicesSpec => DS!Spec
<1>1. ServicesInit => DS!Init
  BY DEF ServicesInit
<1>2. [ServicesNext]_servicesvars => [DS!Next]_(DS!docvars)
  BY DEF ServicesNext, servicesvars, document, DS!docvars, HubRuns, FilesRun, TranscriptRuns, WatchersRun,
         HandoffRuns, ServersRun, DocumentRuns, PermissionsRun, PromptsRun, LogsRun, McpRuns
<1> QED
  BY <1>1, <1>2, PTL DEF ServicesSpec, DS!Spec

LEMMA ConversationAlone == ServicesSpec => CM!Spec
<1>1. ServicesInit => CM!Init
  BY DEF ServicesInit
<1>2. [ServicesNext]_servicesvars => [CM!Next]_(CM!cpvars)
  BY DEF ServicesNext, servicesvars, conversation, CM!cpvars, HubRuns, FilesRun, TranscriptRuns, WatchersRun,
         HandoffRuns, ServersRun, DocumentRuns, PermissionsRun, PromptsRun, LogsRun, McpRuns
<1> QED
  BY <1>1, <1>2, PTL DEF ServicesSpec, CM!Spec

LEMMA McpAlone == ServicesSpec => MS!Spec
<1>1. ServicesInit => MS!Init
  BY DEF ServicesInit
<1>2. [ServicesNext]_servicesvars => [MS!Next]_(MS!mcpvars)
  BY DEF ServicesNext, servicesvars, mcp, MS!mcpvars, HubRuns, FilesRun, TranscriptRuns, WatchersRun,
         HandoffRuns, ServersRun, DocumentRuns, PermissionsRun, PromptsRun, LogsRun, McpRuns
<1> QED
  BY <1>1, <1>2, PTL DEF ServicesSpec, MS!Spec

-----------------------------------------------------------------------------
(* Every process of a language server has one owner.                       *)

Ats == {"idle", "queue", "gate", "spawn", "handshake", "publish"}
Past(c) == touch[c].at \in {"gate", "spawn", "handshake", "publish"}

CallType == touch \in [Touches -> [at : Ats, slot : LS!Slots, proc : Processes \cup {NoProcess}]]
TableType ==
  /\ slots \subseteq LS!Slots /\ client \in [LS!Slots -> Processes \cup {NoProcess}]
  /\ proc \in [Processes -> [server : Names, state : {"none", "up", "dead"}]]
  /\ shut \in {"no", "closing", "cancelled"} /\ toClose \subseteq Processes

\* A call has a process from its start until it returns.
HasProcess ==
  \A c \in Touches : touch[c].proc # NoProcess <=> touch[c].at \in {"handshake", "publish"}

\* One call at a time is past the queue of a slot, and only of a slot without a client.
OneLaunch ==
  /\ \A c, d \in Touches : Past(c) /\ Past(d) /\ touch[c].slot = touch[d].slot => c = d
  /\ \A c \in Touches : Past(c) => client[touch[c].slot] = NoProcess

\* Slots of the current table only; the others of it are new.
CurrentTable ==
  /\ \A s \in slots : s[2] = LS!Table
  /\ \A s \in LS!Slots \ slots : s[2] = LS!Table => client[s] = NoProcess
  /\ shut = "no" => /\ toClose = {} /\ \A s \in LS!Slots : s[2] = 2 => client[s] = NoProcess
                    /\ \A c \in Touches : touch[c].at # "idle" => touch[c].slot[2] = 1

\* What has an owner was started, as the server of the slot.
StartedFor ==
  /\ \A c \in Touches : touch[c].proc # NoProcess =>
       proc[touch[c].proc].state # "none" /\ proc[touch[c].proc].server = touch[c].slot[1]
  /\ \A s \in LS!Slots : client[s] # NoProcess =>
       proc[client[s]].state # "none" /\ proc[client[s]].server = s[1]
  /\ \A p \in toClose : proc[p].state # "none"

\* No process has two owners.
OwnersApart ==
  /\ \A c, d \in Touches : touch[c].proc # NoProcess /\ touch[c].proc = touch[d].proc => c = d
  /\ \A s, t \in slots : client[s] # NoProcess /\ client[s] = client[t] => s = t
  /\ \A c \in Touches, s \in slots : touch[c].proc # NoProcess => client[s] # touch[c].proc
  /\ \A c \in Touches : touch[c].proc \notin toClose
  /\ \A s \in slots : client[s] \notin toClose

\* Every running process has one.
SomeOwner ==
  \A p \in Processes : proc[p].state = "up" =>
    \/ \E c \in Touches : touch[c].proc = p
    \/ \E s \in slots : client[s] = p
    \/ p \in toClose

LSInv == CallType /\ TableType /\ HasProcess /\ OneLaunch /\ CurrentTable /\ StartedFor
         /\ OwnersApart /\ SomeOwner

-----------------------------------------------------------------------------
(* The invariant says what EveryProcessOwned says.                         *)

\* One owner: the three sets together have one element.
LEMMA OneOwnerEach ==
  ASSUME NoProcess \notin Processes, LSInv, NEW p \in Processes, proc[p].state = "up"
  PROVE  Cardinality(LS!StartedBy(p)) + Cardinality(LS!KeptIn(p)) + Cardinality({p} \cap toClose) = 1
<1>1. CASE \E c \in Touches : touch[c].proc = p
  <2>1. PICK c \in Touches : touch[c].proc = p
    BY <1>1
  <2>2. LS!StartedBy(p) = {c} /\ LS!KeptIn(p) = {} /\ {p} \cap toClose = {}
    BY <2>1 DEF LSInv, OwnersApart, LS!StartedBy, LS!KeptIn
  <2>3. Cardinality(LS!StartedBy(p)) = 1 /\ Cardinality(LS!KeptIn(p)) = 0 /\ Cardinality({p} \cap toClose) = 0
    BY <2>2, FS_EmptySet, FS_Singleton
  <2> QED
    BY <2>3
<1>2. CASE \E s \in slots : client[s] = p
  <2>1. PICK s \in slots : client[s] = p
    BY <1>2
  <2>2. LS!StartedBy(p) = {} /\ LS!KeptIn(p) = {s} /\ {p} \cap toClose = {}
    BY <2>1 DEF LSInv, OwnersApart, LS!StartedBy, LS!KeptIn
  <2>3. Cardinality(LS!StartedBy(p)) = 0 /\ Cardinality(LS!KeptIn(p)) = 1 /\ Cardinality({p} \cap toClose) = 0
    BY <2>2, FS_EmptySet, FS_Singleton
  <2> QED
    BY <2>3
<1>3. CASE p \in toClose
  <2>1. LS!StartedBy(p) = {} /\ LS!KeptIn(p) = {} /\ {p} \cap toClose = {p}
    BY <1>3 DEF LSInv, OwnersApart, LS!StartedBy, LS!KeptIn
  <2>2. Cardinality(LS!StartedBy(p)) = 0 /\ Cardinality(LS!KeptIn(p)) = 0 /\ Cardinality({p} \cap toClose) = 1
    BY <2>1, FS_EmptySet, FS_Singleton
  <2> QED
    BY <2>2
<1> QED
  BY <1>1, <1>2, <1>3 DEF LSInv, SomeOwner

\* Before Shutdown a server runs once: a second one would be started past a full slot.
LEMMA OneProcessEach ==
  ASSUME NoProcess \notin Processes, LSInv, shut = "no", NEW n \in Names,
         NEW p \in LS!Running(n), NEW q \in LS!Running(n)
  PROVE  p = q
<1>1. /\ p \in Processes /\ proc[p].state = "up" /\ proc[p].server = n
      /\ q \in Processes /\ proc[q].state = "up" /\ proc[q].server = n
  BY DEF LS!Running
<1>2. \A r \in {p, q} : \/ \E c \in Touches : touch[c].proc = r
                        \/ \E s \in slots : client[s] = r
  BY <1>1 DEF LSInv, SomeOwner, CurrentTable
<1>3. \A c \in Touches : touch[c].proc \in {p, q} =>
        Past(c) /\ touch[c].slot \in LS!Slots /\ touch[c].slot[1] = n /\ touch[c].slot[2] = 1
  BY <1>1 DEF LSInv, HasProcess, StartedFor, CurrentTable, CallType, Past
<1>4. \A s \in slots : client[s] \in {p, q} => s \in LS!Slots /\ s[1] = n /\ s[2] = 1
  BY <1>1 DEF LSInv, StartedFor, CurrentTable, TableType, LS!Table
<1>5. \A s, t \in LS!Slots : s[1] = t[1] /\ s[2] = t[2] => s = t
  BY DEF LS!Slots
<1>6. CASE \E c, d \in Touches : touch[c].proc = p /\ touch[d].proc = q
  BY <1>3, <1>5, <1>6 DEF LSInv, OneLaunch
<1>7. CASE \E s, t \in slots : client[s] = p /\ client[t] = q
  BY <1>4, <1>5, <1>7
<1>8. ASSUME NEW c \in Touches, NEW s \in slots, touch[c].proc \in {p, q}, client[s] \in {p, q}
      PROVE  FALSE
  <2>1. touch[c].slot = s
    BY <1>3, <1>4, <1>5, <1>8
  <2>2. client[s] = NoProcess
    BY <1>3, <1>8, <2>1 DEF LSInv, OneLaunch
  <2> QED
    BY <1>1, <1>8, <2>2
<1> QED
  BY <1>2, <1>6, <1>7, <1>8

\* The component counts as the theorems about finite sets do.
LEMMA ServersCount == \A S : LS!Cardinality(S) = Cardinality(S)
BY DEF Cardinality, LS!Cardinality

LEMMA InvImpliesOwned ==
  ASSUME NoProcess \notin Processes, LSInv
  PROVE  LS!EveryProcessOwned
<1>1. ASSUME NEW n \in Names, NEW p \in LS!Running(n)
      PROVE  Cardinality(LS!StartedBy(p)) + Cardinality(LS!KeptIn(p)) + Cardinality({p} \cap toClose) = 1
  BY <1>1, OneOwnerEach DEF LS!Running
<1>2. ASSUME shut = "no", NEW n \in Names
      PROVE  Cardinality(LS!Running(n)) <= 1
  <2>1. CASE LS!Running(n) = {}
    BY <2>1, FS_EmptySet
  <2>2. CASE \E p \in LS!Running(n) : TRUE
    <3>1. PICK p \in LS!Running(n) : TRUE
      BY <2>2
    <3>2. LS!Running(n) = {p}
      BY <1>2, <3>1, OneProcessEach
    <3>3. Cardinality(LS!Running(n)) = 1
      BY <3>2, FS_Singleton
    <3> QED
      BY <3>3
  <2> QED
    BY <2>1, <2>2
<1> QED
  BY <1>1, <1>2, ServersCount DEF LS!EveryProcessOwned

-----------------------------------------------------------------------------
(* Moves of a call.                                                        *)

\* A call that goes on keeps its slot and its process.
LEMMA GoesOn ==
  ASSUME CallType, NEW c \in Touches, NEW place \in Ats, LS!Goto(c, place)
  PROVE  /\ CallType'
         /\ touch'[c].at = place /\ touch'[c].slot = touch[c].slot /\ touch'[c].proc = touch[c].proc
         /\ \A d \in Touches \ {c} : touch'[d] = touch[d]
<1>1. CallType'
  BY DEF CallType, LS!Goto
<1>2. touch'[c] = [touch[c] EXCEPT !.at = place]
  BY DEF CallType, LS!Goto
<1>3. touch'[c].at = place /\ touch'[c].slot = touch[c].slot /\ touch'[c].proc = touch[c].proc
  BY <1>2 DEF CallType
<1>4. \A d \in Touches \ {c} : touch'[d] = touch[d]
  BY DEF CallType, LS!Goto
<1> QED
  BY <1>1, <1>3, <1>4

\* An idle call has no process.
LEMMA IdleTyped ==
  ASSUME Names # {}
  PROVE  /\ LS!Idle.at = "idle" /\ LS!Idle.slot \in LS!Slots /\ LS!Idle.proc = NoProcess
         /\ LS!Idle \in [at : Ats, slot : LS!Slots, proc : Processes \cup {NoProcess}]
<1>1. \E s \in LS!Slots : TRUE
  <2>1. PICK n \in Names : TRUE
    OBVIOUS
  <2>2. <<n, 1>> \in LS!Slots
    BY DEF LS!Slots
  <2> QED
    BY <2>2
<1>2. (CHOOSE s \in LS!Slots : TRUE) \in LS!Slots
  BY <1>1
<1> QED
  BY <1>2 DEF LS!Idle, Ats

\* A call that returns gives up its process.
LEMMA Returns ==
  ASSUME Names # {}, CallType, NEW c \in Touches, LS!Return(c)
  PROVE  /\ CallType'
         /\ touch'[c].at = "idle" /\ touch'[c].slot \in LS!Slots /\ touch'[c].proc = NoProcess
         /\ \A d \in Touches \ {c} : touch'[d] = touch[d]
BY IdleTyped DEF CallType, LS!Return

\* A process that is killed is still the server it was.
LEMMA Killed ==
  ASSUME TableType, NEW p \in Processes, LS!Kill(p)
  PROVE  /\ proc' \in [Processes -> [server : Names, state : {"none", "up", "dead"}]]
         /\ proc'[p].server = proc[p].server /\ proc'[p].state = "dead"
         /\ \A q \in Processes \ {p} : proc'[q] = proc[q]
<1>1. proc' \in [Processes -> [server : Names, state : {"none", "up", "dead"}]]
  BY DEF TableType, LS!Kill
<1>2. proc'[p] = [proc[p] EXCEPT !.state = "dead"]
  BY DEF TableType, LS!Kill
<1>3. proc'[p].server = proc[p].server /\ proc'[p].state = "dead"
  BY <1>2 DEF TableType
<1>4. \A q \in Processes \ {p} : proc'[q] = proc[q]
  BY DEF TableType, LS!Kill
<1> QED
  BY <1>1, <1>3, <1>4

-----------------------------------------------------------------------------
(* Every step keeps the invariant.                                         *)

LEMMA InitLSInv ==
  ASSUME Names # {}, LS!Init
  PROVE  LSInv
<1>1. CallType
  BY IdleTyped DEF LS!Init, CallType
<1>2. TableType
  <2>1. (CHOOSE n \in Names : TRUE) \in Names
    OBVIOUS
  <2> QED
    BY <2>1 DEF LS!Init, TableType, LS!Unborn
<1>3. \A c \in Touches : touch[c].at = "idle" /\ touch[c].proc = NoProcess
  BY IdleTyped DEF LS!Init
<1>4. \A p \in Processes : proc[p].state = "none"
  BY DEF LS!Init, LS!Unborn
<1>5. HasProcess /\ OneLaunch /\ CurrentTable /\ StartedFor /\ OwnersApart /\ SomeOwner
  BY <1>3, <1>4 DEF LS!Init, HasProcess, OneLaunch, Past, CurrentTable, StartedFor, OwnersApart, SomeOwner
<1> QED
  BY <1>1, <1>2, <1>5 DEF LSInv

\* A first touch adds an empty slot of the current table.
LEMMA TouchKeepsLSInv ==
  ASSUME Names # {}, LSInv, NEW c \in Touches, NEW n \in Names, LS!Touch(c, n)
  PROVE  LSInv'
<1> DEFINE s == <<n, LS!Table>>
<1>1. s \in LS!Slots /\ s[1] = n /\ s[2] = LS!Table
  BY DEF LS!Slots, LS!Table
<1>2. /\ touch'[c] = [LS!Idle EXCEPT !.at = "queue", !.slot = s]
      /\ \A d \in Touches \ {c} : touch'[d] = touch[d]
  BY DEF LSInv, CallType, LS!Touch
<1>3. /\ touch'[c].at = "queue" /\ touch'[c].slot = s /\ touch'[c].proc = NoProcess
      /\ \A d \in Touches \ {c} : touch'[d] = touch[d]
      /\ CallType'
  <2>1. touch'[c].at = "queue" /\ touch'[c].slot = s /\ touch'[c].proc = NoProcess
    BY <1>2, IdleTyped
  <2>2. [LS!Idle EXCEPT !.at = "queue", !.slot = s] \in [at : Ats, slot : LS!Slots, proc : Processes \cup {NoProcess}]
    BY <1>1, IdleTyped DEF Ats
  <2>3. CallType'
    BY <2>2 DEF LSInv, CallType, LS!Touch
  <2> QED
    BY <1>2, <2>1, <2>3
<1>4. touch[c].proc = NoProcess
  BY DEF LSInv, HasProcess, LS!Touch
<1>5. slots' = slots \cup {s} /\ UNCHANGED <<client, proc, shut, toClose>>
  BY DEF LS!Touch
<1>6. TableType'
  BY <1>1, <1>5 DEF LSInv, TableType
<1>7. s \in slots \/ client[s] = NoProcess
  BY <1>1 DEF LSInv, CurrentTable
<1>8. HasProcess' /\ OneLaunch'
  BY <1>3, <1>5 DEF LSInv, HasProcess, OneLaunch, Past
<1>9. CurrentTable'
  BY <1>1, <1>3, <1>5 DEF LSInv, CurrentTable, LS!Table
<1>10. StartedFor'
  BY <1>3, <1>5 DEF LSInv, StartedFor
<1>11. OwnersApart'
  BY <1>3, <1>4, <1>5, <1>7 DEF LSInv, OwnersApart, TableType
<1>12. SomeOwner'
  BY <1>3, <1>4, <1>5 DEF LSInv, SomeOwner
<1> QED
  BY <1>3, <1>6, <1>8, <1>9, <1>10, <1>11, <1>12 DEF LSInv

\* A call that returns without a process of its own, or moves on before it has one.
LEMMA CallOnlyKeepsLSInv ==
  ASSUME Names # {}, LSInv, NEW c \in Touches,
         LS!Enter(c) \/ LS!Gate(c) \/ (touch[c].at = "spawn" /\ LS!Return(c) /\ UNCHANGED <<slots, client, proc, shut, toClose>>)
  PROVE  LSInv'
<1>1. UNCHANGED <<slots, client, proc, shut, toClose>> /\ touch[c].proc = NoProcess
  BY DEF LSInv, HasProcess, LS!Enter, LS!Gate
<1>2. CallType
  BY DEF LSInv
<1>3. TableType'
  BY <1>1 DEF LSInv, TableType
<1>4. CASE LS!Return(c)
  <2>1. /\ CallType'
        /\ touch'[c].at = "idle" /\ touch'[c].proc = NoProcess
        /\ \A d \in Touches \ {c} : touch'[d] = touch[d]
    BY <1>2, <1>4, Returns
  <2>2. HasProcess' /\ OneLaunch' /\ StartedFor' /\ SomeOwner'
    BY <1>1, <2>1 DEF LSInv, HasProcess, OneLaunch, Past, StartedFor, SomeOwner
  <2>3. CurrentTable'
    BY <1>1, <2>1 DEF LSInv, CurrentTable, LS!Table
  <2>4. OwnersApart'
    BY <1>1, <2>1 DEF LSInv, OwnersApart
  <2> QED
    BY <1>3, <2>1, <2>2, <2>3, <2>4 DEF LSInv
<1>5. CASE \/ LS!Enter(c) /\ LS!Goto(c, "gate")
           \/ LS!Gate(c) /\ LS!Goto(c, "spawn")
  <2>1. PICK place \in {"gate", "spawn"} : LS!Goto(c, place)
    BY <1>5
  <2>2. /\ CallType'
        /\ touch'[c].at \in {"gate", "spawn"} /\ touch'[c].slot = touch[c].slot /\ touch'[c].proc = touch[c].proc
        /\ \A d \in Touches \ {c} : touch'[d] = touch[d]
    BY <1>2, <2>1, GoesOn DEF Ats
  <2>3. OneLaunch'
    <3>1. CASE LS!Enter(c) /\ LS!Goto(c, "gate")
      <4>1. touch'[c].at = "gate"
        BY <1>2, <3>1, GoesOn DEF Ats
      <4>2. touch'[c] # LS!Idle
        BY <4>1 DEF LS!Idle
      <4>3. touch' # [touch EXCEPT ![c] = LS!Idle]
        BY <1>2, <4>2 DEF CallType
      <4>4. client[touch[c].slot] = NoProcess /\ LS!SlotFree(touch[c].slot)
        BY <3>1, <4>3 DEF LS!Enter, LS!Return
      <4>5. \A d \in Touches \ {c} : Past(d) => touch[d].slot # touch[c].slot
        BY <4>4 DEF LS!SlotFree, Past
      <4> QED
        BY <1>1, <2>2, <4>4, <4>5 DEF LSInv, OneLaunch, Past
    <3>2. CASE LS!Gate(c)
      <4>1. Past(c)
        BY <3>2 DEF LS!Gate, Past
      <4> QED
        BY <1>1, <2>2, <4>1 DEF LSInv, OneLaunch, Past
    <3> QED
      BY <1>5, <3>1, <3>2
  <2>4. HasProcess' /\ StartedFor' /\ SomeOwner'
    BY <1>1, <2>2 DEF LSInv, HasProcess, StartedFor, SomeOwner
  <2>5. CurrentTable'
    <3>1. touch[c].at # "idle"
      BY <1>5 DEF LS!Enter, LS!Gate
    <3> QED
      BY <1>1, <2>2, <3>1 DEF LSInv, CurrentTable, LS!Table
  <2>6. OwnersApart'
    BY <1>1, <2>2 DEF LSInv, OwnersApart
  <2> QED
    BY <1>3, <2>2, <2>3, <2>4, <2>5, <2>6 DEF LSInv
<1> QED
  BY <1>4, <1>5 DEF LS!Enter, LS!Gate

\* A new process belongs to the call that starts it.
LEMMA SpawnKeepsLSInv ==
  ASSUME Names # {}, NoProcess \notin Processes, LSInv, NEW c \in Touches, LS!Spawn(c)
  PROVE  LSInv'
<1>1. CASE LS!Return(c) /\ UNCHANGED proc
  BY <1>1, CallOnlyKeepsLSInv DEF LS!Spawn
<1>2. ASSUME NEW p \in Processes, proc[p].state = "none",
             proc' = [proc EXCEPT ![p] = [server |-> touch[c].slot[1], state |-> "up"]],
             touch' = [touch EXCEPT ![c].at = "handshake", ![c].proc = p]
      PROVE  LSInv'
  <2>1. /\ touch[c].at = "spawn" /\ UNCHANGED <<slots, client, shut, toClose>>
        /\ touch[c].proc = NoProcess /\ touch[c].slot \in LS!Slots
    BY DEF LS!Spawn, LSInv, HasProcess, CallType
  <2>2. /\ CallType'
        /\ touch'[c].at = "handshake" /\ touch'[c].slot = touch[c].slot /\ touch'[c].proc = p
        /\ \A d \in Touches \ {c} : touch'[d] = touch[d]
    BY <1>2 DEF LSInv, CallType, Ats
  <2>3. touch[c].slot[1] \in Names
    BY <2>1 DEF LS!Slots
  <2>4. /\ proc' \in [Processes -> [server : Names, state : {"none", "up", "dead"}]]
        /\ proc'[p].server = touch[c].slot[1] /\ proc'[p].state = "up"
        /\ \A q \in Processes \ {p} : proc'[q] = proc[q]
    BY <1>2, <2>3 DEF LSInv, TableType
  <2>5. \* nobody owned the new process
        /\ \A d \in Touches : touch[d].proc # p
        /\ \A s \in LS!Slots : client[s] # p
        /\ p \notin toClose
    BY <1>2 DEF LSInv, StartedFor
  <2>6. slots \subseteq LS!Slots
    BY DEF LSInv, TableType
  <2>7. TableType'
    BY <2>1, <2>4 DEF LSInv, TableType
  <2>8. HasProcess'
    BY <2>2 DEF LSInv, HasProcess
  <2>9. OneLaunch'
    BY <2>1, <2>2 DEF LSInv, OneLaunch, Past
  <2>10. CurrentTable'
    BY <2>1, <2>2 DEF LSInv, CurrentTable, LS!Table
  <2>11. StartedFor'
    <3>1. \A d \in Touches : touch'[d].proc # NoProcess =>
            proc'[touch'[d].proc].state # "none" /\ proc'[touch'[d].proc].server = touch'[d].slot[1]
      BY <2>2, <2>4, <2>5 DEF LSInv, StartedFor, CallType
    <3>2. \A s \in LS!Slots : client'[s] # NoProcess =>
            proc'[client'[s]].state # "none" /\ proc'[client'[s]].server = s[1]
      BY <2>1, <2>4, <2>5 DEF LSInv, StartedFor, TableType
    <3>3. \A q \in toClose' : proc'[q].state # "none"
      BY <2>1, <2>4, <2>5 DEF LSInv, StartedFor, TableType
    <3> QED
      BY <3>1, <3>2, <3>3 DEF StartedFor
  <2>12. OwnersApart'
    BY <2>1, <2>2, <2>5, <2>6 DEF LSInv, OwnersApart
  <2>13. SomeOwner'
    BY <2>1, <2>2, <2>4 DEF LSInv, SomeOwner
  <2> QED
    BY <2>2, <2>7, <2>8, <2>9, <2>10, <2>11, <2>12, <2>13 DEF LSInv
<1> QED
  BY <1>1, <1>2 DEF LS!Spawn

\* A process that is killed may lose its owner with its life.
LEMMA DeathKeepsStarted ==
  ASSUME TableType, CallType, StartedFor, NEW p \in Processes, LS!Kill(p)
  PROVE  /\ \A c \in Touches : touch[c].proc # NoProcess =>
              proc'[touch[c].proc].state # "none" /\ proc'[touch[c].proc].server = touch[c].slot[1]
         /\ \A s \in LS!Slots : client[s] # NoProcess =>
              proc'[client[s]].state # "none" /\ proc'[client[s]].server = s[1]
         /\ \A q \in toClose : proc'[q].state # "none"
         /\ \A q \in Processes : proc'[q].state = "up" => proc[q].state = "up" /\ q # p
BY Killed DEF TableType, CallType, StartedFor

\* A launch that fails, or comes too late, ends with its process.
LEMMA FailedKeepsLSInv ==
  ASSUME Names # {}, NoProcess \notin Processes, LSInv, NEW c \in Touches,
         touch[c].at \in {"handshake", "publish"}, LS!Return(c), LS!Kill(touch[c].proc),
         UNCHANGED <<slots, client, shut, toClose>>
  PROVE  LSInv'
<1>1. CallType /\ TableType /\ StartedFor /\ touch[c].proc \in Processes
  BY DEF LSInv, HasProcess, CallType
<1>2. /\ CallType'
      /\ touch'[c].at = "idle" /\ touch'[c].proc = NoProcess
      /\ \A d \in Touches \ {c} : touch'[d] = touch[d]
  BY <1>1, Returns
<1>3. TableType'
  BY <1>1, Killed DEF TableType
<1>4. HasProcess' /\ OneLaunch'
  BY <1>2 DEF LSInv, HasProcess, OneLaunch, Past
<1>5. CurrentTable'
  BY <1>2 DEF LSInv, CurrentTable, LS!Table
<1>6. StartedFor'
  BY <1>1, <1>2, DeathKeepsStarted DEF StartedFor
<1>7. OwnersApart'
  BY <1>2 DEF LSInv, OwnersApart, TableType
<1>8. SomeOwner'
  BY <1>1, <1>2, DeathKeepsStarted DEF LSInv, SomeOwner
<1> QED
  BY <1>2, <1>3, <1>4, <1>5, <1>6, <1>7, <1>8 DEF LSInv

LEMMA HandshakeKeepsLSInv ==
  ASSUME Names # {}, NoProcess \notin Processes, LSInv, NEW c \in Touches, LS!Handshake(c)
  PROVE  LSInv'
<1>1. CASE LS!Return(c) /\ LS!Kill(touch[c].proc)
  BY <1>1, FailedKeepsLSInv DEF LS!Handshake
<1>2. CASE LS!Goto(c, "publish") /\ UNCHANGED proc
  <2>1. /\ CallType' /\ touch[c].at = "handshake"
        /\ touch'[c].at = "publish" /\ touch'[c].slot = touch[c].slot /\ touch'[c].proc = touch[c].proc
        /\ \A d \in Touches \ {c} : touch'[d] = touch[d]
    BY <1>2, GoesOn DEF LSInv, Ats, LS!Handshake
  <2>2. UNCHANGED <<slots, client, proc, shut, toClose>>
    BY <1>2 DEF LS!Handshake
  <2>3. TableType' /\ HasProcess' /\ OneLaunch'
    BY <2>1, <2>2 DEF LSInv, TableType, HasProcess, OneLaunch, Past
  <2>4. CurrentTable'
    BY <2>1, <2>2 DEF LSInv, CurrentTable, LS!Table
  <2>5. StartedFor' /\ OwnersApart' /\ SomeOwner'
    BY <2>1, <2>2 DEF LSInv, StartedFor, OwnersApart, SomeOwner
  <2> QED
    BY <2>1, <2>3, <2>4, <2>5 DEF LSInv
<1> QED
  BY <1>1, <1>2 DEF LS!Handshake

\* The process goes from the call to the slot, unless the slot was put away.
LEMMA PublishKeepsLSInv ==
  ASSUME Names # {}, NoProcess \notin Processes, LSInv, NEW c \in Touches, LS!Publish(c)
  PROVE  LSInv'
<1> DEFINE s == touch[c].slot
<1> DEFINE p == touch[c].proc
<1>1. touch[c].at = "publish" /\ LS!Return(c) /\ UNCHANGED <<slots, shut, toClose>>
  BY DEF LS!Publish
<1>2. CASE LS!Orphaned(s)
  BY <1>1, <1>2, FailedKeepsLSInv DEF LS!Publish
<1>3. CASE ~LS!Orphaned(s)
  <2>1. /\ s \in slots /\ s \in LS!Slots /\ p \in Processes /\ Past(c)
        /\ client' = [client EXCEPT ![s] = p] /\ proc' = proc
    BY <1>1, <1>3 DEF LS!Publish, LS!Orphaned, LSInv, HasProcess, CallType, Past
  <2>2. /\ CallType'
        /\ touch'[c].at = "idle" /\ touch'[c].proc = NoProcess
        /\ \A d \in Touches \ {c} : touch'[d] = touch[d]
    BY <1>1, Returns DEF LSInv
  <2>3. client'[s] = p /\ \A t \in LS!Slots \ {s} : client'[t] = client[t]
    BY <2>1 DEF LSInv, TableType
  <2>4. slots \subseteq LS!Slots
    BY DEF LSInv, TableType
  <2>5. TableType'
    BY <1>1, <2>1 DEF LSInv, TableType
  <2>6. HasProcess'
    BY <2>2 DEF LSInv, HasProcess
  <2>7. OneLaunch'
    <3>1. \A d \in Touches \ {c} : Past(d) => touch[d].slot \in LS!Slots \ {s}
      BY <2>1 DEF LSInv, OneLaunch, CallType
    <3> QED
      BY <2>2, <2>3, <3>1 DEF LSInv, OneLaunch, Past
  <2>8. CurrentTable'
    <3>1. s[2] = LS!Table
      BY <2>1 DEF LSInv, CurrentTable
    <3> QED
      BY <1>1, <2>1, <2>2, <2>3, <3>1 DEF LSInv, CurrentTable, LS!Table
  <2>9. StartedFor'
    BY <1>1, <2>1, <2>2, <2>3 DEF LSInv, StartedFor
  <2>10. OwnersApart'
    BY <1>1, <2>1, <2>2, <2>3, <2>4 DEF LSInv, OwnersApart, TableType
  <2>11. SomeOwner'
    <3>1. client[s] = NoProcess
      BY <2>1 DEF LSInv, OneLaunch
    <3> QED
      BY <1>1, <2>1, <2>2, <2>3, <2>4, <3>1 DEF LSInv, SomeOwner
  <2> QED
    BY <2>2, <2>5, <2>6, <2>7, <2>8, <2>9, <2>10, <2>11 DEF LSInv
<1> QED
  BY <1>2, <1>3

\* Shutdown takes over what is cached, closes it and cancels the rest.
LEMMA ShutdownKeepsLSInv ==
  ASSUME NoProcess \notin Processes, LSInv, LS!Shutdown \/ LS!CancelBase
  PROVE  LSInv'
<1>1. UNCHANGED <<client, touch, proc>>
  BY DEF LS!Shutdown, LS!CancelBase
<1>2. CallType' /\ HasProcess' /\ OneLaunch'
  BY <1>1 DEF LSInv, CallType, HasProcess, OneLaunch, Past
<1>3. CASE LS!Shutdown
  <2>1. /\ shut = "no" /\ shut' = "closing" /\ slots' = {} /\ toClose' = LS!Cached /\ toClose = {}
    BY <1>3 DEF LS!Shutdown, LSInv, CurrentTable
  <2>2. \A p : p \in LS!Cached <=> p # NoProcess /\ \E s \in slots : client[s] = p
    BY DEF LS!Cached
  <2>3. TableType'
    BY <1>1, <2>1, <2>2 DEF LSInv, TableType
  <2>4. CurrentTable'
    BY <1>1, <2>1 DEF LSInv, CurrentTable, LS!Table
  <2>5. StartedFor' /\ OwnersApart' /\ SomeOwner'
    BY <1>1, <2>1, <2>2 DEF LSInv, TableType, StartedFor, OwnersApart, SomeOwner
  <2> QED
    BY <1>2, <2>3, <2>4, <2>5 DEF LSInv
<1>4. CASE LS!CancelBase
  <2>1. shut = "closing" /\ shut' = "cancelled" /\ UNCHANGED <<slots, toClose>>
    BY <1>4 DEF LS!CancelBase
  <2> QED
    BY <1>1, <1>2, <2>1 DEF LSInv, TableType, CurrentTable, LS!Table, StartedFor, OwnersApart, SomeOwner
<1> QED
  BY <1>3, <1>4

\* A server that ends, or is closed, stays the server it was.
LEMMA DeathKeepsLSInv ==
  ASSUME LSInv, NEW p \in Processes, LS!CloseNext(p) \/ LS!Dies(p)
  PROVE  LSInv'
<1>1. /\ LS!Kill(p) /\ UNCHANGED <<slots, client, touch, shut>>
      /\ toClose' \subseteq toClose /\ toClose \subseteq toClose' \cup {p}
  BY DEF LS!CloseNext, LS!Dies
<1>2. CallType /\ TableType /\ StartedFor
  BY DEF LSInv
<1>3. CallType' /\ HasProcess' /\ OneLaunch'
  BY <1>1 DEF LSInv, CallType, HasProcess, OneLaunch, Past
<1>4. TableType'
  BY <1>1, <1>2, Killed DEF TableType
<1>5. CurrentTable'
  BY <1>1 DEF LSInv, CurrentTable, LS!Table
<1>6. StartedFor'
  BY <1>1, <1>2, DeathKeepsStarted DEF StartedFor
<1>7. OwnersApart'
  BY <1>1 DEF LSInv, OwnersApart
<1>8. SomeOwner'
  BY <1>1, <1>2, DeathKeepsStarted DEF LSInv, SomeOwner
<1> QED
  BY <1>3, <1>4, <1>5, <1>6, <1>7, <1>8 DEF LSInv

-----------------------------------------------------------------------------
\* Whoever races whom, every running server has one owner, and until Shutdown a
\* server runs once (ClientForFile, Shutdown), with at least one configured.
THEOREM ProcessesOwned == ServicesSpec => []EveryProcessOwned
<1>0. Names # {} /\ NoProcess \notin Processes
  BY ServicesAssumption DEF LS!ServersAssumption
<1>1. LSInv /\ [LS!Next]_LS!lsvars => LSInv'
  <2> SUFFICES ASSUME LSInv, [LS!Next]_LS!lsvars
               PROVE  LSInv'
    OBVIOUS
  <2>1. CASE \E c \in Touches, n \in Names : LS!Touch(c, n)
    BY <1>0, <2>1, TouchKeepsLSInv
  <2>2. CASE \E c \in Touches : LS!Enter(c) \/ LS!Gate(c)
    BY <1>0, <2>2, CallOnlyKeepsLSInv
  <2>3. CASE \E c \in Touches : LS!Spawn(c) \/ LS!Handshake(c) \/ LS!Publish(c)
    BY <1>0, <2>3, SpawnKeepsLSInv, HandshakeKeepsLSInv, PublishKeepsLSInv
  <2>4. CASE LS!Shutdown \/ LS!CancelBase
    BY <1>0, <2>4, ShutdownKeepsLSInv
  <2>5. CASE \E p \in Processes : LS!CloseNext(p) \/ LS!Dies(p)
    BY <2>5, DeathKeepsLSInv
  <2>6. CASE UNCHANGED LS!lsvars
    BY <2>6 DEF LS!lsvars, LSInv, CallType, TableType, HasProcess, OneLaunch, Past, CurrentTable, LS!Table,
                StartedFor, OwnersApart, SomeOwner
  <2> QED
    BY <2>1, <2>2, <2>3, <2>4, <2>5, <2>6 DEF LS!Next
<1>2. LS!Init => LSInv
  BY <1>0, InitLSInv
<1>3. LSInv => EveryProcessOwned
  BY <1>0, InvImpliesOwned DEF EveryProcessOwned
<1> QED
  BY <1>1, <1>2, <1>3, ServersAlone, PTL DEF LS!Spec

-----------------------------------------------------------------------------
(* The pipe of an MCP server has one reader, the holder of its mutex.      *)

\* Reading the first element of a sequence takes no other element away.
LEMMA RangeOfTail ==
  ASSUME NEW S, NEW q \in Seq(S), q # <<>>, NEW x \in MS!Range(q), x # Head(q)
  PROVE  x \in MS!Range(Tail(q))
<1>1. PICK i \in 1 .. Len(q) : x = q[i]
  BY DEF MS!Range
<1>2. i # 1
  BY <1>1
<1>3. i - 1 \in 1 .. Len(Tail(q)) /\ Tail(q)[i - 1] = x
  BY <1>1, <1>2
<1>4. DOMAIN Tail(q) = 1 .. Len(Tail(q))
  OBVIOUS
<1> QED
  BY <1>3, <1>4 DEF MS!Range

LEMMA RangeOfAppend ==
  ASSUME NEW S, NEW q \in Seq(S), NEW x \in S
  PROVE  MS!Range(Append(q, x)) = MS!Range(q) \cup {x}
<1>1. DOMAIN q = 1 .. Len(q) /\ DOMAIN Append(q, x) = 1 .. Len(q) + 1
  OBVIOUS
<1>2. \A i \in 1 .. Len(q) : Append(q, x)[i] = q[i]
  OBVIOUS
<1>3. Append(q, x)[Len(q) + 1] = x
  OBVIOUS
<1>4. \A i \in 1 .. Len(q) + 1 : i \in 1 .. Len(q) \/ i = Len(q) + 1
  OBVIOUS
<1> QED
  BY <1>1, <1>2, <1>3, <1>4 DEF MS!Range
Line == [kind : {"reply", "ask"}, id : Nat]

McpCall == [at : {"idle", "waits", "reads"}, server : Configured \cup {MS!NoOne}, id : Nat,
            got : {"nothing", "reply", "ask", "error"}]

ClosingCall == [at : {"not called", "closing", "returned"}, list : Seq(Configured)]

PipeType ==
  /\ visited \subseteq Configured /\ tools \subseteq visited
  /\ rebuilt \in BOOLEAN /\ clients \in Seq(Configured) /\ closing \in [MS!Closers -> ClosingCall]
  /\ child \in [Configured -> {"none", "runs", "ended"}]
  /\ mutex \in [Configured -> MS!Users \cup {MS!NoOne}] /\ ids \in [Configured -> Nat]
  /\ inbox \in [Configured -> Seq(Nat)] /\ lines \in [Configured -> Seq(Line)]
  /\ unasked \in [Configured -> Nat]
  /\ user \in [MS!Users -> McpCall]
  /\ doing \in MS!Steps \cup {"start", "close", "serve"}
  /\ doing \in MS!Steps \cup {"close"} => with \in visited

\* A call is of a server that was visited, and who reads holds its mutex.
Reader(u) == /\ user[u].at # "idle" => user[u].server \in visited
             /\ user[u].at = "reads" => mutex[user[u].server] = u

\* The reply of u is on its way.
Kept(u) ==
  LET s == user[u].server IN
  user[u].at = "reads" /\ child[s] = "runs" =>
    user[u].id \in MS!Range(inbox[s]) \/ [kind |-> "reply", id |-> user[u].id] \in MS!Range(lines[s])

PipeInv == PipeType /\ \A u \in MS!Users : Reader(u) /\ Kept(u)

NotCalled == [at |-> "not called", list |-> <<>>]

LEMMA InitClosing == MS!Init => closing = [c \in MS!Closers |-> NotCalled] /\ clients = <<>>
BY Zenon DEF MS!Init, NotCalled

LEMMA InitPipeInv == MS!Init => PipeInv
<1> SUFFICES ASSUME MS!Init
             PROVE  PipeInv
  OBVIOUS
<1>1. NotCalled \in ClosingCall
  BY DEF ClosingCall, NotCalled
<1>2. closing \in [MS!Closers -> ClosingCall] /\ clients \in Seq(Configured)
  BY <1>1, InitClosing
<1>3. inbox \in [Configured -> Seq(Nat)] /\ lines \in [Configured -> Seq(Line)]
  <2>1. inbox = [s \in Configured |-> <<>>] /\ lines = [s \in Configured |-> <<>>]
    BY Zenon DEF MS!Init
  <2> QED
    BY <2>1
<1>4. user = [u \in MS!Users |-> MS!Idle] /\ MS!Idle \in McpCall /\ MS!Idle.at = "idle"
  BY DEF MS!Init, MS!Idle, McpCall
<1>5. PipeType
  BY <1>2, <1>3, <1>4 DEF MS!Init, PipeType, MS!Steps
<1> QED
  BY <1>4, <1>5 DEF PipeInv, Reader, Kept

\* What Asking, Ended and Write do to the calls.
LEMMA AskingCall ==
  ASSUME user \in [MS!Users -> McpCall], NEW u \in MS!Users, NEW s \in Configured, MS!Asking(u, s)
  PROVE  /\ user' \in [MS!Users -> McpCall]
         /\ user'[u].at = "waits" /\ user'[u].server = s
         /\ \A v \in MS!Users \ {u} : user'[v] = user[v]
<1> DEFINE r == [MS!Idle EXCEPT !.at = "waits"]
<1>1. r \in McpCall /\ r.at = "waits"
  BY DEF MS!Idle, McpCall
<1>2. user' = [user EXCEPT ![u] = [r EXCEPT !.server = s]]
  BY DEF MS!Asking
<1> HIDE DEF r
<1>3. [r EXCEPT !.server = s] \in McpCall /\ [r EXCEPT !.server = s].at = "waits" /\ [r EXCEPT !.server = s].server = s
  BY <1>1 DEF McpCall
<1> QED
  BY <1>2, <1>3

LEMMA TwoFields ==
  ASSUME user \in [MS!Users -> McpCall], NEW u \in MS!Users, NEW x \in {"idle", "waits", "reads"},
         \/ \E y \in {"reply", "ask", "error"} : user' = [user EXCEPT ![u].at = x, ![u].got = y]
         \/ \E y \in Nat : user' = [user EXCEPT ![u].at = x, ![u].id = y]
  PROVE  /\ user' \in [MS!Users -> McpCall]
         /\ user'[u].at = x /\ user'[u].server = user[u].server
         /\ \A y : user' = [user EXCEPT ![u].at = x, ![u].id = y] => user'[u].id = y
         /\ \A v \in MS!Users \ {u} : user'[v] = user[v]
<1> DEFINE f == [user EXCEPT ![u].at = x]
<1>1. f \in [MS!Users -> McpCall] /\ f[u].at = x /\ f[u].server = user[u].server
  BY DEF McpCall
<1>2. \A v \in MS!Users \ {u} : f[v] = user[v]
  BY DEF McpCall
<1>3. \/ \E y \in {"reply", "ask", "error"} : user' = [f EXCEPT ![u].got = y]
      \/ \E y \in Nat : user' = [f EXCEPT ![u].id = y]
  OBVIOUS
<1>4. \A y : user' = [user EXCEPT ![u].at = x, ![u].id = y] => user' = [f EXCEPT ![u].id = y]
  OBVIOUS
<1> HIDE DEF f
<1>5. user' \in [MS!Users -> McpCall]
  BY <1>1, <1>3 DEF McpCall
<1>6. user'[u].at = f[u].at /\ user'[u].server = f[u].server
  BY <1>1, <1>3 DEF McpCall
<1>7. \A y : user' = [f EXCEPT ![u].id = y] => user'[u].id = y
  BY <1>1 DEF McpCall
<1>8. \A v \in MS!Users \ {u} : user'[v] = f[v]
  BY <1>1, <1>3
<1> QED
  BY <1>1, <1>2, <1>4, <1>5, <1>6, <1>7, <1>8

LEMMA EndedCall ==
  ASSUME user \in [MS!Users -> McpCall], NEW u \in MS!Users, NEW how \in {"reply", "ask", "error"}, MS!Ended(u, how)
  PROVE  /\ user' \in [MS!Users -> McpCall]
         /\ user'[u].at = "idle" /\ user'[u].server = user[u].server
         /\ \A v \in MS!Users \ {u} : user'[v] = user[v]
BY TwoFields, Zenon DEF MS!Ended

LEMMA AskingKeepsPipeInv ==
  ASSUME PipeInv, NEW v \in MS!Users, NEW s \in visited', MS!Asking(v, s), PipeType',
         visited \subseteq visited', UNCHANGED <<mutex, MS!pipe>>, \A t \in visited : child'[t] = child[t]
  PROVE  PipeInv'
<1>1. /\ user'[v].at = "waits" /\ user'[v].server = s
      /\ \A u \in MS!Users \ {v} : user'[u] = user[u]
  BY AskingCall DEF PipeInv, PipeType
<1>3. Reader(v)' /\ Kept(v)'
  BY <1>1 DEF Reader, Kept
<1>4. \A u \in MS!Users \ {v} : Reader(u)' /\ Kept(u)'
  BY <1>1 DEF Reader, Kept, PipeInv, PipeType, MS!pipe
<1> QED
  BY <1>3, <1>4 DEF PipeInv

\* What a call of CloseMCPServers does to the calls.
LEMMA ClosingStep ==
  ASSUME PipeType, NEW c \in MS!Closers, MS!CloseMCPServers(c) \/ MS!CloseNext(c) \/ MS!CloseReturns(c)
  PROVE  closing' \in [MS!Closers -> ClosingCall] /\ clients' \in Seq(Configured)
<1>1. CASE MS!CloseMCPServers(c)
  <2>1. [at |-> "closing", list |-> clients] \in ClosingCall
    BY DEF PipeType, ClosingCall
  <2>2. CASE closing' = [closing EXCEPT ![c] = [at |-> "closing", list |-> clients]] /\ clients' = <<>>
    BY <2>1, <2>2 DEF PipeType
  <2>3. CASE closing' = [closing EXCEPT ![c].at = "closing"] /\ UNCHANGED clients
    BY <2>3 DEF PipeType, ClosingCall
  <2> QED
    BY <1>1, <2>2, <2>3 DEF MS!CloseMCPServers
<1>2. CASE MS!CloseNext(c)
  <2>1. closing[c].list \in Seq(Configured) /\ closing[c].list # <<>>
    BY <1>2 DEF MS!CloseNext, PipeType, ClosingCall
  <2>2. Tail(closing[c].list) \in Seq(Configured)
    BY <2>1
  <2>3. closing' = [closing EXCEPT ![c].list = Tail(closing[c].list)] /\ clients' = clients
    BY <1>2 DEF MS!CloseNext
  <2> QED
    BY <2>2, <2>3 DEF PipeType, ClosingCall
<1>3. CASE MS!CloseReturns(c)
  BY <1>3 DEF MS!CloseReturns, PipeType, ClosingCall
<1> QED
  BY <1>1, <1>2, <1>3

LEMMA StepPipeType == PipeInv /\ [MS!Next]_MS!mcpvars => PipeType'
<1> SUFFICES ASSUME PipeInv, [MS!Next]_MS!mcpvars
             PROVE  PipeType'
  OBVIOUS
<1>0. PipeType /\ \A u \in MS!Users : Reader(u)
  BY DEF PipeInv
<1>1. CASE MS!CoreSteps
  <2>1. \A u \in MS!Users, s \in Configured : MS!Asking(u, s) =>
            user' \in [MS!Users -> McpCall]
    BY <1>0, AskingCall DEF PipeType
  <2>2. MS!Core \in MS!Users
    BY DEF MS!Users
  <2>3. CASE MS!Proceed \/ MS!NextPage
    <3>1. clients' \in Seq(Configured)
      <4>1. with \in Configured /\ (clients' = clients \/ clients' = Append(clients, with))
        BY <1>0, <2>3 DEF MS!Proceed, MS!NextPage, PipeType, MS!Steps, MS!core
      <4>2. clients \in Seq(Configured)
        BY <1>0 DEF PipeType
      <4> QED
        BY <4>1, <4>2
    <3> QED
      BY <1>0, <2>1, <2>2, <2>3, <3>1 DEF MS!Proceed, MS!NextPage, PipeType, MS!Steps, MS!core, MS!pipe
  <2>4. CASE MS!CloseFailed \/ MS!Started
    BY <1>0, <2>4 DEF MS!CloseFailed, MS!Started, PipeType, MS!Steps, MS!Killed, MS!core, MS!pipe
  <2>5. ASSUME NEW s \in Configured, MS!Launch(s)
        PROVE  PipeType'
    BY <1>0, <2>1, <2>2, <2>5 DEF MS!Launch, PipeType, MS!Steps, MS!pipe
  <2> QED
    BY <1>1, <2>3, <2>4, <2>5 DEF MS!CoreSteps
<1>2. ASSUME NEW s \in Configured, MS!Serve(s)
      PROVE  PipeType'
  BY <1>0, <1>2 DEF MS!Serve, PipeType, Line, MS!core
<1>3. ASSUME NEW s \in Configured, MS!WriteUnasked(s)
      PROVE  PipeType'
  BY <1>0, <1>3 DEF MS!WriteUnasked, PipeType, Line, MS!core
<1>4. ASSUME NEW s \in Configured, MS!Exit(s)
      PROVE  PipeType'
  BY <1>0, <1>4 DEF MS!Exit, MS!Killed, PipeType, MS!core, MS!pipe
<1>5. ASSUME NEW s \in Configured, NEW u \in ToolCalls, MS!CallTool(u, s)
      PROVE  PipeType'
  <2>1. user' \in [MS!Users -> McpCall]
    BY <1>0, <1>5, AskingCall DEF MS!CallTool, PipeType, MS!Users
  <2> QED
    BY <1>0, <1>5, <2>1 DEF MS!CallTool, PipeType, MS!core, MS!pipe
<1>6. ASSUME NEW u \in MS!Users, MS!Write(u)
      PROVE  PipeType'
  <2> DEFINE s == user[u].server
  <2>1. s \in Configured
    BY <1>0, <1>6 DEF MS!Write, Reader, PipeType
  <2>2. ids' \in [Configured -> Nat] /\ ids'[s] \in Nat
    BY <1>0, <1>6, <2>1 DEF MS!Write, PipeType
  <2>3. CASE child[s] = "runs"
    <3>1. user' = [user EXCEPT ![u].at = "reads", ![u].id = ids'[s]]
      BY <1>6, <2>3, Zenon DEF MS!Write
    <3>2. user' \in [MS!Users -> McpCall]
      BY <1>0, <2>2, <3>1, TwoFields, Zenon DEF PipeType
    <3>3. inbox' = [inbox EXCEPT ![s] = Append(inbox[s], ids'[s])] /\ mutex' = [mutex EXCEPT ![s] = u]
      BY <1>6, <2>3 DEF MS!Write
    <3>4. inbox' \in [Configured -> Seq(Nat)] /\ mutex' \in [Configured -> MS!Users \cup {MS!NoOne}]
      BY <1>0, <2>1, <2>2, <3>3 DEF PipeType
    <3> QED
      BY <1>0, <1>6, <2>2, <3>2, <3>4 DEF MS!Write, PipeType, MS!core
  <2>4. CASE child[s] # "runs"
    <3>1. user' \in [MS!Users -> McpCall]
      BY <1>0, <1>6, <2>4, EndedCall DEF MS!Write, PipeType
    <3> QED
      BY <1>0, <1>6, <2>1, <2>2, <2>4, <3>1 DEF MS!Write, PipeType, MS!core
  <2> QED
    BY <2>3, <2>4
<1>7. ASSUME NEW u \in MS!Users, MS!Read(u) \/ MS!EndOfFile(u)
      PROVE  PipeType'
  <2> DEFINE s == user[u].server
  <2>1. s \in Configured
    BY <1>0, <1>7 DEF MS!Read, MS!EndOfFile, Reader, PipeType
  <2>2. CASE MS!EndOfFile(u)
    <3>1. user' \in [MS!Users -> McpCall]
      BY <1>0, <2>2, EndedCall DEF MS!EndOfFile, PipeType
    <3> QED
      BY <1>0, <2>1, <2>2, <3>1 DEF MS!EndOfFile, MS!Unlocked, PipeType, MS!core, MS!pipe
  <2>3. CASE MS!Read(u)
    <3>1. Head(lines[s]) \in Line /\ Tail(lines[s]) \in Seq(Line)
      BY <1>0, <2>1, <2>3 DEF MS!Read, PipeType
    <3>2. user' \in [MS!Users -> McpCall]
      BY <1>0, <2>3, <3>1, EndedCall DEF MS!Read, PipeType, Line
    <3>3. mutex' \in [Configured -> MS!Users \cup {MS!NoOne}]
      BY <1>0, <2>3 DEF MS!Read, MS!Unlocked, PipeType
    <3> QED
      BY <1>0, <2>1, <2>3, <3>1, <3>2, <3>3 DEF MS!Read, PipeType, MS!core
  <2> QED
    BY <1>7, <2>2, <2>3
<1>8. CASE UNCHANGED MS!mcpvars
  BY <1>0, <1>8 DEF MS!mcpvars, PipeType
<1>9. ASSUME NEW c \in MS!Closers, MS!CloseMCPServers(c) \/ MS!CloseNext(c) \/ MS!CloseReturns(c)
      PROVE  PipeType'
  <2>1. closing' \in [MS!Closers -> ClosingCall] /\ clients' \in Seq(Configured)
    BY <1>0, <1>9, ClosingStep
  <2>2. child' \in [Configured -> {"none", "runs", "ended"}]
    BY <1>0, <1>9 DEF MS!CloseMCPServers, MS!CloseNext, MS!CloseReturns, MS!Killed, PipeType
  <2>3. UNCHANGED <<rebuilt, visited, doing, with, tools, mutex, ids, inbox, lines, unasked, user>>
    BY <1>9 DEF MS!CloseMCPServers, MS!CloseNext, MS!CloseReturns, MS!pipe
  <2> QED
    BY <1>0, <2>1, <2>2, <2>3 DEF PipeType
<1> QED
  BY <1>1, <1>2, <1>3, <1>4, <1>5, <1>6, <1>7, <1>8, <1>9 DEF MS!Next

\* A call that does not take part in a step keeps its place and its reply.
LEMMA OtherCallsKept ==
  ASSUME PipeInv, NEW u \in MS!Users, user'[u] = user[u], visited \subseteq visited',
         LET s == user[u].server IN
         user[u].at = "reads" =>
           /\ mutex'[s] = mutex[s] /\ (child'[s] = "runs" => child[s] = "runs")
           /\ MS!Range(inbox[s]) \subseteq MS!Range(inbox'[s]) /\ MS!Range(lines[s]) \subseteq MS!Range(lines'[s])
  PROVE  Reader(u)' /\ Kept(u)'
BY DEF PipeInv, Reader, Kept

\* A step that leaves the pipes and the calls alone and starts no process again.
LEMMA PipesUntouched ==
  ASSUME PipeInv, PipeType', UNCHANGED <<mutex, MS!pipe, user>>, visited \subseteq visited',
         \A s \in visited : child'[s] = "runs" => child[s] = "runs"
  PROVE  PipeInv'
<1>1. ASSUME NEW u \in MS!Users
      PROVE  Reader(u)' /\ Kept(u)'
  BY OtherCallsKept DEF PipeInv, Reader, MS!pipe
<1> QED
  BY <1>1 DEF PipeInv

\* What the core does.
LEMMA CoreKeepsPipeInv ==
  ASSUME PipeInv, PipeType', MS!CoreSteps
  PROVE  PipeInv'
<1>0. PipeType /\ MS!Core \in MS!Users
  BY DEF PipeInv, MS!Users
<1>1. CASE MS!NextPage \/ MS!Proceed
  <2>1. CASE MS!Asking(MS!Core, with)
    <3>1. with \in visited' /\ visited \subseteq visited'
          /\ UNCHANGED <<mutex, MS!pipe, child>>
      BY <1>0, <1>1 DEF MS!NextPage, MS!Proceed, PipeType, MS!core
    <3> QED
      BY <1>0, <2>1, <3>1, AskingKeepsPipeInv
  <2>2. CASE ~MS!Asking(MS!Core, with)
    BY <1>1, <2>2, PipesUntouched DEF MS!NextPage, MS!Proceed
  <2> QED
    BY <2>1, <2>2
<1>2. CASE MS!CloseFailed \/ MS!Started
  <2>1. \A s \in Configured : child'[s] = "runs" => child[s] = "runs"
    BY <1>0, <1>2 DEF MS!CloseFailed, MS!Started, MS!Killed, PipeType
  <2>2. UNCHANGED <<mutex, MS!pipe, user, visited>>
    BY <1>2 DEF MS!CloseFailed, MS!Started
  <2> QED
    BY <1>0, <2>1, <2>2, PipesUntouched DEF PipeType
<1>3. ASSUME NEW s \in Configured, MS!Launch(s)
      PROVE  PipeInv'
  <2>1. \A t \in visited : child'[t] = child[t]
    BY <1>0, <1>3 DEF MS!Launch, PipeType
  <2>2. s \in visited' /\ visited \subseteq visited' /\ UNCHANGED <<mutex, MS!pipe>>
    BY <1>3 DEF MS!Launch
  <2>3. CASE UNCHANGED user
    BY <2>1, <2>2, <2>3, PipesUntouched
  <2>4. CASE ~UNCHANGED user
    BY <1>0, <1>3, <2>1, <2>2, <2>4, AskingKeepsPipeInv DEF MS!Launch
  <2> QED
    BY <2>3, <2>4
<1> QED
  BY <1>1, <1>2, <1>3 DEF MS!CoreSteps

\* What a call of CloseMCPServers does.
LEMMA CloseKeepsPipeInv ==
  ASSUME PipeInv, PipeType', NEW c \in MS!Closers, MS!CloseMCPServers(c) \/ MS!CloseNext(c) \/ MS!CloseReturns(c)
  PROVE  PipeInv'
<1>1. PipeType
  BY DEF PipeInv
<1>2. \A s \in Configured : child'[s] = "runs" => child[s] = "runs"
  BY <1>1 DEF MS!CloseMCPServers, MS!CloseNext, MS!CloseReturns, MS!Killed, PipeType
<1>3. UNCHANGED <<mutex, MS!pipe, user, visited>>
  BY DEF MS!CloseMCPServers, MS!CloseNext, MS!CloseReturns
<1> QED
  BY <1>1, <1>2, <1>3, PipesUntouched DEF PipeType

\* What a server does.
LEMMA ServerKeepsPipeInv ==
  ASSUME PipeInv, PipeType', NEW s \in Configured, MS!Serve(s) \/ MS!WriteUnasked(s) \/ MS!Exit(s)
  PROVE  PipeInv'
<1>0. PipeType
  BY DEF PipeInv
<1>1. CASE MS!Exit(s)
  <2>1. \A t \in Configured : child'[t] = "runs" => child[t] = "runs"
    BY <1>0, <1>1 DEF MS!Exit, MS!Killed, PipeType
  <2> QED
    BY <1>0, <1>1, <2>1, PipesUntouched DEF MS!Exit, MS!core, PipeType
<1>2. CASE MS!WriteUnasked(s)
  <2>1. PICK id \in {0, unasked[s] + 1} : lines' = [lines EXCEPT ![s] = Append(@, [kind |-> "ask", id |-> id])]
    BY <1>2 DEF MS!WriteUnasked
  <2>2. [kind |-> "ask", id |-> id] \in Line
    BY <1>0 DEF PipeType, Line
  <2>3. \A t \in Configured : MS!Range(lines[t]) \subseteq MS!Range(lines'[t])
    BY <1>0, <2>1, <2>2, RangeOfAppend, SMTT(30) DEF PipeType
  <2>4. ASSUME NEW u \in MS!Users
        PROVE  Reader(u)' /\ Kept(u)'
    BY <1>0, <1>2, <2>3, <2>4, OtherCallsKept DEF MS!WriteUnasked, PipeInv, PipeType, Reader, MS!core
  <2> QED
    BY <2>4 DEF PipeInv
<1>3. CASE MS!Serve(s)
  <2> DEFINE reply == [kind |-> "reply", id |-> Head(inbox[s])]
  <2>1. inbox[s] \in Seq(Nat) /\ inbox[s] # <<>> /\ lines[s] \in Seq(Line) /\ reply \in Line
    BY <1>0, <1>3 DEF MS!Serve, PipeType, Line
  <2>2. inbox' = [inbox EXCEPT ![s] = Tail(inbox[s])] /\ lines' = [lines EXCEPT ![s] = Append(lines[s], reply)]
    BY <1>3 DEF MS!Serve
  <2>3. UNCHANGED <<visited, child, mutex, user>>
    BY <1>3 DEF MS!Serve, MS!core
  <2>4. ASSUME NEW u \in MS!Users
        PROVE  Reader(u)' /\ Kept(u)'
    <3>1. CASE user[u].at = "reads" /\ user[u].server = s
      <4>1. MS!Range(lines'[s]) = MS!Range(lines[s]) \cup {reply}
        BY <1>0, <2>1, <2>2, RangeOfAppend DEF PipeType
      <4>2. user[u].id # Head(inbox[s]) /\ user[u].id \in MS!Range(inbox[s]) => user[u].id \in MS!Range(inbox'[s])
        BY <1>0, <2>1, <2>2, RangeOfTail DEF PipeType
      <4>3. Reader(u) /\ Kept(u)
        BY DEF PipeInv
      <4> QED
        BY <2>3, <3>1, <4>1, <4>2, <4>3 DEF Reader, Kept
    <3>2. CASE ~(user[u].at = "reads" /\ user[u].server = s)
      <4>1. user[u].at = "reads" => inbox'[user[u].server] = inbox[user[u].server]
                                    /\ lines'[user[u].server] = lines[user[u].server]
        BY <1>0, <2>2, <3>2 DEF PipeInv, PipeType, Reader
      <4> QED
        BY <2>3, <2>4, <4>1, OtherCallsKept
    <3> QED
      BY <3>1, <3>2
  <2> QED
    BY <2>4 DEF PipeInv
<1> QED
  BY <1>1, <1>2, <1>3

\* What a call does.
LEMMA CallKeepsPipeInv ==
  ASSUME MS!McpAssumption, PipeInv, PipeType', NEW v \in MS!Users, MS!Write(v) \/ MS!Read(v) \/ MS!EndOfFile(v)
  PROVE  PipeInv'
<1> DEFINE s == user[v].server
<1>0. PipeType /\ Reader(v) /\ Kept(v) /\ s \in visited /\ s \in Configured
  BY DEF PipeInv, PipeType, Reader, MS!Write, MS!Read, MS!EndOfFile
<1>1. UNCHANGED <<visited, child>>
  BY DEF MS!Write, MS!Read, MS!EndOfFile, MS!core
<1>2. CASE MS!Write(v) /\ child[s] = "runs"
  <2>1. /\ ids'[s] \in Nat
        /\ inbox' = [inbox EXCEPT ![s] = Append(inbox[s], ids'[s])] /\ mutex' = [mutex EXCEPT ![s] = v]
        /\ user' = [user EXCEPT ![v].at = "reads", ![v].id = ids'[s]] /\ lines' = lines /\ mutex[s] = MS!NoOne
    BY <1>0, <1>2, Zenon DEF MS!Write, PipeType, MS!TransportFree
  <2>2. /\ user'[v].at = "reads" /\ user'[v].server = s /\ user'[v].id = ids'[s]
        /\ \A u \in MS!Users \ {v} : user'[u] = user[u]
    BY <1>0, <2>1, TwoFields, Zenon DEF PipeType
  <2>3. /\ MS!Range(inbox'[s]) = MS!Range(inbox[s]) \cup {ids'[s]} /\ mutex'[s] = v
        /\ \A t \in Configured \ {s} : inbox'[t] = inbox[t] /\ mutex'[t] = mutex[t]
    <3>1. inbox[s] \in Seq(Nat) /\ inbox'[s] = Append(inbox[s], ids'[s])
      BY <1>0, <2>1 DEF PipeType
    <3>2. MS!Range(inbox'[s]) = MS!Range(inbox[s]) \cup {ids'[s]}
      BY <2>1, <3>1, RangeOfAppend, SMTT(30)
    <3> QED
      BY <1>0, <2>1, <3>2 DEF PipeType
  <2>4. Reader(v)' /\ Kept(v)'
    BY <1>0, <1>1, <2>2, <2>3 DEF Reader, Kept
  <2>5. ASSUME NEW u \in MS!Users \ {v}
        PROVE  Reader(u)' /\ Kept(u)'
    <3>1. user[u].at = "reads" => user[u].server \in Configured \ {s}
      BY <1>0, <2>1 DEF MS!McpAssumption, PipeInv, PipeType, Reader
    <3> QED
      BY <1>1, <2>1, <2>2, <2>3, <2>5, <3>1, OtherCallsKept
  <2> QED
    BY <2>4, <2>5 DEF PipeInv
<1>3. CASE MS!Write(v) /\ child[s] # "runs"
  <2>1. MS!Ended(v, "error") /\ UNCHANGED <<inbox, lines, mutex>>
    BY <1>3 DEF MS!Write
  <2>2. user'[v].at = "idle" /\ \A u \in MS!Users \ {v} : user'[u] = user[u]
    BY <1>0, <2>1, EndedCall DEF PipeType
  <2>3. ASSUME NEW u \in MS!Users
        PROVE  Reader(u)' /\ Kept(u)'
    BY <1>1, <2>1, <2>2, <2>3, OtherCallsKept DEF Reader, Kept
  <2> QED
    BY <2>3 DEF PipeInv
<1>4. CASE MS!Read(v) \/ MS!EndOfFile(v)
  <2>1. user[v].at = "reads" /\ mutex[s] = v
    BY <1>0, <1>4 DEF MS!Read, MS!EndOfFile, Reader
  <2>2. inbox' = inbox /\ \A t \in Configured \ {s} : lines'[t] = lines[t] /\ mutex'[t] = mutex[t]
    BY <1>0, <1>4 DEF MS!Read, MS!EndOfFile, MS!Unlocked, PipeType, MS!pipe
  <2>3. \/ \E how \in {"reply", "ask", "error"} : MS!Ended(v, how)
        \/ /\ user' = user /\ mutex' = mutex /\ lines[s] \in Seq(Line) /\ lines[s] # <<>>
           /\ lines' = [lines EXCEPT ![s] = Tail(lines[s])] /\ Head(lines[s]).id # user[v].id
    <3>1. MS!Read(v) => Head(lines[s]) \in Line /\ lines[s] \in Seq(Line)
      BY <1>0 DEF MS!Read, PipeType
    <3> QED
      BY <1>4, <3>1 DEF MS!Read, MS!EndOfFile, Line
  <2>4. \A u \in MS!Users \ {v} : user'[u] = user[u]
    BY <1>0, <2>3, EndedCall DEF PipeType
  <2>5. ASSUME NEW u \in MS!Users \ {v}
        PROVE  Reader(u)' /\ Kept(u)'
    <3>1. user[u].at = "reads" => user[u].server \in Configured \ {s}
      BY <2>1 DEF PipeInv, PipeType, Reader
    <3> QED
      BY <1>1, <2>2, <2>4, <2>5, <3>1, OtherCallsKept
  <2>6. Reader(v)' /\ Kept(v)'
    <3>1. CASE \E how \in {"reply", "ask", "error"} : MS!Ended(v, how)
      <4>1. user'[v].at = "idle"
        BY <1>0, <3>1, EndedCall DEF PipeType
      <4> QED
        BY <4>1 DEF Reader, Kept
    <3>2. CASE ~\E how \in {"reply", "ask", "error"} : MS!Ended(v, how)
      <4>1. /\ user' = user /\ mutex' = mutex /\ lines[s] \in Seq(Line) /\ lines[s] # <<>>
            /\ lines'[s] = Tail(lines[s]) /\ Head(lines[s]).id # user[v].id
        BY <1>0, <2>3, <3>2 DEF PipeType
      <4>2. [kind |-> "reply", id |-> user[v].id] \in MS!Range(lines[s]) =>
              [kind |-> "reply", id |-> user[v].id] \in MS!Range(lines'[s])
        BY <4>1, RangeOfTail
      <4> QED
        BY <1>0, <1>1, <2>2, <4>1, <4>2 DEF Reader, Kept
    <3> QED
      BY <3>1, <3>2
  <2> QED
    BY <2>5, <2>6 DEF PipeInv
<1> QED
  BY <1>2, <1>3, <1>4

LEMMA NextKeepsPipeInv == MS!McpAssumption /\ PipeInv /\ [MS!Next]_MS!mcpvars => PipeInv'
<1> SUFFICES ASSUME MS!McpAssumption, PipeInv, [MS!Next]_MS!mcpvars
             PROVE  PipeInv'
  OBVIOUS
<1>0. PipeType' /\ PipeType
  BY StepPipeType DEF PipeInv
<1>1. CASE MS!CoreSteps
  BY <1>0, <1>1, CoreKeepsPipeInv
<1>2. CASE \E s \in Configured : MS!Serve(s) \/ MS!WriteUnasked(s) \/ MS!Exit(s)
  BY <1>0, <1>2, ServerKeepsPipeInv
<1>3. ASSUME NEW s \in Configured, NEW u \in ToolCalls, MS!CallTool(u, s)
      PROVE  PipeInv'
  BY <1>0, <1>3, AskingKeepsPipeInv DEF MS!CallTool, MS!core, MS!Users, PipeType
<1>4. CASE \E u \in MS!Users : MS!Write(u) \/ MS!Read(u) \/ MS!EndOfFile(u)
  BY <1>0, <1>4, CallKeepsPipeInv
<1>5. CASE UNCHANGED MS!mcpvars
  BY <1>0, <1>5, PipesUntouched DEF MS!mcpvars, MS!pipe
<1>6. CASE \E c \in MS!Closers : MS!CloseMCPServers(c) \/ MS!CloseNext(c) \/ MS!CloseReturns(c)
  BY <1>0, <1>6, CloseKeepsPipeInv
<1> QED
  BY <1>1, <1>2, <1>3, <1>4, <1>5, <1>6 DEF MS!Next

\* streamTransport: the reply of a call that reads is never read by anybody else.
THEOREM RepliesKept == ServicesSpec => []AwaitedReplyKept
<1>1. MS!McpAssumption
  BY ServicesAssumption
<1>2. MS!Init => PipeInv
  BY InitPipeInv
<1>3. PipeInv /\ [MS!Next]_(MS!mcpvars) => PipeInv'
  BY <1>1, NextKeepsPipeInv
<1>4. PipeInv => AwaitedReplyKept
  BY DEF PipeInv, Kept, MS!AwaitedReplyKept, AwaitedReplyKept
<1> QED
  BY <1>2, <1>3, <1>4, McpAlone, PTL DEF MS!Spec

\* Who has to close a server that runs: a call that took it and has not come to it, one
\* that will take it, or the start, while it shakes hands.
Listed(s) == \E c \in MS!Closers : s \in MS!Range(closing[c].list)
Held(s) == Listed(s) \/ s \in MS!Range(clients) \/ (doing \in MS!Steps \cup {"close"} /\ with = s)

\* After the releaser's call nothing is registered any more.
ChildrenHeld ==
  /\ \A s \in Configured : child[s] = "runs" => Held(s)
  /\ closing[MS!Releaser].at # "not called" => doing = "serve" /\ clients = <<>>
  /\ \A c \in MS!Closers : closing[c].at # "closing" => closing[c].list = <<>>

LEMMA FewerChildren ==
  ASSUME PipeType, ChildrenHeld, UNCHANGED MS!core, NEW s,
         child' = child \/ child' = [child EXCEPT ![s] = "ended"]
  PROVE  ChildrenHeld'
<1>1. \A t \in Configured : child'[t] = "runs" => child[t] = "runs"
  BY DEF PipeType
<1> QED
  BY <1>1 DEF ChildrenHeld, Held, Listed, MS!core, MS!Releaser

\* The steps of the start.
LEMMA StartKeepsChildren ==
  ASSUME PipeType, ChildrenHeld, MS!CoreSteps
  PROVE  ChildrenHeld'
<1>0. UNCHANGED <<rebuilt, closing>>
  BY DEF MS!CoreSteps, MS!Proceed, MS!NextPage, MS!CloseFailed, MS!Started, MS!Launch, MS!core
<1>1. doing # "serve"
  BY DEF MS!CoreSteps, MS!Proceed, MS!NextPage, MS!CloseFailed, MS!Started, MS!Launch, MS!Steps
<1>2. closing'[MS!Releaser'].at = "not called"
  BY <1>0, <1>1 DEF ChildrenHeld, MS!Releaser
<1>3. \A s \in Configured : Listed(s) => Listed(s)'
  BY <1>0 DEF Listed
<1>4. SUFFICES \A s \in Configured : child'[s] = "runs" => Held(s)'
  BY <1>0, <1>2 DEF ChildrenHeld
<1>5. CASE MS!NextPage \/ MS!Started
  BY <1>0, <1>5 DEF MS!NextPage, MS!Started, MS!core, ChildrenHeld, Held, Listed, MS!Steps
<1>6. CASE MS!Proceed
  <2>1. child' = child /\ doing \in MS!Steps
    BY <1>6 DEF MS!Proceed
  <2>2. \/ doing' \in MS!Steps \cup {"close"} /\ with' = with /\ clients' = clients
        \/ clients' = Append(clients, with) /\ with \in Configured
    BY <1>6 DEF MS!Proceed, MS!Steps, PipeType
  <2>3. CASE doing' \in MS!Steps \cup {"close"} /\ with' = with /\ clients' = clients
    BY <1>3, <2>1, <2>3 DEF ChildrenHeld, Held
  <2>4. CASE clients' = Append(clients, with) /\ with \in Configured
    <3>1. clients \in Seq(Configured)
      BY DEF PipeType
    <3>2. MS!Range(clients') = MS!Range(clients) \cup {with}
      BY <2>4, <3>1, RangeOfAppend
    <3> QED
      BY <1>3, <2>1, <3>2 DEF ChildrenHeld, Held
  <2> QED
    BY <2>2, <2>3, <2>4
<1>7. CASE MS!CloseFailed
  <2>1. doing = "close" /\ child' = [child EXCEPT ![with] = "ended"] /\ clients' = clients
    BY <1>7 DEF MS!CloseFailed, MS!Killed
  <2>2. \A s \in Configured : child'[s] = "runs" => s # with /\ child[s] = "runs"
    BY <2>1 DEF PipeType
  <2> QED
    BY <1>3, <2>1, <2>2 DEF ChildrenHeld, Held
<1>8. ASSUME NEW s \in Configured, MS!Launch(s)
      PROVE  \A t \in Configured : child'[t] = "runs" => Held(t)'
  <2>1. doing = "start" /\ clients' = clients
    BY <1>8 DEF MS!Launch
  <2>2. CASE UNCHANGED <<doing, with, child>>
    BY <1>3, <2>1, <2>2 DEF ChildrenHeld, Held
  <2>3. CASE child' = [child EXCEPT ![s] = "runs"] /\ doing' = "initialize" /\ with' = s
    <3>1. \A t \in Configured : child'[t] = "runs" => t = s \/ child[t] = "runs"
      BY <2>3 DEF PipeType
    <3> QED
      BY <1>3, <2>1, <2>3, <3>1 DEF ChildrenHeld, Held, MS!Steps
  <2> QED
    BY <1>8, <2>2, <2>3 DEF MS!Launch
<1> QED
  BY <1>5, <1>6, <1>7, <1>8 DEF MS!CoreSteps

\* The steps of a call of CloseMCPServers, at any moment of the start unless it is the
\* releaser's.
LEMMA CloseKeepsChildren ==
  ASSUME PipeType, PipeType', ChildrenHeld, NEW c \in MS!Closers,
         MS!CloseMCPServers(c) \/ MS!CloseNext(c) \/ MS!CloseReturns(c)
  PROVE  ChildrenHeld'
<1>0. /\ UNCHANGED <<rebuilt, doing, with>>
      /\ \A e \in MS!Closers \ {c} : closing'[e] = closing[e]
      /\ MS!Releaser' = MS!Releaser /\ MS!Releaser \in MS!Closers
  BY DEF MS!CloseMCPServers, MS!CloseNext, MS!CloseReturns, PipeType, MS!Releaser, MS!Closers
<1>1. CASE MS!CloseMCPServers(c)
  <2>1. child' = child /\ (c = MS!Releaser => doing = "serve")
    BY <1>1 DEF MS!CloseMCPServers
  <2>2. CASE MS!ThisCore(c) /\ closing' = [closing EXCEPT ![c] = [at |-> "closing", list |-> clients]] /\ clients' = <<>>
    <3>1. closing'[c].list = clients
      BY <2>2 DEF PipeType
    <3>2. closing[c].list = <<>> /\ closing'[c].at = "closing"
      BY <1>1, <2>2 DEF MS!CloseMCPServers, ChildrenHeld, PipeType
    <3>3. \A s : Listed(s) => Listed(s)'
      BY <1>0, <3>2 DEF Listed, MS!Range
    <3> QED
      BY <1>0, <2>1, <2>2, <3>1, <3>2, <3>3 DEF ChildrenHeld, Held, Listed
  <2>3. CASE ~MS!ThisCore(c) /\ closing' = [closing EXCEPT ![c].at = "closing"] /\ UNCHANGED clients
    <3>1. c # MS!Releaser
      BY <2>3 DEF MS!ThisCore, MS!Releaser, MS!Closers
    <3>2. closing'[c].at = "closing" /\ closing'[c].list = closing[c].list
      BY <2>3 DEF PipeType, ClosingCall
    <3>3. \A s : Listed(s) => Listed(s)'
      BY <1>0, <3>2 DEF Listed
    <3> QED
      BY <1>0, <2>1, <2>3, <3>1, <3>2, <3>3 DEF ChildrenHeld, Held
  <2> QED
    BY <1>1, <2>2, <2>3 DEF MS!CloseMCPServers
<1>2. CASE MS!CloseNext(c)
  <2> DEFINE q == closing[c].list
  <2>1. q \in Seq(Configured) /\ q # <<>>
    BY <1>2 DEF MS!CloseNext, PipeType, ClosingCall
  <2>2. closing' = [closing EXCEPT ![c].list = Tail(q)] /\ child' = [child EXCEPT ![Head(q)] = "ended"] /\ clients' = clients
    BY <1>2 DEF MS!CloseNext, MS!Killed
  <2>3. closing'[c].list = Tail(q) /\ closing'[c].at = closing[c].at
    <3> DEFINE r == closing[c]
               x == Tail(q)
    <3>1. r \in ClosingCall /\ closing' = [closing EXCEPT ![c] = [r EXCEPT !.list = x]]
      BY <2>2 DEF PipeType
    <3>2. closing'[c] = [r EXCEPT !.list = x]
      BY <3>1 DEF PipeType
    <3> HIDE DEF r, x
    <3>3. [r EXCEPT !.list = x].list = x /\ [r EXCEPT !.list = x].at = r.at
      BY <3>1 DEF ClosingCall
    <3> QED
      BY <3>2, <3>3 DEF r, x
  <2>4. \A s \in Configured : child'[s] = "runs" => s # Head(q) /\ child[s] = "runs"
    BY <2>1, <2>2 DEF PipeType
  <2>5. \A s \in Configured \ {Head(q)} : Listed(s) => Listed(s)'
    <3>1. \A s : s \in MS!Range(q) /\ s # Head(q) => s \in MS!Range(Tail(q))
      BY <2>1, RangeOfTail
    <3> QED
      BY <1>0, <2>3, <3>1 DEF Listed
  <2>6. closing[c].at = "closing"
    BY <2>1 DEF ChildrenHeld
  <2>7. \A s \in Configured : child'[s] = "runs" => Held(s)'
    BY <1>0, <2>2, <2>4, <2>5 DEF ChildrenHeld, Held
  <2>8. \A e \in MS!Closers : closing'[e].at = closing[e].at
    BY <1>0, <2>3
  <2>9. \A e \in MS!Closers : closing'[e].at # "closing" => closing'[e].list = <<>>
    BY <1>0, <2>6, <2>8 DEF ChildrenHeld
  <2> QED
    BY <1>0, <2>2, <2>7, <2>8, <2>9 DEF ChildrenHeld
<1>3. CASE MS!CloseReturns(c)
  <2>1. \A e \in MS!Closers : closing'[e].list = closing[e].list
    BY <1>0, <1>3 DEF MS!CloseReturns, PipeType, ClosingCall
  <2>2. closing[c].at = "closing" /\ UNCHANGED <<child, clients>>
    BY <1>3 DEF MS!CloseReturns
  <2>3. closing'[c].at = "returned" /\ closing'[c].list = <<>>
    BY <1>3, <2>1 DEF MS!CloseReturns, PipeType, ClosingCall
  <2>4. \A s \in Configured : child'[s] = "runs" => Held(s)'
    BY <1>0, <2>1, <2>2 DEF ChildrenHeld, Held, Listed
  <2>5. closing'[MS!Releaser].at # "not called" => closing[MS!Releaser].at # "not called"
    BY <1>0, <2>2
  <2>6. \A e \in MS!Closers : closing'[e].at # "closing" => closing'[e].list = <<>>
    BY <1>0, <2>3 DEF ChildrenHeld
  <2> QED
    BY <1>0, <2>2, <2>4, <2>5, <2>6 DEF ChildrenHeld
<1> QED
  BY <1>1, <1>2, <1>3

LEMMA StepKeepsChildren ==
  ASSUME PipeType, PipeType', ChildrenHeld, [MS!Next]_MS!mcpvars
  PROVE  ChildrenHeld'
<1>1. CASE UNCHANGED MS!mcpvars
  BY <1>1, FewerChildren DEF MS!mcpvars, MS!core
<1>2. ASSUME NEW s \in Configured, MS!Serve(s) \/ MS!WriteUnasked(s) \/ MS!Exit(s) \/ (\E u \in ToolCalls : MS!CallTool(u, s))
      PROVE  ChildrenHeld'
  BY <1>2, FewerChildren DEF MS!Serve, MS!WriteUnasked, MS!Exit, MS!Killed, MS!CallTool
<1>3. ASSUME NEW u \in MS!Users, MS!Write(u) \/ MS!Read(u) \/ MS!EndOfFile(u)
      PROVE  ChildrenHeld'
  BY <1>3, FewerChildren DEF MS!Write, MS!Read, MS!EndOfFile
<1>4. CASE MS!CoreSteps
  BY <1>4, StartKeepsChildren
<1>5. CASE \E c \in MS!Closers : MS!CloseMCPServers(c) \/ MS!CloseNext(c) \/ MS!CloseReturns(c)
  BY <1>5, CloseKeepsChildren
<1> QED
  BY <1>1, <1>2, <1>3, <1>4, <1>5 DEF MS!Next

\* CloseMCPServers: once the call that comes after the start has returned, no server runs
\* but those that another call, a handoff's, took and is about to close: those it left
\* out, registered by a start it overtook, and those that failed in the handshake
\* included.
THEOREM NoServerOutlives == ServicesSpec => []NoneOutlives
<1>1. MS!McpAssumption
  BY ServicesAssumption
<1>2. MS!Init => PipeInv /\ ChildrenHeld
  <2>1. MS!Init => \A c \in MS!Closers : closing[c].at = "not called" /\ closing[c].list = <<>>
    <3>1. NotCalled.at = "not called" /\ NotCalled.list = <<>>
      BY DEF NotCalled
    <3> QED
      BY <3>1, InitClosing
  <2>2. MS!Releaser \in MS!Closers
    BY DEF MS!Releaser, MS!Closers
  <2>3. MS!Init => \A s \in Configured : child[s] = "none"
    BY DEF MS!Init
  <2> QED
    BY <2>1, <2>2, <2>3, InitPipeInv DEF ChildrenHeld
<1>3. PipeInv /\ [MS!Next]_(MS!mcpvars) => PipeInv'
  BY <1>1, NextKeepsPipeInv
<1>4. PipeInv /\ ChildrenHeld /\ [MS!Next]_(MS!mcpvars) => ChildrenHeld'
  BY <1>3, StepKeepsChildren DEF PipeInv
<1>5. ChildrenHeld => NoneOutlives
  BY DEF ChildrenHeld, Held, Listed, MS!Range, MS!Steps, MS!NoneOutlives, NoneOutlives
<1> QED
  BY <1>2, <1>3, <1>4, <1>5, McpAlone, PTL DEF MS!Spec

-----------------------------------------------------------------------------
(* The server sees the current document.                                   *)

OneAtATime == \A a, b \in Askers : a = b

Kinds == {"open", "change", "save", "close", "request"}
Carried == [version : Nat, text : Nat, life : Nat]
Messages == [kind : Kinds, version : Nat, text : Nat, life : Nat]
CallOfFile == [op : {"none", "ask", "diagnose", "write", "remove"},
               at : {"idle", "told", "stat", "read", "sync", "expect", "notify", "use", "invalidate"},
               seen : Nat, text : Nat, version : Nat]

SyncType ==
  /\ source \in Nat /\ contents \in Nat /\ source <= contents /\ opens \in Nat /\ cut \in BOOLEAN
  /\ doc \in [version : Nat, text : Nat, stat : Nat]
  /\ diag \in [awaited : Nat, version : Nat, text : Nat, life : Nat]
  /\ ask \in [Askers -> CallOfFile]
  /\ wire \in Seq(Messages) /\ view \in Carried /\ pushes \in Seq(Carried)

\* What a call has seen is not newer than what it read, nor than what it synced.
Seen(c) ==
  /\ ask[c].at = "read" => ask[c].seen <= contents /\ (source = 0 \/ ask[c].seen <= source)
  /\ ask[c].at = "sync" => ask[c].seen <= ask[c].text
  /\ ask[c].at \in {"expect", "notify"} => DS!Open /\ ask[c].version = doc.version /\ ask[c].text = doc.text
  /\ ask[c].at \in {"expect", "notify", "use"} => DS!Open /\ ask[c].seen <= doc.text
  /\ ask[c].at = "invalidate" => ~DS!Open
SeenInv == (DS!Open => doc.stat <= doc.text) /\ \A c \in Askers : Seen(c)

\* Findings of this life of the document are about its version, or an older one.
OfDoc(x) ==
  /\ x.life <= opens
  /\ DS!Open /\ x.life = opens => x.version <= doc.version /\ (x.version = doc.version => x.text = doc.text)
Speaks(m) == m.kind \in {"open", "change"}
Versions ==
  /\ \A i \in DOMAIN wire : Speaks(wire[i]) => OfDoc(wire[i])
  /\ view.version > 0 => OfDoc(view)
  /\ \A i \in DOMAIN pushes : OfDoc(pushes[i])
  /\ diag.version > 0 => OfDoc(diag)
  /\ DS!Open /\ (\A c \in Askers : ask[c].at # "expect") => diag.awaited = doc.version

\* The document is open at the i-th message of w, with text n or a newer one.
Tells(m) == m.kind \in {"open", "change", "close"}
OpenAt(w, v, i, n) ==
  \/ /\ v.version > 0 /\ n <= v.text
     /\ \A k \in 1 .. i - 1 : ~Tells(w[k])
  \/ \E j \in 1 .. i - 1 : /\ Speaks(w[j]) /\ w[j].version > 0 /\ n <= w[j].text
                           /\ \A k \in j + 1 .. i - 1 : ~Tells(w[k])

Answered ==
  /\ \A i \in DOMAIN wire : Speaks(wire[i]) => wire[i].version > 0
  /\ ~cut => /\ \A i \in DOMAIN wire : wire[i].kind = "request" => OpenAt(wire, view, i, wire[i].text)
             /\ DS!Open /\ (\A c \in Askers : ask[c].at \notin {"expect", "notify"}) =>
                  OpenAt(wire, view, Len(wire) + 1, doc.text)

SyncInv == SyncType /\ SeenInv /\ Versions /\ Answered

LEMMA MessagesTyped ==
  ASSUME SyncInv
  PROVE  (\A i \in DOMAIN wire : wire[i] \in Messages) /\ \A i \in DOMAIN pushes : pushes[i] \in Carried
BY DEF SyncInv, SyncType

LEMMA SyncInvHolds == OneAtATime /\ SyncInv => DS!ViewIsCurrent
<1> SUFFICES ASSUME OneAtATime, SyncInv, ~cut
             PROVE  /\ DS!Requested => view.version > 0 /\ view.text >= Head(wire).text
                    /\ \A c \in DS!Reading : diag.text >= ask[c].seen \/ diag.life < opens
  BY DEF DS!ViewIsCurrent
<1>1. DS!Requested => view.version > 0 /\ view.text >= Head(wire).text
  <2> SUFFICES ASSUME DS!Requested
               PROVE  view.version > 0 /\ view.text >= Head(wire).text
    OBVIOUS
  <2>1. wire \in Seq(Messages) /\ 1 \in DOMAIN wire /\ wire[1] = Head(wire) /\ wire[1].kind = "request"
    BY DEF DS!Requested, SyncInv, SyncType
  <2>2. OpenAt(wire, view, 1, wire[1].text)
    BY <2>1 DEF SyncInv, Answered
  <2>3. view \in Carried /\ wire[1] \in Messages
    BY <2>1 DEF SyncInv, SyncType
  <2> QED
    BY <2>1, <2>2, <2>3 DEF OpenAt, Carried, Messages
<1>2. ASSUME NEW c \in DS!Reading, ~(diag.life < opens)
      PROVE  diag.text >= ask[c].seen
  <2>1. c \in Askers /\ ask[c].at = "use" /\ DS!Settled
    BY DEF DS!Reading
  <2>2. DS!Open /\ ask[c].seen <= doc.text
    BY <2>1 DEF SyncInv, SeenInv, Seen
  <2>3. \A d \in Askers : ask[d].at # "expect"
    BY <2>1 DEF OneAtATime
  <2>4. diag.awaited = doc.version /\ OfDoc(diag)
    BY <2>1, <2>2, <2>3 DEF SyncInv, Versions, DS!Settled
  <2>5. diag.life = opens /\ diag.version = doc.version
    BY <1>2, <2>1, <2>2, <2>4 DEF OfDoc, SyncInv, SyncType, DS!Settled
  <2>6. diag.text = doc.text
    BY <2>2, <2>4, <2>5 DEF OfDoc
  <2> QED
    BY <2>1, <2>2, <2>6 DEF SyncInv, SyncType, CallOfFile
<1> QED
  BY <1>1, <1>2

LEMMA InitSyncInv == DS!Init => SyncInv
<1> SUFFICES ASSUME DS!Init PROVE SyncInv
  OBVIOUS
<1>1. SyncType
  <2>1. DS!Done \in CallOfFile /\ DS!Unviewed \in Carried
    BY DEF DS!Done, CallOfFile, DS!Unviewed, Carried
  <2>2. <<>> \in Seq(Messages) /\ <<>> \in Seq(Carried)
    OBVIOUS
  <2>3. source \in Nat /\ contents \in Nat /\ source <= contents /\ opens \in Nat
    BY DEF DS!Init
  <2>4. cut \in BOOLEAN
    BY DEF DS!Init
  <2>5. /\ doc \in [version : Nat, text : Nat, stat : Nat]
        /\ diag \in [awaited : Nat, version : Nat, text : Nat, life : Nat]
    BY DEF DS!Init, DS!Unopened
  <2>6. ask \in [Askers -> CallOfFile] /\ view \in Carried
    BY <2>1 DEF DS!Init
  <2>7. wire \in Seq(Messages) /\ pushes \in Seq(Carried)
    BY <2>2 DEF DS!Init
  <2> QED
    BY <2>3, <2>4, <2>5, <2>6, <2>7 DEF SyncType
<1> QED
  BY <1>1 DEF DS!Init, SyncInv, SeenInv, Seen, Versions, Answered, DS!Open, DS!Unopened, DS!Unviewed, DS!Done

\* What a step does to the call that makes it.
LEMMA OneFieldOfCall ==
  ASSUME ask \in [Askers -> CallOfFile], NEW c \in Askers,
         NEW place \in {"idle", "told", "stat", "read", "sync", "expect", "notify", "use", "invalidate"},
         DS!Goto(c, place)
  PROVE  /\ ask' \in [Askers -> CallOfFile] /\ ask'[c].at = place
         /\ ask'[c].op = ask[c].op /\ ask'[c].seen = ask[c].seen /\ ask'[c].text = ask[c].text
         /\ ask'[c].version = ask[c].version
         /\ \A d \in Askers \ {c} : ask'[d] = ask[d]
BY DEF DS!Goto, CallOfFile

LEMMA TwoFieldsOfCall ==
  ASSUME ask \in [Askers -> CallOfFile], NEW c \in Askers, NEW n \in Nat,
         NEW place \in {"idle", "told", "stat", "read", "sync", "expect", "notify", "use", "invalidate"}
  PROVE  /\ ask' = [ask EXCEPT ![c].seen = n, ![c].at = place] =>
              /\ ask' \in [Askers -> CallOfFile] /\ ask'[c].at = place /\ ask'[c].seen = n
              /\ ask'[c].text = ask[c].text /\ ask'[c].version = ask[c].version
              /\ \A d \in Askers \ {c} : ask'[d] = ask[d]
         /\ ask' = [ask EXCEPT ![c].text = n, ![c].at = place] =>
              /\ ask' \in [Askers -> CallOfFile] /\ ask'[c].at = place /\ ask'[c].text = n
              /\ ask'[c].seen = ask[c].seen /\ ask'[c].version = ask[c].version
              /\ \A d \in Askers \ {c} : ask'[d] = ask[d]
         /\ ask' = [ask EXCEPT ![c].version = n, ![c].at = place] =>
              /\ ask' \in [Askers -> CallOfFile] /\ ask'[c].at = place /\ ask'[c].version = n
              /\ ask'[c].seen = ask[c].seen /\ ask'[c].text = ask[c].text
              /\ \A d \in Askers \ {c} : ask'[d] = ask[d]
<1> DEFINE f == [ask EXCEPT ![c].seen = n]
           g == [ask EXCEPT ![c].text = n]
           h == [ask EXCEPT ![c].version = n]
<1>1. /\ f \in [Askers -> CallOfFile] /\ f[c].seen = n /\ f[c].text = ask[c].text /\ f[c].version = ask[c].version
      /\ \A d \in Askers \ {c} : f[d] = ask[d]
  BY DEF CallOfFile
<1>2. /\ g \in [Askers -> CallOfFile] /\ g[c].text = n /\ g[c].seen = ask[c].seen /\ g[c].version = ask[c].version
      /\ \A d \in Askers \ {c} : g[d] = ask[d]
  BY DEF CallOfFile
<1>3. /\ h \in [Askers -> CallOfFile] /\ h[c].version = n /\ h[c].seen = ask[c].seen /\ h[c].text = ask[c].text
      /\ \A d \in Askers \ {c} : h[d] = ask[d]
  BY DEF CallOfFile
<1>4. /\ (ask' = [ask EXCEPT ![c].seen = n, ![c].at = place]) => (ask' = [f EXCEPT ![c].at = place])
      /\ (ask' = [ask EXCEPT ![c].text = n, ![c].at = place]) => (ask' = [g EXCEPT ![c].at = place])
      /\ (ask' = [ask EXCEPT ![c].version = n, ![c].at = place]) => (ask' = [h EXCEPT ![c].at = place])
  OBVIOUS
<1> HIDE DEF f, g, h
<1>5. (ask' = [f EXCEPT ![c].at = place]) =>
              /\ ask' \in [Askers -> CallOfFile] /\ ask'[c].at = place /\ ask'[c].seen = n
              /\ ask'[c].text = ask[c].text /\ ask'[c].version = ask[c].version
              /\ \A d \in Askers \ {c} : ask'[d] = ask[d]
  BY <1>1 DEF CallOfFile
<1>6. (ask' = [g EXCEPT ![c].at = place]) =>
              /\ ask' \in [Askers -> CallOfFile] /\ ask'[c].at = place /\ ask'[c].text = n
              /\ ask'[c].seen = ask[c].seen /\ ask'[c].version = ask[c].version
              /\ \A d \in Askers \ {c} : ask'[d] = ask[d]
  BY <1>2 DEF CallOfFile
<1>7. (ask' = [h EXCEPT ![c].at = place]) =>
              /\ ask' \in [Askers -> CallOfFile] /\ ask'[c].at = place /\ ask'[c].version = n
              /\ ask'[c].seen = ask[c].seen /\ ask'[c].text = ask[c].text
              /\ \A d \in Askers \ {c} : ask'[d] = ask[d]
  BY <1>3 DEF CallOfFile
<1> QED
  BY <1>4, <1>5, <1>6, <1>7

LEMMA ReturnedCall ==
  ASSUME ask \in [Askers -> CallOfFile], NEW c \in Askers, DS!Return(c)
  PROVE  /\ ask' \in [Askers -> CallOfFile] /\ ask'[c].at = "idle"
         /\ \A d \in Askers \ {c} : ask'[d] = ask[d]
BY DEF DS!Return, DS!Done, CallOfFile

LEMMA StartedCall ==
  ASSUME ask \in [Askers -> CallOfFile], NEW c \in Askers, NEW op \in {"ask", "diagnose", "write", "remove"},
         NEW place \in {"stat", "told"}, DS!Starts(c, op, place)
  PROVE  /\ ask' \in [Askers -> CallOfFile] /\ ask'[c].at = place /\ ask[c].at = "idle"
         /\ \A d \in Askers \ {c} : ask'[d] = ask[d]
<1> DEFINE f == [DS!Done EXCEPT !.op = op]
<1>1. f \in CallOfFile
  BY DEF DS!Done, CallOfFile
<1>2. ask' = [ask EXCEPT ![c] = [f EXCEPT !.at = place]] /\ ask[c].at = "idle"
  BY DEF DS!Starts
<1> HIDE DEF f
<1>3. [f EXCEPT !.at = place] \in CallOfFile /\ [f EXCEPT !.at = place].at = place
  BY <1>1 DEF CallOfFile
<1> QED
  BY <1>2, <1>3

\* Steps that send nothing and change no document: the call of c goes to another place.
Quietly(c) ==
  /\ UNCHANGED <<doc, opens, diag, cut, wire, view, pushes>>
  /\ \A d \in Askers \ {c} : ask'[d] = ask[d]
  /\ ask[c].at \notin {"expect", "notify"} /\ ask'[c].at \notin {"expect", "notify"}

LEMMA QuietKeeps ==
  ASSUME SyncInv, NEW c \in Askers, Quietly(c), SyncType', SeenInv'
  PROVE  SyncInv'
<1>1. Versions'
  BY DEF Quietly, SyncInv, Versions, OfDoc, DS!Open
<1>2. Answered'
  BY DEF Quietly, SyncInv, Answered, DS!Open
<1> QED
  BY <1>1, <1>2 DEF SyncInv

LEMMA OutsideKeeps ==
  ASSUME SyncInv, DS!EditedOutside
  PROVE  SyncInv'
<1>1. /\ UNCHANGED <<doc, opens, diag, ask, cut, wire, view, pushes>>
      /\ source' \in Nat /\ contents' \in Nat /\ contents <= contents' /\ (source' = 0 \/ source' = contents + 1)
      /\ source' <= contents'
  BY DEF DS!EditedOutside, DS!Fresh, DS!Gone, SyncInv, SyncType
<1>2. SyncType'
  BY <1>1 DEF SyncInv, SyncType
<1>3. SeenInv'
  <2>1. \A c \in Askers : ask[c].seen \in Nat
    BY DEF SyncInv, SyncType, CallOfFile
  <2> QED
    BY <1>1, <2>1 DEF SyncInv, SyncType, SeenInv, Seen, DS!Open
<1>4. Versions' /\ Answered'
  BY <1>1 DEF SyncInv, Versions, OfDoc, DS!Open, Answered
<1> QED
  BY <1>2, <1>3, <1>4 DEF SyncInv

LEMMA BeginKeeps ==
  ASSUME SyncInv, NEW c \in Askers, DS!Asks(c) \/ DS!Writes(c)
  PROVE  SyncInv'
<1>1. PICK op \in {"ask", "diagnose", "write", "remove"}, place \in {"stat", "told"} : DS!Starts(c, op, place)
  BY DEF DS!Asks, DS!Writes
<1>2. /\ ask' \in [Askers -> CallOfFile] /\ ask'[c].at \in {"stat", "told"} /\ ask[c].at = "idle"
      /\ \A d \in Askers \ {c} : ask'[d] = ask[d]
  BY <1>1, StartedCall DEF SyncInv, SyncType
<1>3. /\ UNCHANGED <<doc, opens, diag, cut, wire, view, pushes>>
      /\ source' \in Nat /\ contents' \in Nat /\ contents <= contents'
      /\ (source' = 0 \/ source' = contents + 1 \/ source' = source) /\ source' <= contents'
  BY SMTT(30) DEF DS!Asks, DS!Writes, DS!Fresh, DS!Gone, SyncInv, SyncType
<1>4. SyncType'
  BY <1>2, <1>3 DEF SyncInv, SyncType
<1>5. SeenInv'
  <2>1. \A d \in Askers : ask[d].seen \in Nat
    BY DEF SyncInv, SyncType, CallOfFile
  <2> QED
    BY <1>2, <1>3, <2>1, SMTT(30) DEF SyncInv, SyncType, SeenInv, Seen, DS!Open
<1> QED
  BY <1>2, <1>3, <1>4, <1>5, QuietKeeps DEF Quietly

LEMMA RemovedKeeps ==
  ASSUME OneAtATime, SyncInv, NEW c \in Askers, DS!FileChanged(c)
  PROVE  SyncInv'
<1>0. ask \in [Askers -> CallOfFile] /\ ask[c].at = "told" /\ UNCHANGED <<source, contents, opens, diag, cut, wire, view, pushes>>
  BY DEF DS!FileChanged, SyncInv, SyncType
<1>1. CASE DS!Return(c) /\ UNCHANGED doc
  <2>1. ask' \in [Askers -> CallOfFile] /\ ask'[c].at = "idle" /\ \A d \in Askers \ {c} : ask'[d] = ask[d]
    BY <1>0, <1>1, ReturnedCall
  <2>2. SyncType' /\ SeenInv'
    BY <1>0, <1>1, <2>1 DEF SyncInv, SyncType, SeenInv, Seen, DS!Open
  <2> QED
    BY <1>0, <1>1, <2>1, <2>2, QuietKeeps DEF Quietly
<1>2. CASE DS!Goto(c, "stat") /\ UNCHANGED doc
  <2>1. ask' \in [Askers -> CallOfFile] /\ ask'[c].at = "stat" /\ \A d \in Askers \ {c} : ask'[d] = ask[d]
    BY <1>0, <1>2, OneFieldOfCall
  <2>2. SyncType' /\ SeenInv'
    BY <1>0, <1>2, <2>1 DEF SyncInv, SyncType, SeenInv, Seen, DS!Open
  <2> QED
    BY <1>0, <1>2, <2>1, <2>2, QuietKeeps DEF Quietly
<1>3. CASE DS!Goto(c, "invalidate") /\ doc' = DS!Unopened
  <2>1. /\ ask' \in [Askers -> CallOfFile] /\ ask'[c].at = "invalidate" /\ ~DS!Open'
        /\ doc' \in [version : Nat, text : Nat, stat : Nat]
    BY <1>0, <1>3, OneFieldOfCall DEF DS!Open, DS!Unopened
  <2>2. \A d \in Askers : d = c
    BY DEF OneAtATime
  <2>3. SyncType'
    BY <1>0, <2>1 DEF SyncInv, SyncType
  <2>4. SeenInv'
    BY <2>1, <2>2 DEF SeenInv, Seen
  <2>5. Versions'
    BY <1>0, <2>1 DEF SyncInv, Versions, OfDoc
  <2>6. Answered'
    BY <1>0, <2>1 DEF SyncInv, Answered
  <2> QED
    BY <2>3, <2>4, <2>5, <2>6 DEF SyncInv
<1> QED
  BY <1>1, <1>2, <1>3 DEF DS!FileChanged

LEMMA LookKeeps ==
  ASSUME SyncInv, NEW c \in Askers, DS!Stat(c) \/ DS!Read(c)
  PROVE  SyncInv'
<1>0. /\ ask \in [Askers -> CallOfFile] /\ source \in Nat /\ ask[c].at \in {"stat", "read"}
      /\ UNCHANGED <<source, contents, doc, opens, diag, cut, wire, view, pushes>>
  BY DEF DS!Stat, DS!Read, SyncInv, SyncType
<1>1. CASE DS!Return(c)
  <2>1. ask' \in [Askers -> CallOfFile] /\ ask'[c].at = "idle" /\ \A d \in Askers \ {c} : ask'[d] = ask[d]
    BY <1>0, <1>1, ReturnedCall
  <2>2. SyncType' /\ SeenInv'
    BY <1>0, <2>1 DEF SyncInv, SyncType, SeenInv, Seen, DS!Open
  <2> QED
    BY <1>0, <2>1, <2>2, QuietKeeps DEF Quietly
<1>2. ASSUME NEW place \in {"use", "read"}, ask[c].at = "stat", ask' = [ask EXCEPT ![c].seen = source, ![c].at = place],
             place = "use" => DS!Unchanged(source)
      PROVE  SyncInv'
  <2>1. /\ ask' \in [Askers -> CallOfFile] /\ ask'[c].at = place /\ ask'[c].seen = source
        /\ \A d \in Askers \ {c} : ask'[d] = ask[d]
    BY <1>0, <1>2, TwoFieldsOfCall, ZenonT(60)
  <2>2. place = "use" => DS!Open /\ source <= doc.text
    BY <1>2 DEF DS!Unchanged, SyncInv, SeenInv
  <2>3. SyncType' /\ SeenInv'
    BY <1>0, <2>1, <2>2 DEF SyncInv, SyncType, SeenInv, Seen, DS!Open
  <2> QED
    BY <1>0, <2>1, <2>3, QuietKeeps DEF Quietly
<1>3. CASE source # 0 /\ ask[c].at = "read" /\ ask' = [ask EXCEPT ![c].text = source, ![c].at = "sync"]
  <2>1. /\ ask' \in [Askers -> CallOfFile] /\ ask'[c].at = "sync" /\ ask'[c].text = source /\ ask'[c].seen = ask[c].seen
        /\ \A d \in Askers \ {c} : ask'[d] = ask[d]
    BY <1>0, <1>3, TwoFieldsOfCall, ZenonT(60)
  <2>2. SyncType' /\ SeenInv'
    BY <1>0, <1>3, <2>1 DEF SyncInv, SyncType, SeenInv, Seen, DS!Open
  <2> QED
    BY <1>0, <2>1, <2>2, QuietKeeps DEF Quietly
<1>4. CASE DS!Stat(c)
  <2>1. CASE source = 0
    BY <1>1, <1>4, <2>1 DEF DS!Stat
  <2>2. CASE DS!Unchanged(source) /\ source # 0
    BY <1>2, <1>4, <2>2 DEF DS!Stat
  <2>3. CASE ~DS!Unchanged(source) /\ source # 0
    BY <1>2, <1>4, <2>3 DEF DS!Stat
  <2> QED
    BY <2>1, <2>2, <2>3
<1> QED
  BY <1>1, <1>3, <1>4 DEF DS!Read

\* The document moves on before its message is sent: a new life, or a new version.
LEMMA SyncKeeps ==
  ASSUME OneAtATime, SyncInv, NEW c \in Askers, DS!Sync(c)
  PROVE  SyncInv'
<1>0. /\ ask \in [Askers -> CallOfFile] /\ ask[c].at = "sync" /\ ask[c].seen <= ask[c].text
      /\ UNCHANGED <<source, contents, diag, cut, wire, view, pushes>>
      /\ doc.version \in Nat /\ opens \in Nat /\ ask[c].text \in Nat /\ ask[c].seen \in Nat
  BY DEF DS!Sync, SyncInv, SyncType, SeenInv, Seen, CallOfFile
<1>1. CASE DS!Open /\ doc.text = ask[c].text /\ DS!Goto(c, "use") /\ UNCHANGED <<doc, opens>>
  <2>1. /\ ask' \in [Askers -> CallOfFile] /\ ask'[c].at = "use" /\ ask'[c].seen = ask[c].seen
        /\ \A d \in Askers \ {c} : ask'[d] = ask[d]
    BY <1>0, <1>1, OneFieldOfCall
  <2>2. SyncType' /\ SeenInv'
    BY <1>0, <1>1, <2>1 DEF SyncInv, SyncType, SeenInv, Seen, DS!Open
  <2> QED
    BY <1>0, <1>1, <2>1, <2>2, QuietKeeps DEF Quietly
<1>2. CASE /\ doc' = [version |-> doc.version + 1, text |-> ask[c].text, stat |-> ask[c].seen]
           /\ opens' = IF DS!Open THEN opens ELSE opens + 1
           /\ ask' = [ask EXCEPT ![c].version = doc.version + 1, ![c].at = "expect"]
  <2>1. /\ ask' \in [Askers -> CallOfFile] /\ ask'[c].at = "expect" /\ ask'[c].version = doc.version + 1
        /\ ask'[c].seen = ask[c].seen /\ ask'[c].text = ask[c].text
    <3>1. doc.version + 1 \in Nat
      BY <1>0
    <3> QED
      BY <1>0, <1>2, <3>1, TwoFieldsOfCall, ZenonT(60)
  <2>2. /\ doc'.version = doc.version + 1 /\ doc'.text = ask[c].text /\ doc'.stat = ask[c].seen
        /\ doc' \in [version : Nat, text : Nat, stat : Nat] /\ DS!Open' /\ opens' \in Nat
    BY <1>0, <1>2 DEF DS!Open
  <2>3. \A d \in Askers : d = c
    BY DEF OneAtATime
  <2>4. SyncType'
    BY <1>0, <2>1, <2>2 DEF SyncInv, SyncType
  <2>5. SeenInv'
    BY <1>0, <2>1, <2>2, <2>3 DEF SeenInv, Seen
  <2>6. ASSUME NEW x, x.version \in Nat, x.life \in Nat, OfDoc(x)
        PROVE  /\ x.life <= opens'
               /\ x.life = opens' => x.version <= doc'.version /\ (x.version = doc'.version => x.text = doc'.text)
    BY <1>0, <1>2, <2>2, <2>6 DEF OfDoc, DS!Open
  <2>7. Versions'
    <3>1. \A i \in DOMAIN wire : wire[i].version \in Nat /\ wire[i].life \in Nat
      BY MessagesTyped DEF Messages
    <3>3. \A i \in DOMAIN pushes : pushes[i].version \in Nat /\ pushes[i].life \in Nat
      BY MessagesTyped DEF Carried
    <3>4. view.version \in Nat /\ view.life \in Nat /\ diag.version \in Nat /\ diag.life \in Nat
      BY DEF SyncInv, SyncType, Carried
    <3>2. ask'[c].at = "expect"
      BY <2>1
    <3> QED
      BY <1>0, <2>6, <3>1, <3>2, <3>3, <3>4 DEF SyncInv, Versions, OfDoc
  <2>8. Answered'
    BY <1>0, <2>1 DEF SyncInv, Answered
  <2> QED
    BY <2>4, <2>5, <2>7, <2>8 DEF SyncInv
<1> QED
  BY <1>1, <1>2 DEF DS!Sync

LEMMA ExpectKeeps ==
  ASSUME OneAtATime, SyncInv, NEW c \in Askers, DS!Expect(c)
  PROVE  SyncInv'
<1>1. /\ ask' \in [Askers -> CallOfFile] /\ ask'[c].at = "notify" /\ ask[c].at = "expect"
      /\ ask'[c].seen = ask[c].seen /\ ask'[c].text = ask[c].text /\ ask'[c].version = ask[c].version
      /\ UNCHANGED <<source, contents, doc, opens, cut, wire, view, pushes>>
  BY OneFieldOfCall DEF DS!Expect, SyncInv, SyncType
<1>2. /\ diag' \in [awaited : Nat, version : Nat, text : Nat, life : Nat]
      /\ diag'.awaited = ask[c].version /\ diag'.version = diag.version /\ diag'.text = diag.text /\ diag'.life = diag.life
  BY DEF DS!Expect, DS!Awaited, SyncInv, SyncType, CallOfFile
<1>3. \A d \in Askers : d = c
  BY DEF OneAtATime
<1>4. SyncType'
  BY <1>1, <1>2 DEF SyncInv, SyncType
<1>5. SeenInv'
  BY <1>1, <1>3 DEF SyncInv, SeenInv, Seen, DS!Open
<1>6. Versions'
  <2>1. ask[c].version = doc.version
    BY <1>1 DEF SyncInv, SeenInv, Seen
  <2> QED
    BY <1>1, <1>2, <2>1 DEF SyncInv, Versions, OfDoc, DS!Open
<1>7. Answered'
  BY <1>1 DEF SyncInv, Answered, DS!Open
<1> QED
  BY <1>4, <1>5, <1>6, <1>7 DEF SyncInv

\* A message more at the end, or the first one gone.
LEMMA OpenAtAppend ==
  ASSUME NEW w \in Seq(Messages), NEW v, NEW m, NEW i \in 1 .. Len(w) + 1, NEW n
  PROVE  OpenAt(w, v, i, n) => OpenAt(Append(w, m), v, i, n)
<1>1. \A k \in 1 .. Len(w) : Append(w, m)[k] = w[k]
  OBVIOUS
<1>2. \A k \in 1 .. i - 1 : k \in 1 .. Len(w)
  OBVIOUS
<1>3. \A j \in 1 .. i - 1 : \A k \in j + 1 .. i - 1 : k \in 1 .. Len(w)
  OBVIOUS
<1> QED
  BY <1>1, <1>2, <1>3 DEF OpenAt

LEMMA AppendedQuietly ==
  ASSUME NEW w \in Seq(Messages), NEW v, NEW m \in Messages, ~Tells(m), NEW n
  PROVE  OpenAt(w, v, Len(w) + 1, n) => OpenAt(Append(w, m), v, Len(w) + 2, n)
<1>1. (\A k \in 1 .. Len(w) : Append(w, m)[k] = w[k]) /\ Append(w, m)[Len(w) + 1] = m
  OBVIOUS
<1>2. CASE v.version > 0 /\ n <= v.text /\ \A k \in 1 .. Len(w) : ~Tells(w[k])
  <2>1. \A k \in 1 .. Len(w) + 1 : ~Tells(Append(w, m)[k])
    BY <1>1, <1>2
  <2> QED
    BY <1>2, <2>1 DEF OpenAt
<1>3. ASSUME NEW j \in 1 .. Len(w), Speaks(w[j]), w[j].version > 0, n <= w[j].text,
             \A k \in j + 1 .. Len(w) : ~Tells(w[k])
      PROVE  OpenAt(Append(w, m), v, Len(w) + 2, n)
  <2>1. \A k \in j + 1 .. Len(w) + 1 : ~Tells(Append(w, m)[k])
    BY <1>1, <1>3
  <2>2. j \in 1 .. (Len(w) + 2) - 1 /\ Append(w, m)[j] = w[j]
    BY <1>1
  <2> QED
    BY <1>3, <2>1, <2>2 DEF OpenAt
<1> QED
  BY <1>2, <1>3 DEF OpenAt

\* A message about the document reaches the server after all others.
LEMMA AppendedSpeaks ==
  ASSUME NEW w \in Seq(Messages), NEW v, NEW m \in Messages, Speaks(m), m.version > 0, NEW n, n <= m.text
  PROVE  OpenAt(Append(w, m), v, Len(w) + 2, n)
<1>1. Append(w, m)[Len(w) + 1] = m
  OBVIOUS
<1>2. Len(w) + 1 \in 1 .. (Len(w) + 2) - 1 /\ \A k \in (Len(w) + 1) + 1 .. (Len(w) + 2) - 1 : FALSE
  OBVIOUS
<1> QED
  BY <1>1, <1>2 DEF OpenAt

\* What is in the wire stays answered when a message follows.
LEMMA AppendKeeps ==
  ASSUME SyncInv, NEW m \in Messages, wire' = Append(wire, m), view' = view, ~cut',
         cut = FALSE, Speaks(m) => m.version > 0, m.kind = "request" => OpenAt(wire, view, Len(wire) + 1, m.text)
  PROVE  /\ \A i \in DOMAIN wire' : Speaks(wire'[i]) => wire'[i].version > 0
         /\ \A i \in DOMAIN wire' : wire'[i].kind = "request" => OpenAt(wire', view', i, wire'[i].text)
         /\ Len(wire') = Len(wire) + 1
<1>1. wire \in Seq(Messages)
  BY DEF SyncInv, SyncType
<1>2. /\ DOMAIN wire' = 1 .. Len(wire) + 1 /\ DOMAIN wire = 1 .. Len(wire) /\ Len(wire') = Len(wire) + 1
      /\ wire'[Len(wire) + 1] = m /\ \A i \in 1 .. Len(wire) : wire'[i] = wire[i]
  BY <1>1
<1>3. \A i \in 1 .. Len(wire) + 1 : i \in 1 .. Len(wire) \/ i = Len(wire) + 1
  BY <1>1
<1>4. ASSUME NEW i \in 1 .. Len(wire) + 1, NEW n, OpenAt(wire, view, i, n)
      PROVE  OpenAt(wire', view', i, n)
  BY <1>1, <1>4, OpenAtAppend
<1>5. \A i \in 1 .. Len(wire) : wire[i].kind = "request" => OpenAt(wire, view, i, wire[i].text)
  BY <1>2 DEF SyncInv, Answered
<1>6. \A i \in 1 .. Len(wire) : i \in 1 .. Len(wire) + 1
  BY <1>1
<1>7. Len(wire) + 1 \in 1 .. Len(wire) + 1
  BY <1>1
<1>8. \A i \in DOMAIN wire' : wire'[i].kind = "request" => OpenAt(wire', view', i, wire'[i].text)
  BY <1>2, <1>3, <1>4, <1>5, <1>6, <1>7
<1>9. \A i \in DOMAIN wire' : Speaks(wire'[i]) => wire'[i].version > 0
  BY <1>2, <1>3 DEF SyncInv, Answered
<1> QED
  BY <1>2, <1>8, <1>9

LEMMA SendVersions ==
  ASSUME SyncInv, NEW m \in Messages, wire' = Append(wire, m), Speaks(m) => OfDoc(m),
         UNCHANGED <<doc, opens, view, pushes>>
  PROVE  (/\ \A i \in DOMAIN wire : Speaks(wire[i]) => OfDoc(wire[i])
          /\ \A i \in DOMAIN pushes : OfDoc(pushes[i])
          /\ view.version > 0 => OfDoc(view))'
<1>1. wire \in Seq(Messages)
  BY DEF SyncInv, SyncType
<1>2. /\ DOMAIN wire' = 1 .. Len(wire) + 1 /\ DOMAIN wire = 1 .. Len(wire)
      /\ wire'[Len(wire) + 1] = m /\ \A i \in 1 .. Len(wire) : wire'[i] = wire[i]
      /\ \A i \in 1 .. Len(wire) + 1 : i \in 1 .. Len(wire) \/ i = Len(wire) + 1
  BY <1>1
<1>3. \A i \in DOMAIN wire' : Speaks(wire'[i]) => OfDoc(wire'[i])
  BY <1>2 DEF SyncInv, Versions
<1> QED
  BY <1>3 DEF SyncInv, Versions, OfDoc, DS!Open

LEMMA NotifyKeeps ==
  ASSUME OneAtATime, SyncInv, NEW c \in Askers, DS!Notify(c)
  PROVE  SyncInv'
<1>0. /\ ask \in [Askers -> CallOfFile] /\ ask[c].at = "notify" /\ UNCHANGED <<source, contents, doc, opens, diag, view, pushes>>
      /\ DS!Open /\ ask[c].version = doc.version /\ ask[c].text = doc.text /\ ask[c].seen <= doc.text
      /\ doc.version \in Nat /\ doc.text \in Nat /\ opens \in Nat
  BY DEF DS!Notify, SyncInv, SyncType, SeenInv, Seen
<1>1. \A d \in Askers : d = c
  BY DEF OneAtATime
<1>2. CASE DS!Return(c) /\ cut' = TRUE /\ UNCHANGED wire
  <2>1. ask' \in [Askers -> CallOfFile] /\ ask'[c].at = "idle" /\ \A d \in Askers \ {c} : ask'[d] = ask[d]
    BY <1>0, <1>2, ReturnedCall
  <2>2. SyncType' /\ SeenInv'
    BY <1>0, <1>2, <2>1 DEF SyncInv, SyncType, SeenInv, Seen, DS!Open
  <2>3. Versions'
    <3>1. ask[c].at # "expect" /\ ask'[c].at # "expect"
      BY <1>0, <2>1
    <3> QED
      BY <1>0, <1>1, <1>2, <3>1 DEF SyncInv, Versions, OfDoc, DS!Open
  <2>4. Answered'
    BY <1>2 DEF SyncInv, Answered
  <2> QED
    BY <2>2, <2>3, <2>4 DEF SyncInv
<1>3. ASSUME NEW kind \in {"open", "change"}, DS!Goto(c, "use"), UNCHANGED cut,
             wire' = Append(wire, DS!Message(kind, ask[c].version, ask[c].text))
      PROVE  SyncInv'
  <2> DEFINE m == DS!Message(kind, ask[c].version, ask[c].text)
  <2>1. m \in Messages /\ Speaks(m) /\ Tells(m) /\ OfDoc(m) /\ m.version > 0 /\ m.text = doc.text /\ m.kind # "request"
    BY <1>0 DEF DS!Message, Messages, Speaks, Tells, OfDoc, DS!Open, Kinds
  <2>2. /\ ask' \in [Askers -> CallOfFile] /\ ask'[c].at = "use" /\ ask'[c].seen = ask[c].seen
        /\ \A d \in Askers \ {c} : ask'[d] = ask[d]
    BY <1>0, <1>3, OneFieldOfCall
  <2>3. wire' = Append(wire, m) /\ wire \in Seq(Messages)
    BY <1>3 DEF SyncInv, SyncType
  <2> HIDE DEF m
  <2>4. wire' \in Seq(Messages)
    BY <2>1, <2>3
  <2>5. SyncType'
    BY <1>0, <1>3, <2>2, <2>4 DEF SyncInv, SyncType
  <2>6. SeenInv'
    BY <1>0, <1>1, <2>2 DEF SyncInv, SeenInv, Seen, DS!Open
  <2>7. Versions'
    <3>1. ask[c].at # "expect" /\ ask'[c].at # "expect"
      BY <1>0, <2>2
    <3>2. (/\ \A i \in DOMAIN wire : Speaks(wire[i]) => OfDoc(wire[i])
           /\ \A i \in DOMAIN pushes : OfDoc(pushes[i])
           /\ view.version > 0 => OfDoc(view))'
      BY <1>0, <2>1, <2>3, SendVersions
    <3>3. (diag.version > 0 => OfDoc(diag))'
      BY <1>0 DEF SyncInv, Versions, OfDoc, DS!Open
    <3>4. diag'.awaited = doc'.version
      BY <1>0, <1>1, <3>1 DEF SyncInv, Versions
    <3> QED
      BY <3>2, <3>3, <3>4 DEF Versions
  <2>8. Answered'
    <3>1. CASE ~cut
      <4>1. /\ \A i \in DOMAIN wire' : Speaks(wire'[i]) => wire'[i].version > 0
            /\ \A i \in DOMAIN wire' : wire'[i].kind = "request" => OpenAt(wire', view', i, wire'[i].text)
            /\ Len(wire') = Len(wire) + 1
        BY <1>0, <1>3, <2>1, <2>3, <3>1, AppendKeeps DEF SyncInv, SyncType
      <4>2. OpenAt(wire', view', Len(wire) + 2, doc.text)
        <5>1. doc.text <= m.text
          BY <1>0, <2>1
        <5> QED
          BY <2>1, <2>3, <5>1, AppendedSpeaks
      <4>3. Len(wire') + 1 = Len(wire) + 2
        BY <2>3, <4>1
      <4> QED
        BY <1>0, <4>1, <4>2, <4>3 DEF Answered
    <3>2. CASE cut
      <4>1. \A i \in DOMAIN wire' : (i \in DOMAIN wire /\ wire'[i] = wire[i]) \/ wire'[i] = m
        BY <2>3
      <4>2. \A i \in DOMAIN wire' : Speaks(wire'[i]) => wire'[i].version > 0
        BY <2>1, <4>1 DEF SyncInv, Answered
      <4> QED
        BY <1>3, <3>2, <4>2 DEF Answered
    <3> QED
      BY <3>1, <3>2
  <2> QED
    BY <2>5, <2>6, <2>7, <2>8 DEF SyncInv
<1>4. CASE ask[c].version = 1
  BY <1>2, <1>3, <1>4 DEF DS!Notify
<1>5. CASE ask[c].version # 1
  BY <1>2, <1>3, <1>5 DEF DS!Notify
<1> QED
  BY <1>4, <1>5

LEMMA OpenAtOlder ==
  ASSUME NEW w \in Seq(Messages), NEW v \in Carried, NEW i \in Nat, NEW n \in Nat, NEW k \in Nat, k <= n, i <= Len(w) + 1
  PROVE  OpenAt(w, v, i, n) => OpenAt(w, v, i, k)
<1>1. v.text \in Nat /\ \A j \in 1 .. i - 1 : w[j] \in Messages
  BY DEF Carried
<1>2. \A j \in 1 .. i - 1 : w[j].text \in Nat
  BY <1>1 DEF Messages
<1>3. (n <= v.text => k <= v.text) /\ \A j \in 1 .. i - 1 : n <= w[j].text => k <= w[j].text
  BY <1>1, <1>2
<1> QED
  BY <1>3 DEF OpenAt

LEMMA UseKeeps ==
  ASSUME OneAtATime, SyncInv, NEW c \in Askers, DS!Use(c)
  PROVE  SyncInv'
<1>0. /\ ask \in [Askers -> CallOfFile] /\ ask[c].at = "use" /\ DS!Return(c)
      /\ UNCHANGED <<source, contents, doc, opens, diag, cut, view, pushes>>
      /\ DS!Open /\ ask[c].seen <= doc.text /\ ask[c].seen \in Nat
      /\ doc.version \in Nat /\ doc.text \in Nat /\ opens \in Nat /\ wire \in Seq(Messages) /\ view \in Carried
  BY DEF DS!Use, SyncInv, SyncType, SeenInv, Seen, CallOfFile
<1>1. \A d \in Askers : d = c
  BY DEF OneAtATime
<1>2. ask' \in [Askers -> CallOfFile] /\ ask'[c].at = "idle" /\ \A d \in Askers \ {c} : ask'[d] = ask[d]
  BY <1>0, ReturnedCall
<1>3. CASE wire' = wire
  <2>1. SyncType' /\ SeenInv'
    BY <1>0, <1>2, <1>3 DEF SyncInv, SyncType, SeenInv, Seen, DS!Open
  <2> QED
    BY <1>0, <1>2, <1>3, <2>1, QuietKeeps DEF Quietly
<1>4. ASSUME NEW kind \in {"request", "save"}, NEW n \in Nat, n <= doc.text, wire' = Append(wire, DS!Message(kind, 0, n))
      PROVE  SyncInv'
  <2> DEFINE m == DS!Message(kind, 0, n)
  <2>1. m \in Messages /\ ~Speaks(m) /\ ~Tells(m) /\ m.text = n
    BY <1>0, <1>4 DEF DS!Message, Messages, Speaks, Tells, Kinds
  <2>2. wire' = Append(wire, m)
    BY <1>4
  <2> HIDE DEF m
  <2>3. wire' \in Seq(Messages)
    BY <1>0, <2>1, <2>2
  <2>4. SyncType'
    BY <1>0, <1>2, <2>3 DEF SyncInv, SyncType
  <2>5. SeenInv'
    BY <1>0, <1>1, <1>2 DEF SyncInv, SeenInv, Seen, DS!Open
  <2>6. Versions'
    <3>1. ask[c].at # "expect" /\ ask'[c].at # "expect"
      BY <1>0, <1>2
    <3>2. (/\ \A i \in DOMAIN wire : Speaks(wire[i]) => OfDoc(wire[i])
           /\ \A i \in DOMAIN pushes : OfDoc(pushes[i])
           /\ view.version > 0 => OfDoc(view))'
      BY <1>0, <2>1, <2>2, SendVersions
    <3>3. (diag.version > 0 => OfDoc(diag))'
      BY <1>0 DEF SyncInv, Versions, OfDoc, DS!Open
    <3>4. diag'.awaited = doc'.version
      BY <1>0, <1>1, <3>1 DEF SyncInv, Versions
    <3> QED
      BY <3>2, <3>3, <3>4 DEF Versions
  <2>7. Answered'
    <3>1. CASE ~cut
      <4>1. OpenAt(wire, view, Len(wire) + 1, doc.text)
        BY <1>0, <1>1, <3>1 DEF SyncInv, Answered
      <4>2. OpenAt(wire, view, Len(wire) + 1, m.text)
        <5>1. Len(wire) + 1 \in Nat /\ Len(wire) + 1 <= Len(wire) + 1
          BY <1>0
        <5> QED
          BY <1>0, <1>4, <2>1, <4>1, <5>1, OpenAtOlder
      <4>3. /\ \A i \in DOMAIN wire' : Speaks(wire'[i]) => wire'[i].version > 0
            /\ \A i \in DOMAIN wire' : wire'[i].kind = "request" => OpenAt(wire', view', i, wire'[i].text)
            /\ Len(wire') = Len(wire) + 1
        BY <1>0, <2>1, <2>2, <3>1, <4>2, AppendKeeps DEF SyncInv, SyncType
      <4>4. OpenAt(wire', view', Len(wire) + 2, doc.text)
        BY <1>0, <2>1, <2>2, <4>1, AppendedQuietly
      <4>5. Len(wire') + 1 = Len(wire) + 2
        BY <1>0, <4>3
      <4> QED
        BY <1>0, <4>3, <4>4, <4>5 DEF Answered
    <3>2. CASE cut
      <4>1. \A i \in DOMAIN wire' : (i \in DOMAIN wire /\ wire'[i] = wire[i]) \/ wire'[i] = m
        BY <1>0, <2>2
      <4>2. \A i \in DOMAIN wire' : Speaks(wire'[i]) => wire'[i].version > 0
        BY <2>1, <4>1 DEF SyncInv, Answered
      <4> QED
        BY <1>0, <3>2, <4>2 DEF Answered
    <3> QED
      BY <3>1, <3>2
  <2> QED
    BY <2>4, <2>5, <2>6, <2>7 DEF SyncInv
<1>5. doc.text <= doc.text
  BY <1>0
<1>6. CASE ask[c].op = "ask"
  BY <1>0, <1>4, <1>6 DEF DS!Use
<1>7. CASE ask[c].op = "write"
  BY <1>0, <1>4, <1>5, <1>7 DEF DS!Use
<1> QED
  BY <1>3, <1>6, <1>7 DEF DS!Use

LEMMA InvalidateKeeps ==
  ASSUME OneAtATime, SyncInv, NEW c \in Askers, DS!Invalidate(c)
  PROVE  SyncInv'
<1>0. /\ ask \in [Askers -> CallOfFile] /\ ask[c].at = "invalidate" /\ DS!Return(c) /\ ~DS!Open
      /\ UNCHANGED <<source, contents, doc, opens, cut, view, pushes>> /\ diag' = DS!Reset
      /\ opens \in Nat /\ wire \in Seq(Messages)
  BY DEF DS!Invalidate, SyncInv, SyncType, SeenInv, Seen
<1>1. \A d \in Askers : d = c
  BY DEF OneAtATime
<1>2. ask' \in [Askers -> CallOfFile] /\ ask'[c].at = "idle" /\ ~DS!Open'
  BY <1>0, ReturnedCall DEF DS!Open
<1>3. diag' \in [awaited : Nat, version : Nat, text : Nat, life : Nat] /\ diag'.version = 0
  <2> DEFINE f == [diag EXCEPT !.version = 0]
             g == [f EXCEPT !.text = 0]
  <2>1. f \in [awaited : Nat, version : Nat, text : Nat, life : Nat] /\ f.version = 0
    BY DEF SyncInv, SyncType
  <2>2. diag' = [g EXCEPT !.life = 0]
    BY <1>0 DEF DS!Reset
  <2> HIDE DEF f
  <2>3. g \in [awaited : Nat, version : Nat, text : Nat, life : Nat] /\ g.version = 0
    BY <2>1
  <2> HIDE DEF g
  <2> QED
    BY <2>2, <2>3
<1> DEFINE m == DS!Message("close", 0, 0)
<1>4. m \in Messages /\ ~Speaks(m) /\ m.kind = "close"
  BY <1>0 DEF DS!Message, Messages, Speaks, Kinds
<1>5. wire' = Append(wire, m)
  BY DEF DS!Invalidate
<1> HIDE DEF m
<1>6. wire' \in Seq(Messages)
  BY <1>0, <1>4, <1>5
<1>7. SyncType'
  BY <1>0, <1>2, <1>3, <1>6 DEF SyncInv, SyncType
<1>8. SeenInv'
  BY <1>1, <1>2 DEF SeenInv, Seen
<1>9. Versions'
  <2>1. (/\ \A i \in DOMAIN wire : Speaks(wire[i]) => OfDoc(wire[i])
         /\ \A i \in DOMAIN pushes : OfDoc(pushes[i])
         /\ view.version > 0 => OfDoc(view))'
    BY <1>0, <1>4, <1>5, SendVersions
  <2> QED
    BY <1>2, <1>3, <2>1 DEF Versions
<1>10. Answered'
  <2>1. CASE ~cut
    <3>1. /\ \A i \in DOMAIN wire' : Speaks(wire'[i]) => wire'[i].version > 0
          /\ \A i \in DOMAIN wire' : wire'[i].kind = "request" => OpenAt(wire', view', i, wire'[i].text)
      BY <1>0, <1>4, <1>5, <2>1, AppendKeeps DEF SyncInv, SyncType
    <3> QED
      BY <1>2, <3>1 DEF Answered
  <2>2. CASE cut
    <3>1. \A i \in DOMAIN wire' : (i \in DOMAIN wire /\ wire'[i] = wire[i]) \/ wire'[i] = m
      BY <1>0, <1>5
    <3>2. \A i \in DOMAIN wire' : Speaks(wire'[i]) => wire'[i].version > 0
      BY <1>4, <3>1 DEF SyncInv, Answered
    <3> QED
      BY <1>0, <2>2, <3>2 DEF Answered
  <2> QED
    BY <2>1, <2>2
<1> QED
  BY <1>7, <1>8, <1>9, <1>10 DEF SyncInv

\* The server takes the first message; the others move up.
LEMMA TakenFirst ==
  ASSUME NEW w \in Seq(Messages), w # <<>>, NEW v, NEW u, NEW i \in 1 .. Len(w), NEW n, OpenAt(w, v, i + 1, n),
         Speaks(w[1]) => u = [version |-> w[1].version, text |-> w[1].text, life |-> w[1].life],
         ~Tells(w[1]) => u = v
  PROVE  OpenAt(Tail(w), u, i, n)
<1>1. \A k \in 1 .. i - 1 : Tail(w)[k] = w[k + 1] /\ k + 1 \in 1 .. (i + 1) - 1
  OBVIOUS
<1>2. CASE v.version > 0 /\ n <= v.text /\ \A k \in 1 .. (i + 1) - 1 : ~Tells(w[k])
  <2>1. u = v
    BY <1>2
  <2>2. \A k \in 1 .. i - 1 : ~Tells(Tail(w)[k])
    BY <1>1, <1>2
  <2> QED
    BY <1>2, <2>1, <2>2 DEF OpenAt
<1>3. ASSUME NEW j \in 1 .. (i + 1) - 1, Speaks(w[j]), w[j].version > 0, n <= w[j].text,
             \A k \in j + 1 .. (i + 1) - 1 : ~Tells(w[k])
      PROVE  OpenAt(Tail(w), u, i, n)
  <2>1. CASE j = 1
    <3>1. u.version > 0 /\ n <= u.text
      BY <1>3, <2>1
    <3>2. \A k \in 1 .. i - 1 : k + 1 \in j + 1 .. (i + 1) - 1
      BY <2>1
    <3>3. \A k \in 1 .. i - 1 : ~Tells(Tail(w)[k])
      BY <1>1, <1>3, <3>2
    <3> QED
      BY <3>1, <3>3 DEF OpenAt
  <2>2. CASE j # 1
    <3>1. j - 1 \in 1 .. i - 1 /\ Tail(w)[j - 1] = w[j]
      BY <2>2
    <3>2. \A k \in (j - 1) + 1 .. i - 1 : k \in 1 .. i - 1 /\ k + 1 \in j + 1 .. (i + 1) - 1
      BY <2>2
    <3>3. \A k \in (j - 1) + 1 .. i - 1 : ~Tells(Tail(w)[k])
      BY <1>1, <1>3, <3>2
    <3> QED
      BY <1>3, <3>1, <3>3 DEF OpenAt
  <2> QED
    BY <2>1, <2>2
<1> QED
  BY <1>2, <1>3 DEF OpenAt

LEMMA TakesKeeps ==
  ASSUME SyncInv, DS!ServerTakes
  PROVE  SyncInv'
<1>0. /\ wire \in Seq(Messages) /\ wire # <<>> /\ wire' = Tail(wire)
      /\ view \in Carried /\ pushes \in Seq(Carried)
      /\ UNCHANGED <<source, contents, doc, opens, diag, ask, cut>>
  BY DEF DS!ServerTakes, SyncInv, SyncType
<1>1. /\ Head(wire) = wire[1] /\ 1 \in DOMAIN wire /\ wire[1] \in Messages /\ wire' \in Seq(Messages)
      /\ DOMAIN wire' = 1 .. Len(wire) - 1 /\ DOMAIN wire = 1 .. Len(wire) /\ Len(wire') = Len(wire) - 1
      /\ \A i \in 1 .. Len(wire) - 1 : wire'[i] = wire[i + 1] /\ i + 1 \in 1 .. Len(wire)
  BY <1>0
<1>2. /\ Speaks(wire[1]) => view' = [version |-> wire[1].version, text |-> wire[1].text, life |-> wire[1].life]
      /\ ~Tells(wire[1]) => view' = view
      /\ view' \in Carried
      /\ view' = view \/ view' = DS!Unviewed \/ Speaks(wire[1])
  BY <1>0, <1>1 DEF DS!ServerTakes, Speaks, Tells, Messages, Carried, DS!Unviewed
<1>3. pushes' \in Seq(Carried) /\ (pushes' = pushes \/ (Speaks(wire[1]) /\ pushes' = Append(pushes, view')))
  BY <1>0, <1>1, <1>2 DEF DS!ServerTakes, Speaks
<1>4. SyncType'
  BY <1>0, <1>1, <1>2, <1>3 DEF SyncInv, SyncType
<1>5. SeenInv'
  BY <1>0 DEF SyncInv, SeenInv, Seen, DS!Open
<1>6. Versions'
  <2>1. Speaks(wire[1]) => OfDoc(wire[1])
    BY <1>1 DEF SyncInv, Versions
  <2>2. Speaks(wire[1]) => OfDoc(view)'
    BY <1>0, <1>2, <2>1 DEF OfDoc, DS!Open
  <2>3. (view.version > 0 => OfDoc(view))'
    BY <1>0, <1>2, <2>2 DEF SyncInv, Versions, DS!Unviewed, OfDoc, DS!Open
  <2>4. (\A i \in DOMAIN wire : Speaks(wire[i]) => OfDoc(wire[i]))'
    BY <1>0, <1>1 DEF SyncInv, Versions, OfDoc, DS!Open
  <2>5. (\A i \in DOMAIN pushes : OfDoc(pushes[i]))'
    <3>1. \A i \in DOMAIN pushes' : (i \in DOMAIN pushes /\ pushes'[i] = pushes[i]) \/ (Speaks(wire[1]) /\ pushes'[i] = view')
      BY <1>0, <1>3, SMTT(30)
    <3>2. \A i \in DOMAIN pushes : pushes[i].life <= opens /\ OfDoc(pushes[i])
      BY DEF SyncInv, Versions, OfDoc
    <3> QED
      BY <1>0, <2>2, <3>1, <3>2 DEF OfDoc, DS!Open
  <2>6. (/\ diag.version > 0 => OfDoc(diag)
         /\ DS!Open /\ (\A c \in Askers : ask[c].at # "expect") => diag.awaited = doc.version)'
    BY <1>0 DEF SyncInv, Versions, OfDoc, DS!Open
  <2> QED
    BY <2>3, <2>4, <2>5, <2>6 DEF Versions
<1>7. Answered'
  <2>1. \A i \in DOMAIN wire' : Speaks(wire'[i]) => wire'[i].version > 0
    BY <1>1 DEF SyncInv, Answered
  <2>2. ASSUME NEW i \in 1 .. Len(wire), NEW n, OpenAt(wire, view, i + 1, n)
        PROVE  OpenAt(wire', view', i, n)
    BY <1>0, <1>2, <2>2, TakenFirst
  <2>3. ASSUME ~cut, NEW i \in DOMAIN wire', wire'[i].kind = "request"
        PROVE  OpenAt(wire', view', i, wire'[i].text)
    <3>1. wire'[i] = wire[i + 1] /\ i + 1 \in DOMAIN wire /\ i \in 1 .. Len(wire)
      BY <1>0, <1>1
    <3>2. OpenAt(wire, view, i + 1, wire[i + 1].text)
      BY <2>3, <3>1 DEF SyncInv, Answered
    <3> QED
      BY <2>2, <3>1, <3>2
  <2>4. ASSUME ~cut, DS!Open', \A c \in Askers : ask'[c].at \notin {"expect", "notify"}
        PROVE  OpenAt(wire', view', Len(wire') + 1, doc'.text)
    <3>1. OpenAt(wire, view, Len(wire) + 1, doc.text)
      BY <1>0, <2>4 DEF SyncInv, Answered, DS!Open
    <3>2. Len(wire) \in 1 .. Len(wire) /\ Len(wire') + 1 = Len(wire)
      BY <1>0, <1>1
    <3> QED
      BY <1>0, <2>2, <3>1, <3>2
  <2> QED
    BY <1>0, <2>1, <2>3, <2>4 DEF Answered
<1> QED
  BY <1>4, <1>5, <1>6, <1>7 DEF SyncInv

LEMMA PublishKeeps ==
  ASSUME SyncInv, DS!PublishDiagnostics
  PROVE  SyncInv'
<1>0. /\ pushes \in Seq(Carried) /\ pushes # <<>> /\ pushes' = Tail(pushes)
      /\ UNCHANGED <<source, contents, doc, opens, ask, cut, wire, view>>
  BY DEF DS!PublishDiagnostics, SyncInv, SyncType
<1>1. /\ Head(pushes) = pushes[1] /\ 1 \in DOMAIN pushes /\ pushes[1] \in Carried /\ pushes' \in Seq(Carried)
      /\ \A i \in DOMAIN pushes' : pushes'[i] = pushes[i + 1] /\ i + 1 \in DOMAIN pushes
  BY <1>0
<1>2. /\ diag' \in [awaited : Nat, version : Nat, text : Nat, life : Nat]
      /\ diag'.awaited = diag.awaited
      /\ diag'.version = pushes[1].version /\ diag'.text = pushes[1].text /\ diag'.life = pushes[1].life
  <2> DEFINE p == pushes[1]
             f == [diag EXCEPT !.version = p.version]
             g == [f EXCEPT !.text = p.text]
  <2>1. p.version \in Nat /\ p.text \in Nat /\ p.life \in Nat
    BY <1>1 DEF Carried
  <2>2. diag' = [g EXCEPT !.life = p.life]
    BY <1>1 DEF DS!PublishDiagnostics
  <2>3. diag \in [awaited : Nat, version : Nat, text : Nat, life : Nat]
    BY DEF SyncInv, SyncType
  <2> HIDE DEF p
  <2>4. f \in [awaited : Nat, version : Nat, text : Nat, life : Nat] /\ f.version = p.version /\ f.awaited = diag.awaited
    BY <2>1, <2>3
  <2> HIDE DEF f
  <2>5. /\ g \in [awaited : Nat, version : Nat, text : Nat, life : Nat]
        /\ g.version = p.version /\ g.text = p.text /\ g.awaited = diag.awaited
    BY <2>1, <2>4
  <2> HIDE DEF g
  <2>6. /\ diag' \in [awaited : Nat, version : Nat, text : Nat, life : Nat] /\ diag'.awaited = diag.awaited
        /\ diag'.version = p.version /\ diag'.text = p.text /\ diag'.life = p.life
    BY <2>1, <2>2, <2>5
  <2> QED
    BY <2>6 DEF p
<1>3. SyncType'
  BY <1>0, <1>1, <1>2 DEF SyncInv, SyncType
<1>4. SeenInv'
  BY <1>0 DEF SyncInv, SeenInv, Seen, DS!Open
<1>5. Versions'
  <2>1. OfDoc(pushes[1])
    BY <1>1 DEF SyncInv, Versions
  <2>2. (diag.version > 0 => OfDoc(diag))'
    BY <1>0, <1>2, <2>1 DEF OfDoc, DS!Open
  <2>3. (\A i \in DOMAIN pushes : OfDoc(pushes[i]))'
    BY <1>0, <1>1 DEF SyncInv, Versions, OfDoc, DS!Open
  <2>4. (/\ \A i \in DOMAIN wire : Speaks(wire[i]) => OfDoc(wire[i])
         /\ view.version > 0 => OfDoc(view)
         /\ DS!Open /\ (\A c \in Askers : ask[c].at # "expect") => diag.awaited = doc.version)'
    BY <1>0, <1>2 DEF SyncInv, Versions, OfDoc, DS!Open
  <2> QED
    BY <2>2, <2>3, <2>4 DEF Versions
<1>6. Answered'
  BY <1>0 DEF SyncInv, Answered, DS!Open
<1> QED
  BY <1>3, <1>4, <1>5, <1>6 DEF SyncInv

LEMMA SyncStep ==
  ASSUME OneAtATime, SyncInv, [DS!Next]_(DS!docvars)
  PROVE  SyncInv'
<1>1. CASE UNCHANGED DS!docvars
  BY <1>1 DEF DS!docvars, SyncInv, SyncType, SeenInv, Seen, Versions, OfDoc, Answered, DS!Open
<1>2. ASSUME NEW c \in Askers,
             \/ DS!Asks(c) \/ DS!Writes(c) \/ DS!FileChanged(c)
             \/ DS!Stat(c) \/ DS!Read(c) \/ DS!Sync(c) \/ DS!Expect(c) \/ DS!Notify(c) \/ DS!Use(c) \/ DS!Invalidate(c)
      PROVE  SyncInv'
  BY <1>2, BeginKeeps, RemovedKeeps, LookKeeps, SyncKeeps, ExpectKeeps, NotifyKeeps, UseKeeps, InvalidateKeeps
<1> QED
  BY <1>1, <1>2, OutsideKeeps, TakesKeeps, PublishKeeps DEF DS!Next

\* ensureOpen, expect, wait: where tool calls follow one another and no
\* notification failed, every request and every settled finding is about a
\* content at least as new as the one the call saw.
THEOREM ViewStaysCurrent ==
  ASSUME OneAtATime
  PROVE  ServicesSpec => []ViewIsCurrent
<1>1. SyncInv /\ [DS!Next]_(DS!docvars) => SyncInv'
  BY SyncStep
<1>2. SyncInv => ViewIsCurrent
  BY SyncInvHolds DEF ViewIsCurrent
<1> QED
  BY <1>1, <1>2, InitSyncInv, DocumentAlone, PTL DEF DS!Spec

-----------------------------------------------------------------------------
(* Least and greatest numbers.                                             *)

Below == {p \in Nat \X Nat : p[1] < p[2]}

LEMMA BelowWellFounded == IsWellFoundedOn(Below, Nat)
<1>1. OpToRel(<, Nat) = Below
  BY DEF OpToRel, Below
<1> QED
  BY <1>1, NatLessThanWellFounded

LEMMA Least ==
  ASSUME NEW T \in SUBSET Nat, T # {}
  PROVE  \E x \in T : \A y \in T : x <= y
<1>1. \A x, y \in Nat : <<y, x>> \notin Below => x <= y
  BY DEF Below
<1>2. \E x \in T : \A y \in T : <<y, x>> \notin Below
  BY BelowWellFounded, WFMin
<1> QED
  BY <1>1, <1>2

LEMMA Greatest ==
  ASSUME NEW T \in SUBSET Nat, T # {}, NEW b \in Nat, \A x \in T : x <= b
  PROVE  \E x \in T : \A y \in T : x >= y
<1> DEFINE U == {b - x : x \in T}
<1>0. \A x \in T : b - x \in Nat
  OBVIOUS
<1>1. U \in SUBSET Nat /\ U # {}
  BY <1>0
<1>2. \E x \in U : \A y \in U : x <= y
  BY <1>1, Least
<1>3. PICK x \in T : \A y \in T : b - x <= b - y
  BY <1>2
<1> QED
  BY <1>3

LEMMA MinOf ==
  ASSUME NEW T \in SUBSET Nat, T # {}
  PROVE  CM!Min(T) \in T /\ \A y \in T : CM!Min(T) <= y
<1>1. \E x \in T : \A y \in T : x =< y
  BY Least
<1> QED
  BY <1>1 DEF CM!Min

LEMMA MaxOf ==
  ASSUME NEW T \in SUBSET Nat, T # {}, NEW b \in Nat, \A x \in T : x <= b
  PROVE  CM!Max(T) \in T
<1>1. \E x \in T : \A y \in T : x >= y
  BY Greatest
<1> QED
  BY <1>1 DEF CM!Max

LEMMA OneBefore ==
  ASSUME NEW S, NEW e \in S, NEW seq \in Seq(S)
  PROVE  <<e>> \o seq \in Seq(S) /\ Len(<<e>> \o seq) = Len(seq) + 1 /\ (<<e>> \o seq)[1] = e
<1>1. <<e>> \in Seq(S) /\ Len(<<e>>) = 1 /\ <<e>>[1] = e /\ Len(seq) \in Nat
  OBVIOUS
<1> QED
  BY <1>1, ConcatProperties

LEMMA OneBeforeAt ==
  ASSUME NEW S, NEW e \in S, NEW seq \in Seq(S)
  PROVE  \A i \in 2 .. Len(seq) + 1 : (<<e>> \o seq)[i] = seq[i - 1]
<1>1. <<e>> \in Seq(S) /\ Len(<<e>>) = 1 /\ Len(seq) \in Nat
  OBVIOUS
<1>2. \A i \in 1 .. 1 + Len(seq) : (<<e>> \o seq)[i] = IF i <= 1 THEN <<e>>[i] ELSE seq[i - 1]
  BY <1>1, ConcatProperties
<1> QED
  BY <1>1, <1>2

-----------------------------------------------------------------------------
(* The transcript stays whole.                                             *)

Utterances == [role : CM!Roles, size : Sizes, from : Nat, to : Nat]

\* Every message in its place, up to the n-th.
Whole(msgs, n) ==
  /\ msgs \in Seq(Utterances) /\ n \in Nat
  /\ \A i \in 1 .. Len(msgs) : msgs[i].role = "tool" => i > 1 /\ msgs[i - 1].role \in {"calls", "tool"}
  /\ \A i \in 2 .. Len(msgs) : msgs[i].from = msgs[i - 1].to + 1
  /\ Len(msgs) = 0 => n = 0
  /\ Len(msgs) > 0 => msgs[1].from = 1 /\ msgs[Len(msgs)].to = n

WholeInv == Whole(transcript, said)

LEMMA WholeHolds == WholeInv => CM!TranscriptWhole
<1> SUFFICES ASSUME WholeInv PROVE CM!TranscriptWhole
  OBVIOUS
<1>1. transcript \in Seq(Utterances) /\ DOMAIN transcript = 1 .. Len(transcript) /\ said \in Nat
  BY DEF WholeInv, Whole
<1>2. \A i \in 1 .. Len(transcript) : transcript[i] \in Utterances
  BY <1>1
<1>3. \A i \in 1 .. Len(transcript) : transcript[i].from \in Nat /\ transcript[i].to \in Nat
  BY <1>2 DEF Utterances
<1>4. \A i \in DOMAIN transcript : i > 1 => i \in 2 .. Len(transcript) /\ i - 1 \in 1 .. Len(transcript)
  BY <1>1
<1>5. \A i \in DOMAIN transcript : i > 1 => transcript[i].from = transcript[i - 1].to + 1
  BY <1>4 DEF WholeInv, Whole
<1>6. \A i \in DOMAIN transcript : transcript[i].role = "tool" =>
         i > 1 /\ transcript[i - 1].role \in {"calls", "tool"} /\ transcript[i - 1].to = transcript[i].from - 1
  BY <1>1, <1>3, <1>4, <1>5, SMTT(30) DEF WholeInv, Whole
<1>7. said > 0 => transcript # <<>> /\ transcript[1].from = 1 /\ transcript[Len(transcript)].to = said
  BY <1>1 DEF WholeInv, Whole
<1> QED
  BY <1>5, <1>6, <1>7 DEF CM!TranscriptWhole

\* What is said follows what was said before.
LEMMA SaidFollows ==
  ASSUME NEW msgs, NEW n, Whole(msgs, n), NEW more \in Seq(Utterances),
         \A i \in 1 .. Len(more) : more[i].from = n + i /\ more[i].to = n + i,
         \A i \in 1 .. Len(more) : more[i].role = "tool" => i > 1 /\ more[i - 1].role \in {"calls", "tool"}
  PROVE  Whole(msgs \o more, n + Len(more))
<1> DEFINE all == msgs \o more
<1>1. msgs \in Seq(Utterances) /\ n \in Nat /\ Len(msgs) \in Nat /\ Len(more) \in Nat
  BY DEF Whole
<1>2. /\ all \in Seq(Utterances) /\ Len(all) = Len(msgs) + Len(more)
      /\ \A i \in 1 .. Len(msgs) : all[i] = msgs[i]
      /\ \A i \in 1 .. Len(more) : all[Len(msgs) + i] = more[i]
  BY <1>1
<1> HIDE DEF all
<1>3. ASSUME NEW i \in 1 .. Len(all), i > Len(msgs)
      PROVE  /\ all[i] = more[i - Len(msgs)] /\ i - Len(msgs) \in 1 .. Len(more)
             /\ i - 1 > Len(msgs) => all[i - 1] = more[(i - Len(msgs)) - 1] /\ (i - Len(msgs)) - 1 \in 1 .. Len(more)
             /\ i - 1 <= Len(msgs) => i - 1 = Len(msgs) /\ i - Len(msgs) = 1
  <2>1. i - Len(msgs) \in 1 .. Len(more) /\ i = Len(msgs) + (i - Len(msgs))
    BY <1>1, <1>2, <1>3
  <2>2. i - 1 > Len(msgs) => (i - Len(msgs)) - 1 \in 1 .. Len(more) /\ i - 1 = Len(msgs) + ((i - Len(msgs)) - 1)
    BY <1>1, <1>2, <1>3
  <2>3. i - 1 <= Len(msgs) => i - 1 = Len(msgs) /\ i - Len(msgs) = 1
    BY <1>1, <1>2, <1>3
  <2> QED
    BY <1>2, <2>1, <2>2, <2>3
<1>4. ASSUME NEW i \in 1 .. Len(all), all[i].role = "tool"
      PROVE  i > 1 /\ all[i - 1].role \in {"calls", "tool"}
  <2>1. CASE i <= Len(msgs)
    <3>1. i \in 1 .. Len(msgs) /\ (i > 1 => i - 1 \in 1 .. Len(msgs))
      BY <1>1, <1>2, <2>1
    <3> QED
      BY <1>2, <1>4, <3>1 DEF Whole
  <2>2. CASE i > Len(msgs)
    <3>1. i - Len(msgs) > 1 /\ more[(i - Len(msgs)) - 1].role \in {"calls", "tool"}
      BY <1>3, <1>4, <2>2
    <3>2. i - 1 > Len(msgs) /\ i > 1
      BY <1>1, <1>2, <3>1
    <3> QED
      BY <1>3, <2>2, <3>1, <3>2
  <2> QED
    BY <1>1, <1>2, <2>1, <2>2
<1>5. ASSUME NEW i \in 2 .. Len(all)
      PROVE  all[i].from = all[i - 1].to + 1
  <2>0. i \in 1 .. Len(all) /\ i \in Nat
    BY <1>1, <1>2
  <2>1. CASE i <= Len(msgs)
    <3>1. i \in 2 .. Len(msgs) /\ i \in 1 .. Len(msgs) /\ i - 1 \in 1 .. Len(msgs)
      BY <1>1, <1>2, <2>1
    <3> QED
      BY <1>2, <3>1 DEF Whole
  <2>2. CASE i > Len(msgs) /\ i - 1 > Len(msgs)
    <3>1. /\ all[i].from = n + (i - Len(msgs)) /\ all[i - 1].to = n + ((i - Len(msgs)) - 1)
      BY <1>3, <2>0, <2>2
    <3> QED
      BY <1>1, <2>0, <3>1
  <2>3. CASE i > Len(msgs) /\ i - 1 <= Len(msgs)
    <3>1. i - 1 = Len(msgs) /\ all[i].from = n + 1
      BY <1>3, <2>0, <2>3
    <3>2. Len(msgs) \in 1 .. Len(msgs) /\ Len(msgs) > 0
      BY <1>1, <3>1
    <3>3. all[i - 1] = msgs[Len(msgs)] /\ msgs[Len(msgs)].to = n
      BY <1>2, <3>1, <3>2 DEF Whole
    <3> QED
      BY <3>1, <3>3
  <2> QED
    BY <1>1, <2>0, <2>1, <2>2, <2>3
<1>6. Len(all) = 0 => n + Len(more) = 0
  BY <1>1, <1>2 DEF Whole
<1>7. ASSUME Len(all) > 0
      PROVE  all[1].from = 1 /\ all[Len(all)].to = n + Len(more)
  <2>1. all[1].from = 1
    <3>1. CASE Len(msgs) > 0
      BY <1>1, <1>2, <3>1 DEF Whole
    <3>2. CASE Len(msgs) = 0
      <4>1. n = 0 /\ Len(more) > 0
        BY <1>1, <1>2, <1>7, <3>2 DEF Whole
      <4>2. 1 \in 1 .. Len(more) /\ all[1] = more[1]
        BY <1>1, <1>2, <3>2, <4>1
      <4> QED
        BY <4>1, <4>2
    <3> QED
      BY <1>1, <3>1, <3>2
  <2>2. all[Len(all)].to = n + Len(more)
    <3>1. CASE Len(more) > 0
      <4>1. Len(more) \in 1 .. Len(more) /\ Len(all) = Len(msgs) + Len(more)
        BY <1>1, <1>2, <3>1
      <4>2. all[Len(all)] = more[Len(more)]
        BY <1>1, <1>2, <4>1
      <4>3. more[Len(more)].to = n + Len(more)
        BY <4>1
      <4> QED
        BY <4>2, <4>3
    <3>2. CASE Len(more) = 0
      BY <1>1, <1>2, <1>7, <3>2 DEF Whole
    <3> QED
      BY <1>1, <3>1, <3>2
  <2> QED
    BY <2>1, <2>2
<1> QED
  BY <1>1, <1>2, <1>4, <1>5, <1>6, <1>7 DEF Whole, all

\* The first n messages make room for a digest, unless a result comes next.
LEMMA FoldedWhole ==
  ASSUME NEW msgs, NEW last, Whole(msgs, last), NEW n \in 1 .. Len(msgs), NEW size \in Sizes,
         n < Len(msgs) => msgs[n + 1].role # "tool",
         NEW new, new = <<[role |-> "digest", size |-> size, from |-> msgs[1].from, to |-> msgs[n].to]>> \o CM!After(msgs, n)
  PROVE  Whole(new, last)
<1> DEFINE d == [role |-> "digest", size |-> size, from |-> msgs[1].from, to |-> msgs[n].to]
           rest == CM!After(msgs, n)
<1>1. /\ msgs \in Seq(Utterances) /\ last \in Nat /\ Len(msgs) \in Nat /\ n \in Nat /\ n <= Len(msgs)
      /\ msgs[1].from = 1 /\ msgs[Len(msgs)].to = last
  BY DEF Whole
<1>2. msgs[1] \in Utterances /\ msgs[n] \in Utterances
  BY <1>1
<1>3. d \in Utterances /\ d.role = "digest" /\ d.from = 1 /\ d.to = msgs[n].to
  BY <1>1, <1>2 DEF Utterances, CM!Roles
<1>4. /\ rest \in Seq(Utterances) /\ Len(rest) = Len(msgs) - n
      /\ \A i \in 1 .. Len(rest) : rest[i] = msgs[n + i]
  BY <1>1 DEF CM!After
<1>5. new = <<d>> \o rest
  OBVIOUS
<1> HIDE DEF d, rest
<1>6. /\ new \in Seq(Utterances) /\ Len(new) = (Len(msgs) - n) + 1 /\ new[1] = d
      /\ \A i \in 2 .. Len(new) : new[i] = rest[i - 1]
  <2>1. d \in Utterances /\ rest \in Seq(Utterances)
    BY <1>3, <1>4
  <2>2. new \in Seq(Utterances) /\ Len(new) = Len(rest) + 1 /\ new[1] = d
    <3>1. new \in Seq(Utterances)
      <4>1. <<d>> \in Seq(Utterances)
        BY <2>1
      <4>2. <<d>> \o rest \in Seq(Utterances)
        BY <2>1, <4>1, ConcatProperties
      <4> QED
        BY <1>5, <4>2
    <3>2. Len(new) = Len(rest) + 1
      BY <1>5, <2>1, OneBefore
    <3>3. new[1] = d
      BY <1>5, <2>1, OneBefore
    <3> QED
      BY <3>1, <3>2, <3>3
  <2>3. \A i \in 2 .. Len(rest) + 1 : new[i] = rest[i - 1]
    BY <1>5, <2>1, OneBeforeAt
  <2> QED
    BY <1>1, <1>4, <2>2, <2>3
<1>7. \A i \in 2 .. Len(new) : new[i] = msgs[n + (i - 1)] /\ n + (i - 1) \in 2 .. Len(msgs) /\ n + (i - 1) \in 1 .. Len(msgs)
  <2>1. \A i \in 2 .. Len(new) : i - 1 \in 1 .. Len(rest)
    BY <1>1, <1>4, <1>6
  <2>2. \A i \in 2 .. Len(new) : new[i] = msgs[n + (i - 1)]
    BY <1>4, <1>6, <2>1
  <2>3. \A i \in 2 .. Len(new) : n + (i - 1) \in 2 .. Len(msgs) /\ n + (i - 1) \in 1 .. Len(msgs)
    BY <1>1, <1>6
  <2> QED
    BY <2>2, <2>3
<1>8. ASSUME NEW i \in 1 .. Len(new), new[i].role = "tool"
      PROVE  i > 1 /\ new[i - 1].role \in {"calls", "tool"}
  <2>1. i # 1
    BY <1>3, <1>6, <1>8
  <2>2. i \in 2 .. Len(new)
    BY <1>1, <1>6, <2>1
  <2>3. msgs[n + (i - 1)].role = "tool" /\ msgs[(n + (i - 1)) - 1].role \in {"calls", "tool"}
    BY <1>7, <1>8, <2>2 DEF Whole
  <2>4. i # 2
    <3>1. i = 2 => n + (i - 1) = n + 1 /\ n < Len(msgs)
      BY <1>1, <1>6
    <3> QED
      BY <2>3, <3>1
  <2>5. i - 1 \in 2 .. Len(new) /\ n + ((i - 1) - 1) = (n + (i - 1)) - 1
    BY <1>1, <1>6, <2>2, <2>4
  <2>6. new[i - 1] = msgs[(n + (i - 1)) - 1]
    BY <1>7, <2>5
  <2> QED
    BY <2>2, <2>3, <2>6, SMTT(30)
<1>9. ASSUME NEW i \in 2 .. Len(new)
      PROVE  new[i].from = new[i - 1].to + 1
  <2>1. new[i].from = msgs[(n + (i - 1)) - 1].to + 1
    BY <1>7 DEF Whole
  <2>2. CASE i = 2
    <3>1. (n + (i - 1)) - 1 = n /\ i - 1 = 1
      BY <1>1, <2>2
    <3> QED
      BY <1>3, <1>6, <2>1, <3>1
  <2>3. CASE i # 2
    <3>1. i - 1 \in 2 .. Len(new) /\ n + ((i - 1) - 1) = (n + (i - 1)) - 1
      BY <1>1, <1>6, <2>3
    <3>2. new[i - 1] = msgs[(n + (i - 1)) - 1]
      BY <1>7, <3>1
    <3> QED
      BY <2>1, <3>2
  <2> QED
    BY <2>2, <2>3
<1>10. new[Len(new)].to = last
  <2>1. CASE n = Len(msgs)
    BY <1>1, <1>3, <1>6, <2>1
  <2>2. CASE n < Len(msgs)
    <3>1. Len(new) \in 2 .. Len(new) /\ n + (Len(new) - 1) = Len(msgs)
      BY <1>1, <1>6, <2>2
    <3>2. new[Len(new)] = msgs[Len(msgs)]
      BY <1>7, <3>1
    <3> QED
      BY <1>1, <3>2
  <2> QED
    BY <1>1, <2>1, <2>2
<1>11. Len(new) > 0 /\ new[1].from = 1
  BY <1>1, <1>3, <1>6
<1>12. Len(new) # 0
  BY <1>1, <1>6
<1> QED
  BY <1>1, <1>6, <1>8, <1>9, <1>10, <1>11, <1>12 DEF Whole

\* The newer part starts with a message of the user.
LEMMA SplitAtUser ==
  ASSUME NEW msgs \in Seq(Utterances), NEW k
  PROVE  /\ CM!SafeSplit(msgs, k) \in 0 .. Len(msgs)
         /\ CM!SafeSplit(msgs, k) > 0 => CM!SafeSplit(msgs, k) < Len(msgs) /\ CM!IsUser(msgs[CM!SafeSplit(msgs, k) + 1])
<1> DEFINE turns == CM!UserTurns(msgs)
           among == {i \in turns : CM!Cardinality({j \in turns : j >= i}) <= k}
<1>1. turns \subseteq 1 .. Len(msgs) /\ \A i \in turns : CM!IsUser(msgs[i])
  BY DEF CM!UserTurns
<1>2. CM!SafeSplit(msgs, k) = IF among = {} THEN 0 ELSE CM!Min(among) - 1
  BY DEF CM!SafeSplit
<1>3. among \subseteq turns
  OBVIOUS
<1> HIDE DEF turns, among
<1>4. among # {} => CM!Min(among) \in among
  BY <1>1, <1>3, MinOf
<1>5. Len(msgs) \in Nat
  OBVIOUS
<1>6. CASE among = {}
  BY <1>2, <1>5, <1>6
<1>7. CASE among # {}
  <2> DEFINE m == CM!Min(among)
  <2>1. m \in 1 .. Len(msgs) /\ CM!IsUser(msgs[m]) /\ CM!SafeSplit(msgs, k) = m - 1
    BY <1>1, <1>2, <1>3, <1>4, <1>7
  <2> HIDE DEF m
  <2>2. (m - 1) + 1 = m
    BY <2>1
  <2> QED
    BY <1>5, <2>1, <2>2
<1> QED
  BY <1>6, <1>7

\* A chunk is not empty and no results of its calls are left behind.
LEMMA ChunkPaired ==
  ASSUME NEW msgs \in Seq(Utterances), msgs # <<>>, NEW budget
  PROVE  /\ CM!FirstChunk(msgs, budget) \in 1 .. Len(msgs)
         /\ CM!FirstChunk(msgs, budget) < Len(msgs) => msgs[CM!FirstChunk(msgs, budget) + 1].role # "tool"
<1> DEFINE fits == {1} \cup {i \in DOMAIN msgs : CM!EstimateTokens(CM!Cut(msgs, i)) <= budget}
           n == CM!WithProgress(msgs, CM!Packed(msgs, budget))
           clean == {i \in n .. Len(msgs) - 1 : msgs[i + 1].role # "tool"}
<1>1. Len(msgs) \in Nat /\ Len(msgs) >= 1 /\ DOMAIN msgs = 1 .. Len(msgs)
  OBVIOUS
<1>2. fits \subseteq 1 .. Len(msgs) /\ fits # {} /\ CM!Packed(msgs, budget) = CM!Max(fits)
  BY <1>1 DEF CM!Packed
<1>3. CM!Packed(msgs, budget) \in 1 .. Len(msgs)
  <2> HIDE DEF fits
  <2>1. fits \in SUBSET Nat /\ \A x \in fits : x <= Len(msgs)
    BY <1>1, <1>2
  <2> QED
    BY <1>1, <1>2, <2>1, MaxOf
<1>4. n \in 1 .. Len(msgs)
  BY <1>1, <1>3 DEF CM!WithProgress
<1>5. CM!FirstChunk(msgs, budget) = IF clean = {} THEN Len(msgs) ELSE CM!Min(clean)
  BY DEF CM!FirstChunk
<1> HIDE DEF n
<1>6. clean \in SUBSET Nat /\ \A i \in clean : i \in 1 .. Len(msgs) /\ msgs[i + 1].role # "tool"
  BY <1>1, <1>4
<1> HIDE DEF clean
<1>7. CASE clean = {}
  BY <1>1, <1>5, <1>7
<1>8. CASE clean # {}
  BY <1>5, <1>6, <1>8, MinOf
<1> QED
  BY <1>7, <1>8

LEMMA FoldKeeps ==
  ASSUME WholeInv, NEW size \in Sizes, CM!FoldChunk(size)
  PROVE  WholeInv'
<1> DEFINE older == CM!Cut(transcript, CM!Older)
           n == CM!FirstChunk(older, CM!MigrationChunkBudget(target))
<1>1. /\ transcript \in Seq(Utterances) /\ CM!Older > 0 /\ transcript' = CM!Folded(transcript, n, CM!Older, size) /\ said' = said
  BY DEF CM!FoldChunk, CM!Apply, WholeInv, Whole
<1>2. CM!Older \in 1 .. Len(transcript) /\ CM!Older < Len(transcript) /\ CM!IsUser(transcript[CM!Older + 1])
  <2>1. CM!Older \in 0 .. Len(transcript)
    BY <1>1, SplitAtUser DEF CM!Older
  <2> QED
    BY <1>1, <2>1, SplitAtUser DEF CM!Older
<1>3. /\ older \in Seq(Utterances) /\ Len(older) = CM!Older /\ older # <<>>
      /\ \A i \in 1 .. CM!Older : older[i] = transcript[i]
  BY <1>1, <1>2 DEF CM!Cut
<1>4. n \in 1 .. CM!Older /\ (n < CM!Older => older[n + 1].role # "tool")
  BY <1>3, ChunkPaired
<1> HIDE DEF older, n
<1>5. n \in 1 .. Len(transcript)
  BY <1>1, <1>2, <1>4
<1>6. n < Len(transcript) => transcript[n + 1].role # "tool"
  <2>1. CASE n < CM!Older
    <3>1. n + 1 \in 1 .. CM!Older
      BY <1>1, <1>2, <1>4, <2>1
    <3> QED
      BY <1>3, <1>4, <2>1, <3>1
  <2>2. CASE n = CM!Older
    BY <1>2, <2>2 DEF CM!IsUser
  <2> QED
    BY <1>1, <1>2, <1>4, <2>1, <2>2
<1>7. transcript' = <<[role |-> "digest", size |-> size, from |-> transcript[1].from, to |-> transcript[n].to]>>
                    \o CM!After(transcript, n)
  <2>1. CM!Cut(transcript, n)[1] = transcript[1] /\ CM!Cut(transcript, n)[Len(CM!Cut(transcript, n))] = transcript[n]
    BY <1>1, <1>5 DEF CM!Cut
  <2> QED
    BY <1>1, <2>1 DEF CM!Folded, CM!Digest
<1> QED
  BY <1>1, <1>5, <1>6, <1>7, FoldedWhole DEF WholeInv

LEMMA CompactKeeps ==
  ASSUME WholeInv, NEW size \in Sizes, CM!Compact(size)
  PROVE  WholeInv'
<1> DEFINE n == CM!SafeSplit(transcript, KeepRecent)
<1>1. transcript \in Seq(Utterances) /\ n > 0 /\ transcript' = CM!Folded(transcript, n, n, size) /\ said' = said
  BY DEF CM!Compact, CM!Apply, WholeInv, Whole
<1>2. n \in 1 .. Len(transcript) /\ n < Len(transcript) /\ CM!IsUser(transcript[n + 1])
  <2>1. n \in 0 .. Len(transcript)
    BY <1>1, SplitAtUser
  <2> QED
    BY <1>1, <2>1, SplitAtUser
<1> HIDE DEF n
<1>3. transcript[n + 1].role # "tool"
  BY <1>2 DEF CM!IsUser
<1>4. transcript' = <<[role |-> "digest", size |-> size, from |-> transcript[1].from, to |-> transcript[n].to]>>
                    \o CM!After(transcript, n)
  <2>1. CM!Cut(transcript, n)[1] = transcript[1] /\ CM!Cut(transcript, n)[Len(CM!Cut(transcript, n))] = transcript[n]
    BY <1>1, <1>2 DEF CM!Cut
  <2> QED
    BY <1>1, <2>1 DEF CM!Folded, CM!Digest
<1> QED
  BY <1>1, <1>2, <1>3, <1>4, FoldedWhole DEF WholeInv

\* New messages carry their number.
LEMMA SaysTyped ==
  ASSUME NEW roles \in Seq(CM!Roles), NEW size \in Sizes, said \in Nat
  PROVE  /\ CM!Says(roles, size) \in Seq(Utterances) /\ Len(CM!Says(roles, size)) = Len(roles)
         /\ \A i \in 1 .. Len(roles) : /\ CM!Says(roles, size)[i].role = roles[i]
                                       /\ CM!Says(roles, size)[i].from = said + i /\ CM!Says(roles, size)[i].to = said + i
<1>1. Len(roles) \in Nat /\ DOMAIN roles = 1 .. Len(roles) /\ \A i \in 1 .. Len(roles) : roles[i] \in CM!Roles
  OBVIOUS
<1>2. CM!Says(roles, size) = [i \in 1 .. Len(roles) |-> [role |-> roles[i], size |-> size, from |-> said + i, to |-> said + i]]
  BY <1>1 DEF CM!Says
<1>3. \A i \in 1 .. Len(roles) : [role |-> roles[i], size |-> size, from |-> said + i, to |-> said + i] \in Utterances
  BY <1>1 DEF Utterances
<1> QED
  BY <1>1, <1>2, <1>3

\* Results follow calls or other results.
Paired(roles) ==
  /\ roles \in Seq(CM!Roles)
  /\ \A i \in 1 .. Len(roles) : roles[i] = "tool" => i > 1 /\ roles[i - 1] \in {"calls", "tool"}

LEMMA RepliesPaired == \A r \in CM!Replies : Paired(r)
<1> SUFFICES ASSUME NEW r \in CM!Replies PROVE Paired(r)
  OBVIOUS
<1>1. CASE r = <<"text">>
  BY <1>1 DEF Paired, CM!Roles
<1>2. CASE r = <<"calls", "tool">>
  BY <1>2 DEF Paired, CM!Roles
<1>3. CASE r = <<"calls", "tool", "tool">>
  BY <1>3 DEF Paired, CM!Roles
<1> QED
  BY <1>1, <1>2, <1>3 DEF CM!Replies

LEMMA OpeningPaired == Paired(<<>>) /\ Paired(<<"user">>) /\ \A r : Paired(r) => Paired(<<"user">> \o r)
<1>1. Paired(<<>>) /\ Paired(<<"user">>)
  BY DEF Paired, CM!Roles
<1>2. ASSUME NEW r, Paired(r)
      PROVE  Paired(<<"user">> \o r)
  <2> DEFINE all == <<"user">> \o r
  <2>1. "user" \in CM!Roles /\ r \in Seq(CM!Roles)
    BY <1>2 DEF CM!Roles, Paired
  <2>2. /\ all \in Seq(CM!Roles) /\ Len(all) = Len(r) + 1 /\ all[1] = "user"
        /\ \A i \in 2 .. Len(r) + 1 : all[i] = r[i - 1]
    BY <2>1, OneBefore, OneBeforeAt
  <2> HIDE DEF all
  <2>3. ASSUME NEW i \in 1 .. Len(all), all[i] = "tool"
        PROVE  i > 1 /\ all[i - 1] \in {"calls", "tool"}
    <3>1. i \in 2 .. Len(r) + 1 /\ i - 1 \in 1 .. Len(r)
      BY <2>1, <2>2, <2>3
    <3>2. r[i - 1] = "tool"
      BY <2>2, <2>3, <3>1
    <3>3. i - 1 > 1 /\ r[(i - 1) - 1] \in {"calls", "tool"}
      BY <1>2, <3>1, <3>2 DEF Paired
    <3>4. i - 1 \in 2 .. Len(r) + 1
      BY <2>1, <3>1, <3>3
    <3> QED
      BY <2>2, <3>1, <3>3, <3>4
  <2> QED
    BY <2>2, <2>3 DEF Paired, all
<1> QED
  BY <1>1, <1>2

LEMMA ReplyKeeps ==
  ASSUME WholeInv, NEW roles, NEW size \in Sizes, Paired(roles),
         transcript' = transcript \o CM!Says(roles, size), said' = said + Len(CM!Says(roles, size))
  PROVE  WholeInv'
<1>0. /\ roles \in Seq(CM!Roles)
      /\ \A i \in 1 .. Len(roles) : roles[i] = "tool" => i > 1 /\ roles[i - 1] \in {"calls", "tool"}
  BY DEF Paired
<1>1. said \in Nat /\ Whole(transcript, said)
  BY DEF WholeInv, Whole
<1> DEFINE more == CM!Says(roles, size)
<1>2. /\ more \in Seq(Utterances) /\ Len(more) = Len(roles) /\ Len(roles) \in Nat
      /\ \A i \in 1 .. Len(more) : more[i].role = roles[i] /\ more[i].from = said + i /\ more[i].to = said + i
  BY <1>0, <1>1, SaysTyped
<1> HIDE DEF more
<1>3. \A i \in 1 .. Len(more) : more[i].role = "tool" => i > 1 /\ more[i - 1].role \in {"calls", "tool"}
  <2>1. \A i \in 1 .. Len(more) : i > 1 => i - 1 \in 1 .. Len(more)
    BY <1>2
  <2> QED
    BY <1>0, <1>2, <2>1
<1>4. Whole(transcript \o more, said + Len(more))
  BY <1>1, <1>2, <1>3, SaidFollows
<1> QED
  BY <1>4 DEF WholeInv, more

LEMMA StepWholeInv == WholeInv /\ [CM!Next]_(CM!cpvars) => WholeInv'
<1> SUFFICES ASSUME WholeInv, [CM!Next]_(CM!cpvars) PROVE WholeInv'
  OBVIOUS
<1>1. ASSUME UNCHANGED <<transcript, said>>
      PROVE  WholeInv'
  BY <1>1 DEF WholeInv, Whole
<1>2. ASSUME NEW s \in Sizes, CM!FoldChunk(s) \/ CM!Compact(s)
      PROVE  WholeInv'
  BY <1>2, FoldKeeps, CompactKeeps
<1>3. ASSUME NEW s \in Sizes, CM!RequestFails(s)
      PROVE  WholeInv'
  <2> DEFINE roles == IF opening THEN <<"user">> ELSE <<>>
  <2>1. Paired(roles)
    BY OpeningPaired
  <2>2. transcript' = transcript \o CM!Says(roles, s) /\ said' = said + Len(CM!Says(roles, s))
    BY <1>3 DEF CM!RequestFails, CM!Asked
  <2> HIDE DEF roles
  <2> QED
    BY <2>1, <2>2, ReplyKeeps
<1>4. ASSUME NEW r \in CM!Replies, NEW s \in Sizes, NEW b \in BOOLEAN, CM!Reply(r, s, b)
      PROVE  WholeInv'
  <2> DEFINE roles == (IF opening THEN <<"user">> ELSE <<>>) \o r
  <2>1. Paired(r) /\ r \in Seq(CM!Roles) /\ <<>> \o r = r
    BY RepliesPaired DEF Paired
  <2>2. Paired(roles)
    BY <2>1, OpeningPaired
  <2>3. transcript' = transcript \o CM!Says(roles, s) /\ said' = said + Len(CM!Says(roles, s))
    BY <1>4 DEF CM!Reply
  <2> HIDE DEF roles
  <2> QED
    BY <2>2, <2>3, ReplyKeeps
<1>5. CASE \/ \E w \in Windows : CM!Message(w)
           \/ CM!FoldDone \/ CM!FoldFails \/ CM!FoldFewerTurns \/ CM!SkipCompaction \/ UNCHANGED CM!cpvars
  BY <1>1, <1>5 DEF CM!Message, CM!FoldDone, CM!FoldFails, CM!FoldFewerTurns, CM!SkipCompaction, CM!cpvars
<1> QED
  BY <1>2, <1>3, <1>4, <1>5 DEF CM!Next

\* compactIfNeeded, MigrateToContextWindow: whatever is folded, and in whatever
\* order, no tool result loses its call and no message its place.
THEOREM TranscriptStaysWhole == ServicesSpec => []TranscriptWhole
<1>1. CM!Init => WholeInv
  BY DEF CM!Init, WholeInv, Whole
<1>2. WholeInv => TranscriptWhole
  BY WholeHolds DEF TranscriptWhole
<1> QED
  BY <1>1, <1>2, StepWholeInv, ConversationAlone, PTL DEF CM!Spec

-----------------------------------------------------------------------------
(* The watchers of the host.                                               *)

LEMMA WatchersAlone == ServicesSpec => WH!Init /\ [][WH!Next]_(WH!whvars)
<1>1. ServicesInit => WH!Init
  BY DEF ServicesInit
<1>2. [ServicesNext]_servicesvars => [WH!Next]_(WH!whvars)
  BY DEF ServicesNext, servicesvars, watchers, WH!whvars, HubRuns, FilesRun, TranscriptRuns, WatchersRun,
         HandoffRuns, ServersRun, DocumentRuns, PermissionsRun, PromptsRun, LogsRun, McpRuns
<1> QED
  BY <1>1, <1>2, PTL DEF ServicesSpec

HostWorks == {"create", "delete", "update", "enable"}
HostPlaces == {"none", "lookup", "toggle", "remove", "add", "record", "save", "forget", "unregister", "archive", "note", "register"}
HostCall == [do : HostWorks \cup {"none", "close", "restore"}, id : WH!Watchers \cup {"none"}, at : HostPlaces,
             on : BOOLEAN, toggle : BOOLEAN, seen : WH!Flags(Free)]

\* k is the call under way.
HostType(k) ==
  /\ runners \in WH!Flags(WH!Watchers) /\ file \in WH!Flags(Free)
  /\ attached \in WH!Flags(Sessions) /\ pending \in WH!Flags(Sessions)
  /\ live \subseteq Sessions /\ DOMAIN index \subseteq Sessions
  /\ \A s \in DOMAIN index : index[s] \in {WH!None, [w \in {s} |-> TRUE], [w \in {s} |-> FALSE]}
  /\ boot \in {"off", "built", "registering", "up"}
  /\ k \in HostCall
  /\ k.do = "none" => k = WH!Idle
  /\ k.do # "none" => k.id \in WH!Watchers
  /\ k.do \in {"close", "restore"} => k.id \in Sessions

Holds(f, w, on) == w \in DOMAIN f /\ f[w] = on

Creating(k) ==
  /\ k.at \in {"add", "record", "save"}
  /\ k.at \in {"add", "record"} => k.id \notin DOMAIN attached \cup DOMAIN file
  /\ k.at = "add" => k.id \notin DOMAIN runners
  /\ k.id \in Sessions => k.id \in live
  /\ k.at \in {"record", "save"} => Holds(runners, k.id, k.on)
  /\ k.at = "save" /\ k.id \in Sessions => Holds(attached, k.id, k.on)
Deleting(k) ==
  /\ k.at \in {"remove", "record", "save"}
  /\ k.at \in {"record", "save"} => k.id \notin DOMAIN runners
  /\ k.at = "save" => k.id \notin DOMAIN attached
Enabling(k) ==
  /\ k.at \in {"toggle", "record", "save"}
  /\ k.at = "toggle" => Holds(runners, k.id, IF k.toggle THEN ~k.on ELSE k.on)
  /\ k.at \in {"record", "save"} => Holds(runners, k.id, k.on)
  /\ k.id \in Free => k.id \in DOMAIN file
  /\ k.at = "save" /\ k.id \in DOMAIN attached => attached[k.id] = k.on
Updating(k) ==
  /\ k.at \in {"lookup", "remove", "add", "record", "save"}
  /\ k.at # "lookup" => IF k.id \in Sessions THEN Holds(attached, k.id, k.on) ELSE Holds(file, k.id, k.on)
  /\ k.at = "add" => k.id \notin DOMAIN runners
  /\ k.at \in {"record", "save"} => Holds(runners, k.id, k.on)
Closing(k) ==
  /\ k.at \in {"forget", "unregister", "archive"} /\ k.id \notin live
  /\ k.at # "forget" => k.id \notin DOMAIN attached
Restoring(k) ==
  /\ k.at \in {"note", "register"} /\ k.id \in live /\ k.id \notin DOMAIN runners
  /\ k.at = "note" => k.id \notin DOMAIN attached /\ k.id \in DOMAIN index /\ index[k.id] = [w \in {k.id} |-> k.on]
  /\ k.at = "register" => Holds(attached, k.id, k.on)

\* What is so at the place the call has come to.
CallFits(k) ==
  /\ k.do = "create" => Creating(k)
  /\ k.do = "delete" => Deleting(k)
  /\ k.do = "enable" => Enabling(k)
  /\ k.do = "update" => Updating(k)
  /\ k.do = "close" => Closing(k)
  /\ k.do = "restore" => Restoring(k)
  /\ k.do \in HostWorks \cup {"restore"} => k.id \in made
  /\ k.do \in HostWorks \/ k.at = "register" => WH!Up /\ k.id \notin DOMAIN pending
  /\ k.at = "unregister" => WH!Up
  /\ k.do \in HostWorks /\ k.at = "save" /\ k.id \in Free => k.seen = file

\* Before the engine is published it has nothing of a session.
BootFits ==
  /\ ~WH!Up => pending = WH!None /\ DOMAIN runners \subseteq Free
  /\ boot = "off" => runners = WH!None
  /\ boot = "up" => pending = WH!None

KnownIds ==
  /\ DOMAIN runners \cup DOMAIN pending \cup DOMAIN file \cup DOMAIN attached \subseteq made
  /\ \A s \in DOMAIN index : index[s] # WH!None => s \in made

\* A session that is gone does not come back while the engine has its watcher.
OwnersLive(k) ==
  /\ \A s \in DOMAIN attached : s \in live \/ (k.do = "close" /\ k.id = s /\ k.at = "forget")
  /\ \A s \in Sessions \ live : s \in DOMAIN runners \cup DOMAIN pending =>
         s \notin DOMAIN index \/ (k.do = "close" /\ k.id = s)
  /\ \A s \in DOMAIN pending : s \notin DOMAIN runners /\ (s \in live => Holds(attached, s, pending[s]))

FreeAsDefined(k) ==
  boot # "off" => \A w \in Free :
     \/ k.id = w /\ k.do \in HostWorks /\ k.at \in {"add", "record", "save"}
     \/ /\ w \in DOMAIN runners => Holds(file, w, runners[w])
        /\ Holds(file, w, TRUE) => w \in DOMAIN runners

AttachedAsDefined(k) ==
  WH!Up => \A s \in DOMAIN attached :
     \/ k.id = s /\ k.do \in HostWorks /\ k.at \in {"add", "record"}
     \/ k.id = s /\ k.do = "restore" /\ k.at = "register"
     \/ k.id = s /\ k.do = "close" /\ k.at = "forget"
     \/ Holds(runners, s, attached[s]) \/ Holds(pending, s, attached[s])

IndexAsDefined(k) ==
  \A s \in live : /\ s \in DOMAIN index
                  /\ \/ index[s] = WH!Of(s)
                     \/ k.id = s /\ k.do \in HostWorks /\ k.at = "save"
                     \/ k.id = s /\ k.do = "restore" /\ k.at = "note"

HostInv(k) == HostType(k) /\ CallFits(k) /\ BootFits /\ KnownIds /\ OwnersLive(k)
              /\ FreeAsDefined(k) /\ AttachedAsDefined(k) /\ IndexAsDefined(k)

-----------------------------------------------------------------------------
(* Tables of watchers.                                                     *)

LEMMA FlagsAre ==
  ASSUME NEW S, NEW f
  PROVE  f \in WH!Flags(S) <=> DOMAIN f \subseteq S /\ f \in [DOMAIN f -> BOOLEAN]
<1>1. ASSUME f \in WH!Flags(S)
      PROVE  DOMAIN f \subseteq S /\ f \in [DOMAIN f -> BOOLEAN]
  <2>1. PICK D \in SUBSET S : f \in [D -> BOOLEAN]
    BY <1>1 DEF WH!Flags
  <2> QED
    BY <2>1
<1>2. ASSUME DOMAIN f \subseteq S, f \in [DOMAIN f -> BOOLEAN]
      PROVE  f \in WH!Flags(S)
  BY <1>2 DEF WH!Flags
<1> QED
  BY <1>1, <1>2

LEMMA NoneIs == DOMAIN WH!None = {} /\ \A S : WH!None \in WH!Flags(S)
<1>1. WH!None \in [{} -> BOOLEAN] /\ DOMAIN WH!None = {}
  BY DEF WH!None
<1> QED
  BY <1>1 DEF WH!Flags

LEMMA PutIs ==
  ASSUME NEW f, NEW w, NEW on
  PROVE  /\ DOMAIN WH!Put(f, w, on) = DOMAIN f \cup {w}
         /\ WH!Put(f, w, on)[w] = on
         /\ \A x \in DOMAIN f : x # w => WH!Put(f, w, on)[x] = f[x]
BY DEF WH!Put

LEMMA PutTyped ==
  ASSUME NEW S, NEW f \in WH!Flags(S), NEW w \in S, NEW on \in BOOLEAN
  PROVE  WH!Put(f, w, on) \in WH!Flags(S)
<1>1. f \in [DOMAIN f -> BOOLEAN] /\ DOMAIN f \subseteq S
  BY FlagsAre
<1>2. WH!Put(f, w, on) \in [DOMAIN f \cup {w} -> BOOLEAN]
  BY <1>1 DEF WH!Put
<1>3. DOMAIN WH!Put(f, w, on) = DOMAIN f \cup {w}
  BY PutIs
<1> QED
  BY <1>1, <1>2, <1>3, FlagsAre

LEMMA DropIs ==
  ASSUME NEW f, NEW w
  PROVE  /\ DOMAIN WH!Drop(f, w) = DOMAIN f \ {w}
         /\ \A x \in DOMAIN f \ {w} : WH!Drop(f, w)[x] = f[x]
BY DEF WH!Drop, WH!Restrict

LEMMA DropTyped ==
  ASSUME NEW S, NEW f \in WH!Flags(S), NEW w
  PROVE  WH!Drop(f, w) \in WH!Flags(S)
<1>1. f \in [DOMAIN f -> BOOLEAN] /\ DOMAIN f \subseteq S
  BY FlagsAre
<1>2. WH!Drop(f, w) \in [DOMAIN f \ {w} -> BOOLEAN]
  BY <1>1 DEF WH!Drop, WH!Restrict
<1>3. DOMAIN WH!Drop(f, w) = DOMAIN f \ {w}
  BY DropIs
<1> QED
  BY <1>1, <1>2, <1>3, FlagsAre

LEMMA PutNewIs ==
  ASSUME NEW f, NEW w, NEW on
  PROVE  /\ DOMAIN WH!PutNew(f, w, on) = DOMAIN f \cup {w}
         /\ w \notin DOMAIN f => WH!PutNew(f, w, on)[w] = on
         /\ \A x \in DOMAIN f : WH!PutNew(f, w, on)[x] = f[x]
<1>1. CASE w \in DOMAIN f
  BY <1>1 DEF WH!PutNew
<1>2. CASE w \notin DOMAIN f
  BY <1>2 DEF WH!PutNew, WH!Put
<1> QED
  BY <1>1, <1>2

LEMMA PutNewTyped ==
  ASSUME NEW S, NEW f \in WH!Flags(S), NEW w \in S, NEW on \in BOOLEAN
  PROVE  WH!PutNew(f, w, on) \in WH!Flags(S)
BY PutTyped DEF WH!PutNew

\* The watchers of a session are its entry in memory, if there is one.
LEMMA OfTable ==
  ASSUME NEW f, NEW s
  PROVE  /\ s \notin DOMAIN f => WH!Restrict(f, {s} \cap DOMAIN f) = WH!None
         /\ s \in DOMAIN f => WH!Restrict(f, {s} \cap DOMAIN f) = [w \in {s} |-> f[s]]
<1>1. ASSUME s \notin DOMAIN f
      PROVE  WH!Restrict(f, {s} \cap DOMAIN f) = WH!None
  BY <1>1 DEF WH!Restrict, WH!None
<1>2. ASSUME s \in DOMAIN f
      PROVE  WH!Restrict(f, {s} \cap DOMAIN f) = [w \in {s} |-> f[s]]
  BY <1>2 DEF WH!Restrict
<1> QED
  BY <1>1, <1>2

-----------------------------------------------------------------------------
(* What a step does to the call that makes it.                             *)

LEMMA GoneOn ==
  ASSUME NEW c \in Clients, call \in [Clients -> HostCall], NEW place \in HostPlaces, WH!Goto(c, place)
  PROVE  /\ call' \in [Clients -> HostCall] /\ call'[c] \in HostCall /\ call'[c].at = place
         /\ call'[c].do = call[c].do /\ call'[c].id = call[c].id /\ call'[c].on = call[c].on
         /\ call'[c].toggle = call[c].toggle /\ call'[c].seen = call[c].seen
<1>1. call' = [call EXCEPT ![c].at = place]
  BY DEF WH!Goto
<1>2. call[c] \in HostCall
  OBVIOUS
<1> QED
  BY <1>1, <1>2 DEF HostCall

LEMMA IdleTypedHost == WH!Idle \in HostCall
BY NoneIs DEF WH!Idle, HostCall, HostPlaces

LEMMA CameBack ==
  ASSUME NEW c \in Clients, call \in [Clients -> HostCall], WH!Return(c)
  PROVE  call' \in [Clients -> HostCall] /\ call'[c] = WH!Idle
BY IdleTypedHost DEF WH!Return

LEMMA Began ==
  ASSUME NEW c \in Clients, call \in [Clients -> HostCall], NEW work \in HostWorks \cup {"close", "restore"}, NEW w \in WH!Watchers,
         NEW place \in HostPlaces, NEW on \in BOOLEAN, WH!Start(c, work, w, place, on)
  PROVE  /\ call[c] = WH!Idle
         /\ call' \in [Clients -> HostCall] /\ call'[c] \in HostCall /\ call'[c].at = place
         /\ call'[c].do = work /\ call'[c].id = w /\ call'[c].on = on /\ call'[c].toggle = FALSE
<1>1. call[c] = WH!Idle /\ call' = [call EXCEPT ![c] = [WH!Idle EXCEPT !.do = work, !.id = w, !.at = place, !.on = on]]
  BY DEF WH!Start
<1>2. [WH!Idle EXCEPT !.do = work, !.id = w, !.at = place, !.on = on] \in HostCall
  BY IdleTypedHost, NoneIs DEF HostCall, WH!Idle
<1>3. call' \in [Clients -> HostCall] /\ call'[c] = [WH!Idle EXCEPT !.do = work, !.id = w, !.at = place, !.on = on]
  BY <1>1, <1>2
<1> QED
  BY <1>1, <1>2, <1>3 DEF WH!Idle

-----------------------------------------------------------------------------
(* The steps, of the one client.                                           *)

HostReady(c) ==
  WH!HostAssumption /\ c \in Clients /\ Clients = {c} /\ call \in [Clients -> HostCall] /\ HostInv(call[c])

HostKept(c) == call' \in [Clients -> HostCall] /\ HostInv(call[c])'

LEMMA AddKeepsHost ==
  ASSUME NEW c, HostReady(c), WH!Add(c)
  PROVE  HostKept(c)
<1> DEFINE k == call[c]
           w == k.id
<1> USE DEF HostReady, HostInv, WH!HostAssumption
<1>1. /\ k.do \in {"create", "update"} /\ k.at = "add" /\ k \in HostCall
      /\ UNCHANGED <<file, live, attached, index, boot, pending, made>>
  BY DEF WH!Add, WH!At
<1>2. /\ w \notin DOMAIN runners /\ w \in WH!Watchers /\ k.on \in BOOLEAN /\ WH!Up /\ w \notin DOMAIN pending /\ w \in made
      /\ (w \in Sessions => w \in live)
  BY <1>1 DEF HostType, OwnersLive, Holds, CallFits, Creating, Deleting, Enabling, Updating, HostCall, HostWorks
<1>3. runners' = WH!Put(runners, w, k.on) /\ WH!Goto(c, "record")
  BY <1>2 DEF WH!Add
<1>4. /\ call' \in [Clients -> HostCall] /\ call'[c] \in HostCall /\ call'[c].at = "record"
      /\ call'[c].do = k.do /\ call'[c].id = w /\ call'[c].on = k.on /\ call'[c].toggle = k.toggle /\ call'[c].seen = k.seen
  BY <1>3, GoneOn DEF HostPlaces
<1>5. DOMAIN runners' = DOMAIN runners \cup {w} /\ runners'[w] = k.on /\ \A x \in DOMAIN runners : x # w => runners'[x] = runners[x]
  BY <1>3 DEF WH!Put
<1>6. runners' \in WH!Flags(WH!Watchers)
  BY <1>2, <1>3, PutTyped DEF HostType
<1> HIDE DEF k, w
<1>7. HostType(call[c])'
  BY <1>1, <1>2, <1>3, <1>4, <1>5, <1>6 DEF HostType, HostWorks, k, w
<1>8. CallFits(call[c])'
  BY <1>1, <1>2, <1>3, <1>4, <1>5, <1>6 DEF CallFits, Creating, Deleting, Enabling, Updating, Closing, Restoring, Holds, WH!Up, HostWorks, k, w
<1>9. BootFits'
  BY <1>1, <1>2, <1>3, <1>4, <1>5, <1>6 DEF BootFits, WH!Up, k, w
<1>10. KnownIds'
  BY <1>1, <1>2, <1>3, <1>4, <1>5, <1>6 DEF KnownIds, k, w
<1>11. OwnersLive(call[c])'
  BY <1>1, <1>2, <1>3, <1>4, <1>5, <1>6 DEF OwnersLive, Holds, HostWorks, k, w
<1>12. FreeAsDefined(call[c])'
  BY <1>1, <1>2, <1>3, <1>4, <1>5, <1>6 DEF FreeAsDefined, Holds, HostWorks, k, w
<1>13. AttachedAsDefined(call[c])'
  BY <1>1, <1>2, <1>3, <1>4, <1>5, <1>6 DEF AttachedAsDefined, Holds, HostWorks, WH!Up, k, w
<1>14. IndexAsDefined(call[c])'
  BY <1>1, <1>2, <1>3, <1>4, <1>5, <1>6 DEF IndexAsDefined, WH!Of, HostWorks, k, w
<1> QED
  BY <1>1, <1>2, <1>3, <1>4, <1>5, <1>6, <1>7, <1>8, <1>9, <1>10, <1>11, <1>12, <1>13, <1>14 DEF HostKept

LEMMA RemoveKeepsHost ==
  ASSUME NEW c, HostReady(c), WH!Remove(c)
  PROVE  HostKept(c)
<1> DEFINE k == call[c]
           w == k.id
<1> USE DEF HostReady, HostInv, WH!HostAssumption
<1>1. /\ k.do \in {"delete", "update"} /\ k.at = "remove" /\ k \in HostCall
      /\ UNCHANGED <<file, live, attached, index, boot, pending, made>>
  BY DEF WH!Remove, WH!At
<1>2. w \in WH!Watchers /\ WH!Up /\ w \notin DOMAIN pending /\ w \in made
  BY <1>1 DEF HostType, OwnersLive, Holds, CallFits, Creating, Deleting, Enabling, Updating, HostCall, HostWorks
<1>3. \/ WH!Goto(c, "record") /\ k.do = "delete"
      \/ WH!Return(c) /\ k.do = "delete" /\ w \notin DOMAIN runners
      \/ WH!Goto(c, "add") /\ k.do = "update"
  BY <1>1 DEF WH!Remove
<1>4. \/ /\ call' \in [Clients -> HostCall] /\ call'[c] \in HostCall /\ call'[c].at = (IF k.do = "delete" THEN "record" ELSE "add")
         /\ call'[c].do = k.do /\ call'[c].id = w /\ call'[c].on = k.on /\ call'[c].toggle = k.toggle /\ call'[c].seen = k.seen
      \/ /\ call' \in [Clients -> HostCall] /\ call'[c] = WH!Idle /\ WH!Idle.do = "none" /\ WH!Idle.at = "none" /\ WH!Idle.id = "none"
         /\ WH!Idle \in HostCall /\ w \notin DOMAIN runners
  BY <1>3, GoneOn, CameBack, IdleTypedHost DEF HostPlaces, WH!Idle
<1>5. DOMAIN runners' = DOMAIN runners \ {w} /\ \A x \in DOMAIN runners' : runners'[x] = runners[x]
  BY DEF WH!Remove, WH!Drop, WH!Restrict
<1>6. runners' \in WH!Flags(WH!Watchers)
  BY DropTyped DEF WH!Remove, HostType
<1> HIDE DEF k, w
<1>7. HostType(call[c])'
  BY <1>1, <1>2, <1>3, <1>4, <1>5, <1>6 DEF HostType, HostWorks, k, w
<1>8. CallFits(call[c])'
  BY <1>1, <1>2, <1>3, <1>4, <1>5, <1>6 DEF CallFits, Creating, Deleting, Enabling, Updating, Closing, Restoring, Holds, WH!Up, HostWorks, k, w
<1>9. BootFits'
  BY <1>1, <1>2, <1>3, <1>4, <1>5, <1>6 DEF BootFits, WH!Up, k, w
<1>10. KnownIds'
  BY <1>1, <1>2, <1>3, <1>4, <1>5, <1>6 DEF KnownIds, k, w
<1>11. OwnersLive(call[c])'
  BY <1>1, <1>2, <1>3, <1>4, <1>5, <1>6 DEF OwnersLive, Holds, HostWorks, k, w
<1>12. FreeAsDefined(call[c])'
  BY <1>1, <1>2, <1>3, <1>4, <1>5, <1>6 DEF FreeAsDefined, Holds, HostWorks, k, w
<1>13. AttachedAsDefined(call[c])'
  BY <1>1, <1>2, <1>3, <1>4, <1>5, <1>6 DEF AttachedAsDefined, Holds, HostWorks, WH!Up, k, w
<1>14. IndexAsDefined(call[c])'
  BY <1>1, <1>2, <1>3, <1>4, <1>5, <1>6 DEF IndexAsDefined, WH!Of, HostWorks, k, w
<1> QED
  BY <1>1, <1>2, <1>3, <1>4, <1>5, <1>6, <1>7, <1>8, <1>9, <1>10, <1>11, <1>12, <1>13, <1>14 DEF HostKept

LEMMA RecordAttachedKeepsHost ==
  ASSUME NEW c, HostReady(c), WH!RecordAttached(c)
  PROVE  HostKept(c)
<1> DEFINE k == call[c]
           w == k.id
<1> USE DEF HostReady, HostInv, WH!HostAssumption
<1>1. /\ k.at = "record" /\ w \in Sessions /\ k \in HostCall
      /\ WH!Goto(c, "save") /\ UNCHANGED <<runners, file, live, index, boot, pending, made>>
  BY DEF WH!RecordAttached
<1>2. /\ k.do \in HostWorks /\ w \in WH!Watchers /\ WH!Up /\ w \notin DOMAIN pending /\ w \in made /\ k.on \in BOOLEAN
      /\ (k.do = "create" => w \in live)
  BY <1>1 DEF HostType, OwnersLive, Holds, CallFits, Creating, Deleting, Enabling, Updating, HostCall, HostWorks, Updating, Closing, Restoring, WH!Idle
<1>3. /\ call' \in [Clients -> HostCall] /\ call'[c] \in HostCall /\ call'[c].at = "save"
      /\ call'[c].do = k.do /\ call'[c].id = w /\ call'[c].on = k.on /\ call'[c].toggle = k.toggle /\ call'[c].seen = k.seen
  BY <1>1, GoneOn DEF HostPlaces
<1>4. attached' = IF k.do = "create" THEN WH!Put(attached, w, k.on)
                  ELSE IF k.do = "delete" THEN WH!Drop(attached, w)
                  ELSE IF w \in DOMAIN attached THEN WH!Put(attached, w, k.on) ELSE attached
  BY <1>2 DEF WH!RecordAttached, HostWorks
<1>5. /\ k.do = "create" => w \in DOMAIN attached' /\ attached'[w] = k.on
      /\ k.do = "delete" => w \notin DOMAIN attached'
      /\ k.do \in {"enable", "update"} => (w \in DOMAIN attached' <=> w \in DOMAIN attached)
      /\ k.do \in {"enable", "update"} /\ w \in DOMAIN attached => attached'[w] = k.on
  BY <1>4 DEF WH!Put, WH!Drop, WH!Restrict
<1>6. \A x : x # w => (x \in DOMAIN attached' <=> x \in DOMAIN attached)
  BY <1>4 DEF WH!Put, WH!Drop, WH!Restrict
<1>7. \A x \in DOMAIN attached : x # w => attached'[x] = attached[x]
  BY <1>4 DEF WH!Put, WH!Drop, WH!Restrict
<1>8. attached' \in WH!Flags(Sessions)
  BY <1>1, <1>2, <1>4, PutTyped, DropTyped DEF HostType
<1>9. \A x \in Sessions \ {w} : WH!Of(x)' = WH!Of(x)
  <2> SUFFICES ASSUME NEW x \in Sessions \ {w}
                 PROVE  WH!Of(x)' = WH!Of(x)
    OBVIOUS
  <2>1. CASE x \in DOMAIN attached
    <3>1. x \in DOMAIN attached' /\ attached'[x] = attached[x]
      BY <2>1, <1>6, <1>7
    <3>2. WH!Of(x) = [v \in {x} |-> attached[x]] /\ WH!Of(x)' = [v \in {x} |-> attached'[x]]
      BY <2>1, <3>1, OfTable DEF WH!Of
    <3> QED
      BY <3>1, <3>2
  <2>2. CASE x \notin DOMAIN attached
    BY <2>2, <1>6, <1>7, OfTable DEF WH!Of
  <2> QED
    BY <2>1, <2>2
<1> HIDE DEF k, w
<1>10. HostType(call[c])'
  BY <1>1, <1>2, <1>3, <1>4, <1>5, <1>6, <1>7, <1>8, <1>9 DEF HostType, HostWorks, k, w
<1>11. CallFits(call[c])'
  BY <1>1, <1>2, <1>3, <1>4, <1>5, <1>6, <1>7, <1>8, <1>9 DEF CallFits, Creating, Deleting, Enabling, Updating, Closing, Restoring, Holds, WH!Up, HostWorks, k, w
<1>12. BootFits'
  BY <1>1, <1>2, <1>3, <1>4, <1>5, <1>6, <1>7, <1>8, <1>9 DEF BootFits, WH!Up, k, w
<1>13. KnownIds'
  BY <1>1, <1>2, <1>3, <1>4, <1>5, <1>6, <1>7, <1>8, <1>9 DEF KnownIds, k, w
<1>14. OwnersLive(call[c])'
  BY <1>1, <1>2, <1>3, <1>4, <1>5, <1>6, <1>7, <1>8, <1>9 DEF OwnersLive, Holds, HostWorks, k, w
<1>15. FreeAsDefined(call[c])'
  BY <1>1, <1>2, <1>3, <1>4, <1>5, <1>6, <1>7, <1>8, <1>9 DEF FreeAsDefined, Holds, HostWorks, k, w
<1>16. AttachedAsDefined(call[c])'
  BY <1>1, <1>2, <1>3, <1>4, <1>5, <1>6, <1>7, <1>8, <1>9 DEF AttachedAsDefined, Holds, HostWorks, WH!Up, k, w, CallFits, Creating, Deleting, Enabling, Updating, Closing, Restoring
<1>17. IndexAsDefined(call[c])'
  <2> SUFFICES ASSUME NEW s \in live
               PROVE  s \in DOMAIN index /\ (index[s] = WH!Of(s)' \/ s = w)
    BY <1>1, <1>2, <1>3 DEF IndexAsDefined, HostWorks
  <2>1. s \in DOMAIN index /\ (index[s] = WH!Of(s) \/ s = w)
    BY <1>1 DEF IndexAsDefined, k, w
  <2>2. s \in Sessions
    BY DEF HostType
  <2> QED
    BY <2>1, <2>2, <1>9
<1> QED
  BY <1>1, <1>2, <1>3, <1>4, <1>5, <1>6, <1>7, <1>8, <1>9, <1>10, <1>11, <1>12, <1>13, <1>14, <1>15, <1>16, <1>17 DEF HostKept

LEMMA SaveAttachedKeepsHost ==
  ASSUME NEW c, HostReady(c), WH!SaveAttached(c)
  PROVE  HostKept(c)
<1> DEFINE k == call[c]
           w == k.id
<1> USE DEF HostReady, HostInv, WH!HostAssumption
<1>1. /\ k.at = "save" /\ w \in Sessions /\ k \in HostCall
      /\ WH!Return(c) /\ UNCHANGED <<runners, file, live, attached, boot, pending, made>>
  BY DEF WH!SaveAttached
<1>2. k.do \in HostWorks /\ w \in made /\ k.on \in BOOLEAN
  BY <1>1 DEF HostType, OwnersLive, Holds, CallFits, Creating, Deleting, Enabling, Updating, HostCall, HostWorks, Updating, Closing, Restoring, WH!Idle
<1>3. call' \in [Clients -> HostCall] /\ call'[c] = WH!Idle /\ WH!Idle.do = "none" /\ WH!Idle.at = "none" /\ WH!Idle.id = "none" /\ WH!Idle \in HostCall
  BY <1>1, CameBack, IdleTypedHost DEF WH!Idle
<1>4. /\ \A s \in DOMAIN index : s # w => s \in DOMAIN index' /\ index'[s] = index[s]
      /\ \A s \in DOMAIN index' : s # w => s \in DOMAIN index
  BY DEF WH!SaveAttached, WH!Put
<1>5. /\ w \in live => w \in DOMAIN index' /\ index'[w] = WH!Of(w)
      /\ w \notin live => index' = index
  BY DEF WH!SaveAttached, WH!Put
<1>6. WH!Of(w) \in {WH!None, [v \in {w} |-> TRUE], [v \in {w} |-> FALSE]}
  <2>1. CASE w \in DOMAIN attached
    <3>1. attached[w] \in BOOLEAN
      BY <2>1, FlagsAre DEF HostType
    <3> QED
      BY <2>1, <3>1, OfTable DEF WH!Of
  <2>2. CASE w \notin DOMAIN attached
    BY <2>2, OfTable DEF WH!Of
  <2> QED
    BY <2>1, <2>2
<1> HIDE DEF k, w
<1>7. HostType(call[c])'
  BY <1>1, <1>2, <1>3, <1>4, <1>5, <1>6 DEF HostType, HostWorks, k, w
<1>8. CallFits(call[c])'
  BY <1>1, <1>2, <1>3, <1>4, <1>5, <1>6 DEF CallFits, Creating, Deleting, Enabling, Updating, Closing, Restoring, Holds, WH!Up, HostWorks, k, w
<1>9. BootFits'
  BY <1>1, <1>2, <1>3, <1>4, <1>5, <1>6 DEF BootFits, WH!Up, k, w
<1>10. KnownIds'
  BY <1>1, <1>2, <1>3, <1>4, <1>5, <1>6 DEF KnownIds, k, w
<1>11. OwnersLive(call[c])'
  BY <1>1, <1>2, <1>3, <1>4, <1>5, <1>6 DEF OwnersLive, Holds, HostWorks, k, w
<1>12. FreeAsDefined(call[c])'
  BY <1>1, <1>2, <1>3, <1>4, <1>5, <1>6 DEF FreeAsDefined, Holds, HostWorks, k, w
<1>13. AttachedAsDefined(call[c])'
  BY <1>1, <1>2, <1>3, <1>4, <1>5, <1>6 DEF AttachedAsDefined, Holds, HostWorks, WH!Up, k, w
<1>14. IndexAsDefined(call[c])'
  BY <1>1, <1>2, <1>3, <1>4, <1>5, <1>6 DEF IndexAsDefined, WH!Of, HostWorks, k, w
<1> QED
  BY <1>1, <1>2, <1>3, <1>4, <1>5, <1>6, <1>7, <1>8, <1>9, <1>10, <1>11, <1>12, <1>13, <1>14 DEF HostKept

LEMMA LoadFileKeepsHost ==
  ASSUME NEW c, HostReady(c), WH!LoadFile(c)
  PROVE  HostKept(c)
<1> DEFINE k == call[c]
           w == k.id
<1> USE DEF HostReady, HostInv, WH!HostAssumption
<1>1. /\ k.at = "record" /\ w \in Free /\ k \in HostCall
      /\ UNCHANGED <<runners, file, live, attached, index, boot, pending, made>>
  BY DEF WH!LoadFile
<1>2. /\ k.do \in HostWorks /\ w \in WH!Watchers /\ WH!Up /\ w \notin DOMAIN pending /\ w \in made /\ k.on \in BOOLEAN
      /\ (k.do = "enable" => w \in DOMAIN file)
  BY <1>1 DEF HostType, OwnersLive, Holds, CallFits, Creating, Deleting, Enabling, Updating, HostCall, HostWorks, Updating, Closing, Restoring, WH!Idle
<1>3. call' = [call EXCEPT ![c].at = "save", ![c].seen = file] /\ file \in WH!Flags(Free)
  BY <1>2 DEF WH!LoadFile, HostType
<1>4. /\ call' \in [Clients -> HostCall] /\ call'[c] \in HostCall /\ call'[c].at = "save"
      /\ call'[c].do = k.do /\ call'[c].id = w /\ call'[c].on = k.on /\ call'[c].toggle = k.toggle /\ call'[c].seen = file
  BY <1>3 DEF HostCall, HostPlaces
<1>5. DOMAIN attached \subseteq Sessions
  BY FlagsAre DEF HostType
<1> HIDE DEF k, w
<1>6. HostType(call[c])'
  BY <1>1, <1>2, <1>3, <1>4, <1>5 DEF HostType, HostWorks, k, w
<1>7. CallFits(call[c])'
  BY <1>1, <1>2, <1>3, <1>4, <1>5 DEF CallFits, Creating, Deleting, Enabling, Updating, Closing, Restoring, Holds, WH!Up, HostWorks, k, w, HostType
<1>8. BootFits'
  BY <1>1, <1>2, <1>3, <1>4, <1>5 DEF BootFits, WH!Up, k, w
<1>9. KnownIds'
  BY <1>1, <1>2, <1>3, <1>4, <1>5 DEF KnownIds, k, w
<1>10. OwnersLive(call[c])'
  BY <1>1, <1>2, <1>3, <1>4, <1>5 DEF OwnersLive, Holds, HostWorks, k, w
<1>11. FreeAsDefined(call[c])'
  BY <1>1, <1>2, <1>3, <1>4, <1>5 DEF FreeAsDefined, Holds, HostWorks, k, w
<1>12. AttachedAsDefined(call[c])'
  BY <1>1, <1>2, <1>3, <1>4, <1>5 DEF AttachedAsDefined, Holds, HostWorks, WH!Up, k, w, HostType
<1>13. IndexAsDefined(call[c])'
  BY <1>1, <1>2, <1>3, <1>4, <1>5 DEF IndexAsDefined, WH!Of, HostWorks, k, w
<1> QED
  BY <1>1, <1>2, <1>3, <1>4, <1>5, <1>6, <1>7, <1>8, <1>9, <1>10, <1>11, <1>12, <1>13 DEF HostKept

LEMMA SaveFileKeepsHost ==
  ASSUME NEW c, HostReady(c), WH!SaveFile(c)
  PROVE  HostKept(c)
<1> DEFINE k == call[c]
           w == k.id
<1> USE DEF HostReady, HostInv, WH!HostAssumption
<1>1. /\ k.at = "save" /\ w \in Free /\ k \in HostCall
      /\ WH!Return(c) /\ UNCHANGED <<runners, live, attached, index, boot, pending, made>>
  BY DEF WH!SaveFile
<1>2. k.do \in HostWorks /\ w \in made /\ k.on \in BOOLEAN /\ k.seen = file /\ WH!Up
  BY <1>1 DEF HostType, OwnersLive, Holds, CallFits, Creating, Deleting, Enabling, Updating, HostCall, HostWorks, Updating, Closing, Restoring, WH!Idle
<1>3. call' \in [Clients -> HostCall] /\ call'[c] = WH!Idle /\ WH!Idle.do = "none" /\ WH!Idle.at = "none" /\ WH!Idle.id = "none" /\ WH!Idle \in HostCall
  BY <1>1, CameBack, IdleTypedHost DEF WH!Idle
<1>4. file' = IF k.do = "delete" THEN WH!Drop(file, w) ELSE WH!Put(file, w, k.on)
  BY <1>2 DEF WH!SaveFile, WH!Upsert
<1>5. /\ k.do = "delete" => w \notin DOMAIN file'
      /\ k.do # "delete" => w \in DOMAIN file' /\ file'[w] = k.on
  BY <1>4 DEF WH!Put, WH!Drop, WH!Restrict
<1>6. \A x : x # w => (x \in DOMAIN file' <=> x \in DOMAIN file)
  BY <1>4 DEF WH!Put, WH!Drop, WH!Restrict
<1>7. \A x \in DOMAIN file : x # w => file'[x] = file[x]
  BY <1>4 DEF WH!Put, WH!Drop, WH!Restrict
<1>8. file' \in WH!Flags(Free)
  BY <1>1, <1>2, <1>4, PutTyped, DropTyped DEF HostType
<1> HIDE DEF k, w
<1>9. HostType(call[c])'
  BY <1>1, <1>2, <1>3, <1>4, <1>5, <1>6, <1>7, <1>8 DEF HostType, HostWorks, k, w
<1>10. CallFits(call[c])'
  BY <1>1, <1>2, <1>3, <1>4, <1>5, <1>6, <1>7, <1>8 DEF CallFits, Creating, Deleting, Enabling, Updating, Closing, Restoring, Holds, WH!Up, HostWorks, k, w
<1>11. BootFits'
  BY <1>1, <1>2, <1>3, <1>4, <1>5, <1>6, <1>7, <1>8 DEF BootFits, WH!Up, k, w
<1>12. KnownIds'
  BY <1>1, <1>2, <1>3, <1>4, <1>5, <1>6, <1>7, <1>8 DEF KnownIds, k, w
<1>13. OwnersLive(call[c])'
  BY <1>1, <1>2, <1>3, <1>4, <1>5, <1>6, <1>7, <1>8 DEF OwnersLive, Holds, HostWorks, k, w
<1>14. FreeAsDefined(call[c])'
  BY <1>1, <1>2, <1>3, <1>4, <1>5, <1>6, <1>7, <1>8 DEF FreeAsDefined, Holds, HostWorks, k, w, CallFits, Creating, Deleting, Enabling, Updating, Closing, Restoring
<1>15. AttachedAsDefined(call[c])'
  BY <1>1, <1>2, <1>3, <1>4, <1>5, <1>6, <1>7, <1>8 DEF AttachedAsDefined, Holds, HostWorks, WH!Up, k, w
<1>16. IndexAsDefined(call[c])'
  BY <1>1, <1>2, <1>3, <1>4, <1>5, <1>6, <1>7, <1>8 DEF IndexAsDefined, WH!Of, HostWorks, k, w, HostType
<1> QED
  BY <1>1, <1>2, <1>3, <1>4, <1>5, <1>6, <1>7, <1>8, <1>9, <1>10, <1>11, <1>12, <1>13, <1>14, <1>15, <1>16 DEF HostKept

LEMMA CreateKeepsHost ==
  ASSUME NEW c, HostReady(c), NEW w \in WH!Watchers, NEW on \in BOOLEAN, WH!CreateWatcher(c, w, on)
  PROVE  HostKept(c)
<1> DEFINE k == call[c]
<1> USE DEF HostReady, HostInv, WH!HostAssumption
<1>1. /\ WH!Up /\ w \notin made /\ (w \in Sessions => w \in live) /\ made' = made \cup {w}
      /\ WH!Start(c, "create", w, "add", on) /\ UNCHANGED <<runners, file, live, attached, index, boot, pending>>
  BY DEF WH!CreateWatcher
<1>2. k = WH!Idle /\ WH!Idle.do = "none" /\ WH!Idle.at = "none" /\ WH!Idle.id = "none"
  BY <1>1 DEF WH!Start, WH!Idle
<1>3. /\ call' \in [Clients -> HostCall] /\ call'[c] \in HostCall /\ call'[c].at = "add"
      /\ call'[c].do = "create" /\ call'[c].id = w /\ call'[c].on = on
  <2>1. "add" \in HostPlaces /\ "create" \in HostWorks \cup {"close", "restore"}
    BY DEF HostPlaces, HostWorks
  <2>2. CASE on = TRUE
    BY <1>1, <2>1, <2>2, Began
  <2>3. CASE on = FALSE
    BY <1>1, <2>1, <2>3, Began
  <2> QED
    BY <2>2, <2>3
<1>4. w \notin DOMAIN runners \cup DOMAIN pending \cup DOMAIN file \cup DOMAIN attached
  BY <1>1 DEF KnownIds
<1> HIDE DEF k
<1>5. HostType(call[c])'
  BY <1>1, <1>2, <1>3, <1>4 DEF HostType, HostWorks, k
<1>6. CallFits(call[c])'
  BY <1>1, <1>2, <1>3, <1>4 DEF CallFits, Creating, Deleting, Enabling, Updating, Closing, Restoring, Holds, WH!Up, HostWorks, k
<1>7. BootFits'
  BY <1>1, <1>2, <1>3, <1>4 DEF BootFits, WH!Up, k
<1>8. KnownIds'
  BY <1>1, <1>2, <1>3, <1>4 DEF KnownIds, k
<1>9. OwnersLive(call[c])'
  BY <1>1, <1>2, <1>3, <1>4 DEF OwnersLive, Holds, HostWorks, k
<1>10. FreeAsDefined(call[c])'
  BY <1>1, <1>2, <1>3, <1>4 DEF FreeAsDefined, Holds, HostWorks, k
<1>11. AttachedAsDefined(call[c])'
  BY <1>1, <1>2, <1>3, <1>4 DEF AttachedAsDefined, Holds, HostWorks, WH!Up, k
<1>12. IndexAsDefined(call[c])'
  BY <1>1, <1>2, <1>3, <1>4 DEF IndexAsDefined, WH!Of, HostWorks, k
<1> QED
  BY <1>1, <1>2, <1>3, <1>4, <1>5, <1>6, <1>7, <1>8, <1>9, <1>10, <1>11, <1>12 DEF HostKept

LEMMA DeleteKeepsHost ==
  ASSUME NEW c, HostReady(c), NEW w \in WH!Watchers, WH!DeleteWatcher(c, w)
  PROVE  HostKept(c)
<1> DEFINE k == call[c]
<1> USE DEF HostReady, HostInv, WH!HostAssumption
<1>1. /\ WH!Up /\ w \in DOMAIN runners
      /\ WH!Start(c, "delete", w, "remove", FALSE) /\ UNCHANGED <<runners, file, live, attached, index, boot, pending, made>>
  BY DEF WH!DeleteWatcher
<1>2. k = WH!Idle /\ WH!Idle.do = "none" /\ WH!Idle.at = "none" /\ WH!Idle.id = "none"
  BY <1>1 DEF WH!Start, WH!Idle
<1>3. /\ call' \in [Clients -> HostCall] /\ call'[c] \in HostCall /\ call'[c].at = "remove"
      /\ call'[c].do = "delete" /\ call'[c].id = w /\ call'[c].on = FALSE
  BY <1>1, Began DEF HostPlaces, HostWorks
<1>4. w \in made /\ w \notin DOMAIN pending
  BY <1>1 DEF KnownIds, OwnersLive
<1> HIDE DEF k
<1>5. HostType(call[c])'
  BY <1>1, <1>2, <1>3, <1>4 DEF HostType, HostWorks, k
<1>6. CallFits(call[c])'
  BY <1>1, <1>2, <1>3, <1>4 DEF CallFits, Creating, Deleting, Enabling, Updating, Closing, Restoring, Holds, WH!Up, HostWorks, k
<1>7. BootFits'
  BY <1>1, <1>2, <1>3, <1>4 DEF BootFits, WH!Up, k
<1>8. KnownIds'
  BY <1>1, <1>2, <1>3, <1>4 DEF KnownIds, k
<1>9. OwnersLive(call[c])'
  BY <1>1, <1>2, <1>3, <1>4 DEF OwnersLive, Holds, HostWorks, k
<1>10. FreeAsDefined(call[c])'
  BY <1>1, <1>2, <1>3, <1>4 DEF FreeAsDefined, Holds, HostWorks, k
<1>11. AttachedAsDefined(call[c])'
  BY <1>1, <1>2, <1>3, <1>4 DEF AttachedAsDefined, Holds, HostWorks, WH!Up, k
<1>12. IndexAsDefined(call[c])'
  BY <1>1, <1>2, <1>3, <1>4 DEF IndexAsDefined, WH!Of, HostWorks, k
<1> QED
  BY <1>1, <1>2, <1>3, <1>4, <1>5, <1>6, <1>7, <1>8, <1>9, <1>10, <1>11, <1>12 DEF HostKept

LEMMA UpdateKeepsHost ==
  ASSUME NEW c, HostReady(c), NEW w \in WH!Watchers, WH!UpdateWatcher(c, w)
  PROVE  HostKept(c)
<1> DEFINE k == call[c]
<1> USE DEF HostReady, HostInv, WH!HostAssumption
<1>1. /\ WH!Up /\ w \in DOMAIN runners
      /\ WH!Start(c, "update", w, "lookup", FALSE) /\ UNCHANGED <<runners, file, live, attached, index, boot, pending, made>>
  BY DEF WH!UpdateWatcher
<1>2. k = WH!Idle /\ WH!Idle.do = "none" /\ WH!Idle.at = "none" /\ WH!Idle.id = "none"
  BY <1>1 DEF WH!Start, WH!Idle
<1>3. /\ call' \in [Clients -> HostCall] /\ call'[c] \in HostCall /\ call'[c].at = "lookup"
      /\ call'[c].do = "update" /\ call'[c].id = w /\ call'[c].on = FALSE
  BY <1>1, Began DEF HostPlaces, HostWorks
<1>4. w \in made /\ w \notin DOMAIN pending
  BY <1>1 DEF KnownIds, OwnersLive
<1> HIDE DEF k
<1>5. HostType(call[c])'
  BY <1>1, <1>2, <1>3, <1>4 DEF HostType, HostWorks, k
<1>6. CallFits(call[c])'
  BY <1>1, <1>2, <1>3, <1>4 DEF CallFits, Creating, Deleting, Enabling, Updating, Closing, Restoring, Holds, WH!Up, HostWorks, k
<1>7. BootFits'
  BY <1>1, <1>2, <1>3, <1>4 DEF BootFits, WH!Up, k
<1>8. KnownIds'
  BY <1>1, <1>2, <1>3, <1>4 DEF KnownIds, k
<1>9. OwnersLive(call[c])'
  BY <1>1, <1>2, <1>3, <1>4 DEF OwnersLive, Holds, HostWorks, k
<1>10. FreeAsDefined(call[c])'
  BY <1>1, <1>2, <1>3, <1>4 DEF FreeAsDefined, Holds, HostWorks, k
<1>11. AttachedAsDefined(call[c])'
  BY <1>1, <1>2, <1>3, <1>4 DEF AttachedAsDefined, Holds, HostWorks, WH!Up, k
<1>12. IndexAsDefined(call[c])'
  BY <1>1, <1>2, <1>3, <1>4 DEF IndexAsDefined, WH!Of, HostWorks, k
<1> QED
  BY <1>1, <1>2, <1>3, <1>4, <1>5, <1>6, <1>7, <1>8, <1>9, <1>10, <1>11, <1>12 DEF HostKept

LEMMA EnableKeepsHost ==
  ASSUME NEW c, HostReady(c), NEW w \in WH!Watchers, NEW on \in BOOLEAN, WH!SetWatcherEnabled(c, w, on)
  PROVE  HostKept(c)
<1> DEFINE k == call[c]
<1> USE DEF HostReady, HostInv, WH!HostAssumption
<1>1. /\ WH!Up /\ w \in DOMAIN runners /\ k = WH!Idle
      /\ UNCHANGED <<runners, file, live, attached, index, boot, pending, made>>
  BY DEF WH!SetWatcherEnabled
<1>2. WH!Idle.do = "none" /\ WH!Idle.at = "none" /\ WH!Idle.id = "none"
  BY DEF WH!Idle
<1>3. runners[w] \in BOOLEAN
  BY <1>1, FlagsAre DEF HostType
<1>4. [WH!Idle EXCEPT !.do = "enable", !.id = w, !.at = "toggle", !.on = on, !.toggle = (runners[w] # on)] \in HostCall
  BY IdleTypedHost, NoneIs DEF HostCall, WH!Idle, HostPlaces, HostWorks
<1>5. /\ call' \in [Clients -> HostCall] /\ call'[c] \in HostCall
      /\ call'[c] = [WH!Idle EXCEPT !.do = "enable", !.id = w, !.at = "toggle", !.on = on, !.toggle = (runners[w] # on)]
  BY <1>4 DEF WH!SetWatcherEnabled
<1>6. /\ call'[c].at = "toggle" /\ call'[c].do = "enable" /\ call'[c].id = w /\ call'[c].on = on
      /\ call'[c].toggle = (runners[w] # on)
  BY <1>5 DEF WH!Idle
<1>7. w \in made /\ w \notin DOMAIN pending /\ (w \in Free => w \in DOMAIN file)
  BY <1>1, <1>2 DEF KnownIds, OwnersLive, FreeAsDefined, Holds, WH!Up, HostWorks
<1> HIDE DEF k
<1>8. HostType(call[c])'
  BY <1>1, <1>2, <1>3, <1>4, <1>5, <1>6, <1>7 DEF HostType, HostWorks, k
<1>9. CallFits(call[c])'
  BY <1>1, <1>2, <1>3, <1>4, <1>5, <1>6, <1>7 DEF CallFits, Creating, Deleting, Enabling, Updating, Closing, Restoring, Holds, WH!Up, HostWorks, k
<1>10. BootFits'
  BY <1>1, <1>2, <1>3, <1>4, <1>5, <1>6, <1>7 DEF BootFits, WH!Up, k
<1>11. KnownIds'
  BY <1>1, <1>2, <1>3, <1>4, <1>5, <1>6, <1>7 DEF KnownIds, k
<1>12. OwnersLive(call[c])'
  BY <1>1, <1>2, <1>3, <1>4, <1>5, <1>6, <1>7 DEF OwnersLive, Holds, HostWorks, k
<1>13. FreeAsDefined(call[c])'
  BY <1>1, <1>2, <1>3, <1>4, <1>5, <1>6, <1>7 DEF FreeAsDefined, Holds, HostWorks, k
<1>14. AttachedAsDefined(call[c])'
  BY <1>1, <1>2, <1>3, <1>4, <1>5, <1>6, <1>7 DEF AttachedAsDefined, Holds, HostWorks, WH!Up, k
<1>15. IndexAsDefined(call[c])'
  BY <1>1, <1>2, <1>3, <1>4, <1>5, <1>6, <1>7 DEF IndexAsDefined, WH!Of, HostWorks, k
<1> QED
  BY <1>1, <1>2, <1>3, <1>4, <1>5, <1>6, <1>7, <1>8, <1>9, <1>10, <1>11, <1>12, <1>13, <1>14, <1>15 DEF HostKept

LEMMA ToggleKeepsHost ==
  ASSUME NEW c, HostReady(c), WH!Toggle(c)
  PROVE  HostKept(c)
<1> DEFINE k == call[c]
           w == k.id
<1> USE DEF HostReady, HostInv, WH!HostAssumption
<1>1. /\ k.do = "enable" /\ k.at = "toggle" /\ k \in HostCall
      /\ UNCHANGED <<file, live, attached, index, boot, pending, made>>
  BY DEF WH!Toggle, WH!At
<1>2. /\ w \in WH!Watchers /\ WH!Up /\ w \notin DOMAIN pending /\ w \in made /\ k.on \in BOOLEAN /\ k.toggle \in BOOLEAN
      /\ w \in DOMAIN runners /\ runners[w] = (IF k.toggle THEN ~k.on ELSE k.on)
  BY <1>1 DEF HostType, OwnersLive, Holds, CallFits, Creating, Deleting, Enabling, Updating, HostCall, HostWorks
<1>3. runners' = (IF k.toggle THEN WH!Put(runners, w, ~runners[w]) ELSE runners) /\ WH!Goto(c, "record")
  BY <1>2 DEF WH!Toggle
<1>4. /\ call' \in [Clients -> HostCall] /\ call'[c] \in HostCall /\ call'[c].at = "record"
      /\ call'[c].do = k.do /\ call'[c].id = w /\ call'[c].on = k.on /\ call'[c].toggle = k.toggle /\ call'[c].seen = k.seen
  BY <1>3, GoneOn DEF HostPlaces
<1>5. DOMAIN runners' = DOMAIN runners /\ runners'[w] = k.on /\ \A x \in DOMAIN runners : x # w => runners'[x] = runners[x]
  BY <1>2, <1>3 DEF WH!Put
<1>6. runners' \in WH!Flags(WH!Watchers)
  BY <1>2, <1>3, PutTyped DEF HostType
<1> HIDE DEF k, w
<1>7. HostType(call[c])'
  BY <1>1, <1>2, <1>3, <1>4, <1>5, <1>6 DEF HostType, HostWorks, k, w
<1>8. CallFits(call[c])'
  BY <1>1, <1>2, <1>3, <1>4, <1>5, <1>6 DEF CallFits, Creating, Deleting, Enabling, Updating, Closing, Restoring, Holds, WH!Up, HostWorks, k, w
<1>9. BootFits'
  BY <1>1, <1>2, <1>3, <1>4, <1>5, <1>6 DEF BootFits, WH!Up, k, w
<1>10. KnownIds'
  BY <1>1, <1>2, <1>3, <1>4, <1>5, <1>6 DEF KnownIds, k, w
<1>11. OwnersLive(call[c])'
  BY <1>1, <1>2, <1>3, <1>4, <1>5, <1>6 DEF OwnersLive, Holds, HostWorks, k, w
<1>12. FreeAsDefined(call[c])'
  BY <1>1, <1>2, <1>3, <1>4, <1>5, <1>6 DEF FreeAsDefined, Holds, HostWorks, k, w
<1>13. AttachedAsDefined(call[c])'
  BY <1>1, <1>2, <1>3, <1>4, <1>5, <1>6 DEF AttachedAsDefined, Holds, HostWorks, WH!Up, k, w
<1>14. IndexAsDefined(call[c])'
  BY <1>1, <1>2, <1>3, <1>4, <1>5, <1>6 DEF IndexAsDefined, WH!Of, HostWorks, k, w
<1> QED
  BY <1>1, <1>2, <1>3, <1>4, <1>5, <1>6, <1>7, <1>8, <1>9, <1>10, <1>11, <1>12, <1>13, <1>14 DEF HostKept

LEMMA LookupKeepsHost ==
  ASSUME NEW c, HostReady(c), WH!Lookup(c)
  PROVE  HostKept(c)
<1> DEFINE k == call[c]
           w == k.id
<1> USE DEF HostReady, HostInv, WH!HostAssumption
<1>1. /\ k.do = "update" /\ k.at = "lookup" /\ k \in HostCall
      /\ UNCHANGED <<runners, file, live, attached, index, boot, pending, made>>
  BY DEF WH!Lookup, WH!At
<1>2. /\ w \in WH!Watchers /\ WH!Up /\ w \notin DOMAIN pending /\ w \in made
  BY <1>1 DEF HostType, OwnersLive, Holds, CallFits, Creating, Deleting, Enabling, Updating, HostCall, HostWorks
<1>3. \/ WH!Return(c)
      \/ w \in Sessions /\ w \in DOMAIN attached /\ call' = [call EXCEPT ![c].at = "remove", ![c].on = attached[w]]
      \/ w \notin Sessions /\ w \in DOMAIN file /\ call' = [call EXCEPT ![c].at = "remove", ![c].on = file[w]]
  BY DEF WH!Lookup
<1>4. \/ /\ call' \in [Clients -> HostCall] /\ call'[c] \in HostCall /\ call'[c].at = "remove"
         /\ call'[c].do = k.do /\ call'[c].id = w
         /\ \/ w \in Sessions /\ w \in DOMAIN attached /\ call'[c].on = attached[w]
            \/ w \notin Sessions /\ w \in DOMAIN file /\ call'[c].on = file[w]
      \/ /\ call' \in [Clients -> HostCall] /\ call'[c] = WH!Idle /\ WH!Idle.do = "none" /\ WH!Idle.at = "none" /\ WH!Idle.id = "none"
         /\ WH!Idle \in HostCall
  BY <1>1, <1>3, CameBack, IdleTypedHost, FlagsAre DEF HostPlaces, HostType, HostCall, WH!Idle
<1> HIDE DEF k, w
<1>5. HostType(call[c])'
  BY <1>1, <1>2, <1>3, <1>4 DEF HostType, HostWorks, k, w
<1>6. CallFits(call[c])'
  BY <1>1, <1>2, <1>3, <1>4 DEF CallFits, Creating, Deleting, Enabling, Updating, Closing, Restoring, Holds, WH!Up, HostWorks, k, w
<1>7. BootFits'
  BY <1>1, <1>2, <1>3, <1>4 DEF BootFits, WH!Up, k, w
<1>8. KnownIds'
  BY <1>1, <1>2, <1>3, <1>4 DEF KnownIds, k, w
<1>9. OwnersLive(call[c])'
  BY <1>1, <1>2, <1>3, <1>4 DEF OwnersLive, Holds, HostWorks, k, w
<1>10. FreeAsDefined(call[c])'
  BY <1>1, <1>2, <1>3, <1>4 DEF FreeAsDefined, Holds, HostWorks, k, w
<1>11. AttachedAsDefined(call[c])'
  BY <1>1, <1>2, <1>3, <1>4 DEF AttachedAsDefined, Holds, HostWorks, WH!Up, k, w
<1>12. IndexAsDefined(call[c])'
  BY <1>1, <1>2, <1>3, <1>4 DEF IndexAsDefined, WH!Of, HostWorks, k, w
<1> QED
  BY <1>1, <1>2, <1>3, <1>4, <1>5, <1>6, <1>7, <1>8, <1>9, <1>10, <1>11, <1>12 DEF HostKept

LEMMA NewSessionKeepsHost ==
  ASSUME NEW c, HostReady(c), NEW s \in Sessions, WH!NewSession(c, s)
  PROVE  HostKept(c)
<1> DEFINE k == call[c]
<1> USE DEF HostReady, HostInv, WH!HostAssumption
<1>1. /\ s \notin live \cup DOMAIN index /\ s \notin made /\ live' = live \cup {s} /\ index' = WH!Put(index, s, WH!None)
      /\ call' = call /\ UNCHANGED <<runners, file, attached, boot, pending, made>>
      /\ k = WH!Idle /\ WH!Idle.do = "none" /\ WH!Idle.at = "none" /\ WH!Idle.id = "none"
  BY DEF WH!NewSession, WH!Idle
<1>2. /\ DOMAIN index' = DOMAIN index \cup {s} /\ index'[s] = WH!None /\ \A x \in DOMAIN index : x # s => index'[x] = index[x]
  BY <1>1 DEF WH!Put
<1>3. s \notin DOMAIN runners \cup DOMAIN pending \cup DOMAIN attached
  BY <1>1 DEF KnownIds
<1>4. WH!Of(s) = WH!None
  BY <1>3, OfTable DEF WH!Of
<1> HIDE DEF k
<1>5. HostType(call[c])'
  BY <1>1, <1>2, <1>3, <1>4 DEF HostType, HostWorks, k
<1>6. CallFits(call[c])'
  BY <1>1, <1>2, <1>3, <1>4 DEF CallFits, Creating, Deleting, Enabling, Updating, Closing, Restoring, Holds, WH!Up, HostWorks, k
<1>7. BootFits'
  BY <1>1, <1>2, <1>3, <1>4 DEF BootFits, WH!Up, k
<1>8. KnownIds'
  BY <1>1, <1>2, <1>3, <1>4 DEF KnownIds, k
<1>9. OwnersLive(call[c])'
  BY <1>1, <1>2, <1>3, <1>4 DEF OwnersLive, Holds, HostWorks, k
<1>10. FreeAsDefined(call[c])'
  BY <1>1, <1>2, <1>3, <1>4 DEF FreeAsDefined, Holds, HostWorks, k
<1>11. AttachedAsDefined(call[c])'
  BY <1>1, <1>2, <1>3, <1>4 DEF AttachedAsDefined, Holds, HostWorks, WH!Up, k
<1>12. IndexAsDefined(call[c])'
  BY <1>1, <1>2, <1>3, <1>4 DEF IndexAsDefined, WH!Of, HostWorks, k, HostType
<1> QED
  BY <1>1, <1>2, <1>3, <1>4, <1>5, <1>6, <1>7, <1>8, <1>9, <1>10, <1>11, <1>12 DEF HostKept

LEMMA CloseKeepsHost ==
  ASSUME NEW c, HostReady(c), NEW s \in Sessions, WH!RemoveSession(c, s)
  PROVE  HostKept(c)
<1> DEFINE k == call[c]
<1> USE DEF HostReady, HostInv, WH!HostAssumption
<1>1. /\ s \in live /\ live' = live \ {s} /\ WH!Start(c, "close", s, "forget", FALSE) /\ s \in WH!Watchers
      /\ UNCHANGED <<runners, file, attached, index, boot, pending, made>>
  BY DEF WH!RemoveSession, WH!Watchers
<1>2. k = WH!Idle /\ WH!Idle.do = "none" /\ WH!Idle.at = "none" /\ WH!Idle.id = "none"
  BY <1>1 DEF WH!Start, WH!Idle
<1>3. /\ call' \in [Clients -> HostCall] /\ call'[c] \in HostCall /\ call'[c].at = "forget"
      /\ call'[c].do = "close" /\ call'[c].id = s /\ call'[c].on = FALSE
  BY <1>1, Began DEF HostPlaces, HostWorks
<1> HIDE DEF k
<1>4. HostType(call[c])'
  BY <1>1, <1>2, <1>3 DEF HostType, HostWorks, k
<1>5. CallFits(call[c])'
  BY <1>1, <1>2, <1>3 DEF CallFits, Creating, Deleting, Enabling, Updating, Closing, Restoring, Holds, WH!Up, HostWorks, k
<1>6. BootFits'
  BY <1>1, <1>2, <1>3 DEF BootFits, WH!Up, k
<1>7. KnownIds'
  BY <1>1, <1>2, <1>3 DEF KnownIds, k
<1>8. OwnersLive(call[c])'
  BY <1>1, <1>2, <1>3 DEF OwnersLive, Holds, HostWorks, k
<1>9. FreeAsDefined(call[c])'
  BY <1>1, <1>2, <1>3 DEF FreeAsDefined, Holds, HostWorks, k
<1>10. AttachedAsDefined(call[c])'
  BY <1>1, <1>2, <1>3 DEF AttachedAsDefined, Holds, HostWorks, WH!Up, k
<1>11. IndexAsDefined(call[c])'
  BY <1>1, <1>2, <1>3 DEF IndexAsDefined, WH!Of, HostWorks, k
<1> QED
  BY <1>1, <1>2, <1>3, <1>4, <1>5, <1>6, <1>7, <1>8, <1>9, <1>10, <1>11 DEF HostKept

LEMMA ForgetKeepsHost ==
  ASSUME NEW c, HostReady(c), WH!Forget(c)
  PROVE  HostKept(c)
<1> DEFINE k == call[c]
           w == k.id
<1> USE DEF HostReady, HostInv, WH!HostAssumption
<1>1. /\ k.do = "close" /\ k.at = "forget" /\ k \in HostCall
      /\ attached' = WH!Drop(attached, w) /\ WH!Goto(c, IF WH!Up THEN "unregister" ELSE "archive")
      /\ UNCHANGED <<runners, file, live, index, boot, pending, made>>
  BY DEF WH!Forget, WH!At
<1>2. w \in Sessions /\ w \notin live
  BY <1>1 DEF HostType, CallFits, Closing
<1>3. /\ call' \in [Clients -> HostCall] /\ call'[c] \in HostCall /\ call'[c].at = (IF WH!Up THEN "unregister" ELSE "archive")
      /\ call'[c].do = k.do /\ call'[c].id = w /\ call'[c].on = k.on /\ call'[c].toggle = k.toggle /\ call'[c].seen = k.seen
  BY <1>1, GoneOn DEF HostPlaces
<1>4. w \notin DOMAIN attached' /\ \A x : x # w => (x \in DOMAIN attached' <=> x \in DOMAIN attached)
  BY <1>1 DEF WH!Drop, WH!Restrict
<1>5. \A x \in DOMAIN attached : x # w => attached'[x] = attached[x]
  BY <1>1 DEF WH!Drop, WH!Restrict
<1>6. attached' \in WH!Flags(Sessions)
  BY <1>1, DropTyped DEF HostType
<1>7. \A x \in Sessions \ {w} : WH!Of(x)' = WH!Of(x)
  <2> SUFFICES ASSUME NEW x \in Sessions \ {w}
                 PROVE  WH!Of(x)' = WH!Of(x)
    OBVIOUS
  <2>1. CASE x \in DOMAIN attached
    <3>1. x \in DOMAIN attached' /\ attached'[x] = attached[x]
      BY <2>1, <1>4, <1>5
    <3>2. WH!Of(x) = [v \in {x} |-> attached[x]] /\ WH!Of(x)' = [v \in {x} |-> attached'[x]]
      BY <2>1, <3>1, OfTable DEF WH!Of
    <3> QED
      BY <3>1, <3>2
  <2>2. CASE x \notin DOMAIN attached
    BY <2>2, <1>4, <1>5, OfTable DEF WH!Of
  <2> QED
    BY <2>1, <2>2
<1> HIDE DEF k, w
<1>8. HostType(call[c])'
  BY <1>1, <1>2, <1>3, <1>4, <1>5, <1>6, <1>7 DEF HostType, HostWorks, k, w
<1>9. CallFits(call[c])'
  BY <1>1, <1>2, <1>3, <1>4, <1>5, <1>6, <1>7 DEF CallFits, Creating, Deleting, Enabling, Updating, Closing, Restoring, Holds, WH!Up, HostWorks, k, w
<1>10. BootFits'
  BY <1>1, <1>2, <1>3, <1>4, <1>5, <1>6, <1>7 DEF BootFits, WH!Up, k, w
<1>11. KnownIds'
  BY <1>1, <1>2, <1>3, <1>4, <1>5, <1>6, <1>7 DEF KnownIds, k, w
<1>12. OwnersLive(call[c])'
  BY <1>1, <1>2, <1>3, <1>4, <1>5, <1>6, <1>7 DEF OwnersLive, Holds, HostWorks, k, w
<1>13. FreeAsDefined(call[c])'
  BY <1>1, <1>2, <1>3, <1>4, <1>5, <1>6, <1>7 DEF FreeAsDefined, Holds, HostWorks, k, w
<1>14. AttachedAsDefined(call[c])'
  BY <1>1, <1>2, <1>3, <1>4, <1>5, <1>6, <1>7 DEF AttachedAsDefined, Holds, HostWorks, WH!Up, k, w
<1>15. IndexAsDefined(call[c])'
  BY <1>1, <1>2, <1>3, <1>4, <1>5, <1>6, <1>7 DEF IndexAsDefined, WH!Of, HostWorks, k, w, HostType
<1> QED
  BY <1>1, <1>2, <1>3, <1>4, <1>5, <1>6, <1>7, <1>8, <1>9, <1>10, <1>11, <1>12, <1>13, <1>14, <1>15 DEF HostKept

LEMMA UnregisterKeepsHost ==
  ASSUME NEW c, HostReady(c), WH!Unregister(c)
  PROVE  HostKept(c)
<1> DEFINE k == call[c]
           w == k.id
<1> USE DEF HostReady, HostInv, WH!HostAssumption
<1>1. /\ k.do = "close" /\ k.at = "unregister" /\ k \in HostCall
      /\ runners' = WH!Drop(runners, w) /\ WH!Goto(c, "archive")
      /\ UNCHANGED <<file, live, attached, index, boot, pending, made>>
  BY DEF WH!Unregister, WH!At
<1>2. w \in Sessions /\ w \notin live /\ w \notin DOMAIN attached /\ WH!Up
  BY <1>1 DEF HostType, CallFits, Closing
<1>3. /\ call' \in [Clients -> HostCall] /\ call'[c] \in HostCall /\ call'[c].at = "archive"
      /\ call'[c].do = k.do /\ call'[c].id = w /\ call'[c].on = k.on /\ call'[c].toggle = k.toggle /\ call'[c].seen = k.seen
  BY <1>1, GoneOn DEF HostPlaces
<1>4. DOMAIN runners' = DOMAIN runners \ {w} /\ \A x \in DOMAIN runners' : runners'[x] = runners[x]
  BY <1>1 DEF WH!Drop, WH!Restrict
<1>5. runners' \in WH!Flags(WH!Watchers)
  BY <1>1, DropTyped DEF HostType
<1> HIDE DEF k, w
<1>6. HostType(call[c])'
  BY <1>1, <1>2, <1>3, <1>4, <1>5 DEF HostType, HostWorks, k, w
<1>7. CallFits(call[c])'
  BY <1>1, <1>2, <1>3, <1>4, <1>5 DEF CallFits, Creating, Deleting, Enabling, Updating, Closing, Restoring, Holds, WH!Up, HostWorks, k, w
<1>8. BootFits'
  BY <1>1, <1>2, <1>3, <1>4, <1>5 DEF BootFits, WH!Up, k, w
<1>9. KnownIds'
  BY <1>1, <1>2, <1>3, <1>4, <1>5 DEF KnownIds, k, w
<1>10. OwnersLive(call[c])'
  BY <1>1, <1>2, <1>3, <1>4, <1>5 DEF OwnersLive, Holds, HostWorks, k, w
<1>11. FreeAsDefined(call[c])'
  BY <1>1, <1>2, <1>3, <1>4, <1>5 DEF FreeAsDefined, Holds, HostWorks, k, w
<1>12. AttachedAsDefined(call[c])'
  BY <1>1, <1>2, <1>3, <1>4, <1>5 DEF AttachedAsDefined, Holds, HostWorks, WH!Up, k, w
<1>13. IndexAsDefined(call[c])'
  BY <1>1, <1>2, <1>3, <1>4, <1>5 DEF IndexAsDefined, WH!Of, HostWorks, k, w
<1> QED
  BY <1>1, <1>2, <1>3, <1>4, <1>5, <1>6, <1>7, <1>8, <1>9, <1>10, <1>11, <1>12, <1>13 DEF HostKept

LEMMA ArchiveKeepsHost ==
  ASSUME NEW c, HostReady(c), WH!Archive(c)
  PROVE  HostKept(c)
<1> DEFINE k == call[c]
           w == k.id
<1> USE DEF HostReady, HostInv, WH!HostAssumption
<1>1. /\ k.do = "close" /\ k.at = "archive" /\ k \in HostCall
      /\ index' = WH!Drop(index, w) /\ WH!Return(c)
      /\ UNCHANGED <<runners, file, live, attached, boot, pending, made>>
  BY DEF WH!Archive, WH!At
<1>2. w \in Sessions /\ w \notin live /\ w \notin DOMAIN attached
  BY <1>1 DEF HostType, CallFits, Closing
<1>3. call' \in [Clients -> HostCall] /\ call'[c] = WH!Idle /\ WH!Idle.do = "none" /\ WH!Idle.at = "none" /\ WH!Idle.id = "none" /\ WH!Idle \in HostCall
  BY <1>1, CameBack, IdleTypedHost DEF WH!Idle
<1>4. DOMAIN index' = DOMAIN index \ {w} /\ \A x \in DOMAIN index' : index'[x] = index[x]
  BY <1>1 DEF WH!Drop, WH!Restrict
<1> HIDE DEF k, w
<1>5. HostType(call[c])'
  BY <1>1, <1>2, <1>3, <1>4 DEF HostType, HostWorks, k, w
<1>6. CallFits(call[c])'
  BY <1>1, <1>2, <1>3, <1>4 DEF CallFits, Creating, Deleting, Enabling, Updating, Closing, Restoring, Holds, WH!Up, HostWorks, k, w
<1>7. BootFits'
  BY <1>1, <1>2, <1>3, <1>4 DEF BootFits, WH!Up, k, w
<1>8. KnownIds'
  BY <1>1, <1>2, <1>3, <1>4 DEF KnownIds, k, w
<1>9. OwnersLive(call[c])'
  BY <1>1, <1>2, <1>3, <1>4 DEF OwnersLive, Holds, HostWorks, k, w
<1>10. FreeAsDefined(call[c])'
  BY <1>1, <1>2, <1>3, <1>4 DEF FreeAsDefined, Holds, HostWorks, k, w
<1>11. AttachedAsDefined(call[c])'
  BY <1>1, <1>2, <1>3, <1>4 DEF AttachedAsDefined, Holds, HostWorks, WH!Up, k, w
<1>12. IndexAsDefined(call[c])'
  BY <1>1, <1>2, <1>3, <1>4 DEF IndexAsDefined, WH!Of, HostWorks, k, w
<1> QED
  BY <1>1, <1>2, <1>3, <1>4, <1>5, <1>6, <1>7, <1>8, <1>9, <1>10, <1>11, <1>12 DEF HostKept

LEMMA RestoreKeepsHost ==
  ASSUME NEW c, HostReady(c), NEW s \in Sessions, WH!Restore(c, s)
  PROVE  HostKept(c)
<1> DEFINE k == call[c]
<1> USE DEF HostReady, HostInv, WH!HostAssumption
<1>1. /\ s \in DOMAIN index /\ s \notin live /\ live' = live \cup {s} /\ UNCHANGED <<runners, file, attached, index, boot, pending, made>>
      /\ k = WH!Idle /\ WH!Idle.do = "none" /\ WH!Idle.at = "none" /\ WH!Idle.id = "none"
  BY DEF WH!Restore, WH!Idle
<1>2. s \notin DOMAIN runners \cup DOMAIN pending \cup DOMAIN attached
  BY <1>1 DEF OwnersLive
<1>3. WH!Of(s) = WH!None
  BY <1>2, OfTable DEF WH!Of
<1>4. \/ /\ index[s] = WH!None /\ call' \in [Clients -> HostCall] /\ call'[c] = WH!Idle /\ WH!Idle \in HostCall
      \/ /\ index[s] # WH!None /\ call' \in [Clients -> HostCall] /\ call'[c] \in HostCall /\ call'[c].at = "note"
         /\ call'[c].do = "restore" /\ call'[c].id = s /\ index[s] = [w \in {s} |-> call'[c].on]
  <2>1. CASE index[s] = WH!None
    BY <2>1, IdleTypedHost DEF WH!Restore
  <2>2. CASE index[s] # WH!None
    <3>1. PICK on \in BOOLEAN : index[s] = [w \in {s} |-> on]
      BY <1>1, <2>2 DEF HostType
    <3>2. index[s][s] = on
      BY <3>1
    <3> DEFINE r == [WH!Idle EXCEPT !.do = "restore", !.id = s, !.at = "note", !.on = on]
    <3>3. r \in HostCall
      BY IdleTypedHost, NoneIs DEF HostCall, WH!Idle, HostPlaces, WH!Watchers
    <3>4. call' = [call EXCEPT ![c] = r]
      BY <2>2, <3>2 DEF WH!Restore
    <3>5. r.at = "note" /\ r.do = "restore" /\ r.id = s /\ r.on = on
      BY DEF WH!Idle
    <3> HIDE DEF r
    <3>6. call' \in [Clients -> HostCall] /\ call'[c] = r
      BY <3>3, <3>4
    <3> QED
      BY <2>2, <3>1, <3>3, <3>5, <3>6
  <2> QED
    BY <2>1, <2>2
<1>5. s \in WH!Watchers /\ (index[s] # WH!None => s \in made)
  BY <1>1 DEF WH!Watchers, KnownIds
<1> HIDE DEF k
<1>6. HostType(call[c])'
  BY <1>1, <1>2, <1>3, <1>4, <1>5 DEF HostType, HostWorks, k
<1>7. CallFits(call[c])'
  BY <1>1, <1>2, <1>3, <1>4, <1>5 DEF CallFits, Creating, Deleting, Enabling, Updating, Closing, Restoring, Holds, WH!Up, HostWorks, k
<1>8. BootFits'
  BY <1>1, <1>2, <1>3, <1>4, <1>5 DEF BootFits, WH!Up, k
<1>9. KnownIds'
  BY <1>1, <1>2, <1>3, <1>4, <1>5 DEF KnownIds, k
<1>10. OwnersLive(call[c])'
  BY <1>1, <1>2, <1>3, <1>4, <1>5 DEF OwnersLive, Holds, HostWorks, k
<1>11. FreeAsDefined(call[c])'
  BY <1>1, <1>2, <1>3, <1>4, <1>5 DEF FreeAsDefined, Holds, HostWorks, k
<1>12. AttachedAsDefined(call[c])'
  BY <1>1, <1>2, <1>3, <1>4, <1>5 DEF AttachedAsDefined, Holds, HostWorks, WH!Up, k
<1>13. IndexAsDefined(call[c])'
  BY <1>1, <1>2, <1>3, <1>4, <1>5 DEF IndexAsDefined, WH!Of, HostWorks, k
<1> QED
  BY <1>1, <1>2, <1>3, <1>4, <1>5, <1>6, <1>7, <1>8, <1>9, <1>10, <1>11, <1>12, <1>13 DEF HostKept

LEMMA NoteKeepsHost ==
  ASSUME NEW c, HostReady(c), WH!Note(c)
  PROVE  HostKept(c)
<1> DEFINE k == call[c]
           w == k.id
<1> USE DEF HostReady, HostInv, WH!HostAssumption
<1>1. /\ k.do = "restore" /\ k.at = "note" /\ k \in HostCall
      /\ attached' = WH!Put(attached, w, k.on) /\ UNCHANGED <<runners, file, live, index, boot, pending, made>>
  BY DEF WH!Note, WH!At
<1>2. /\ w \in Sessions /\ w \in live /\ w \in made /\ k.on \in BOOLEAN /\ w \notin DOMAIN runners /\ w \notin DOMAIN pending
      /\ w \in DOMAIN index /\ index[w] = [v \in {w} |-> k.on]
  BY <1>1 DEF HostType, CallFits, Restoring, OwnersLive, Holds, HostCall
<1>3. \/ /\ WH!Up /\ call' \in [Clients -> HostCall] /\ call'[c] \in HostCall /\ call'[c].at = "register"
         /\ call'[c].do = k.do /\ call'[c].id = w /\ call'[c].on = k.on
      \/ /\ ~WH!Up /\ call' \in [Clients -> HostCall] /\ call'[c] = WH!Idle /\ WH!Idle.do = "none" /\ WH!Idle.at = "none" /\ WH!Idle.id = "none"
         /\ WH!Idle \in HostCall
  BY GoneOn, CameBack, IdleTypedHost DEF WH!Note, HostPlaces, WH!Idle
<1>4. w \in DOMAIN attached' /\ attached'[w] = k.on /\ \A x : x # w => (x \in DOMAIN attached' <=> x \in DOMAIN attached)
  BY <1>1 DEF WH!Put
<1>5. \A x \in DOMAIN attached : x # w => attached'[x] = attached[x]
  BY <1>1 DEF WH!Put
<1>6. attached' \in WH!Flags(Sessions)
  BY <1>1, <1>2, PutTyped DEF HostType
<1>7. \A x \in Sessions \ {w} : WH!Of(x)' = WH!Of(x)
  <2> SUFFICES ASSUME NEW x \in Sessions \ {w}
                 PROVE  WH!Of(x)' = WH!Of(x)
    OBVIOUS
  <2>1. CASE x \in DOMAIN attached
    <3>1. x \in DOMAIN attached' /\ attached'[x] = attached[x]
      BY <2>1, <1>4, <1>5
    <3>2. WH!Of(x) = [v \in {x} |-> attached[x]] /\ WH!Of(x)' = [v \in {x} |-> attached'[x]]
      BY <2>1, <3>1, OfTable DEF WH!Of
    <3> QED
      BY <3>1, <3>2
  <2>2. CASE x \notin DOMAIN attached
    BY <2>2, <1>4, <1>5, OfTable DEF WH!Of
  <2> QED
    BY <2>1, <2>2
<1>8. \A x : x = w => WH!Of(x)' = [v \in {x} |-> k.on]
  <2> SUFFICES ASSUME NEW x, x = w
                 PROVE  WH!Of(x)' = [v \in {x} |-> k.on]
    OBVIOUS
  <2>1. x \in DOMAIN attached' /\ attached'[x] = k.on
    BY <1>4
  <2>2. WH!Of(x)' = [v \in {x} |-> attached'[x]]
    BY <2>1, OfTable DEF WH!Of
  <2> QED
    BY <2>1, <2>2
<1> HIDE DEF k, w
<1>9. HostType(call[c])'
  BY <1>1, <1>2, <1>3, <1>4, <1>5, <1>6, <1>7, <1>8 DEF HostType, HostWorks, k, w
<1>10. CallFits(call[c])'
  BY <1>1, <1>2, <1>3, <1>4, <1>5, <1>6, <1>7, <1>8 DEF CallFits, Creating, Deleting, Enabling, Updating, Closing, Restoring, Holds, WH!Up, HostWorks, k, w
<1>11. BootFits'
  BY <1>1, <1>2, <1>3, <1>4, <1>5, <1>6, <1>7, <1>8 DEF BootFits, WH!Up, k, w
<1>12. KnownIds'
  BY <1>1, <1>2, <1>3, <1>4, <1>5, <1>6, <1>7, <1>8 DEF KnownIds, k, w
<1>13. OwnersLive(call[c])'
  BY <1>1, <1>2, <1>3, <1>4, <1>5, <1>6, <1>7, <1>8 DEF OwnersLive, Holds, HostWorks, k, w
<1>14. FreeAsDefined(call[c])'
  BY <1>1, <1>2, <1>3, <1>4, <1>5, <1>6, <1>7, <1>8 DEF FreeAsDefined, Holds, HostWorks, k, w
<1>15. AttachedAsDefined(call[c])'
  BY <1>1, <1>2, <1>3, <1>4, <1>5, <1>6, <1>7, <1>8 DEF AttachedAsDefined, Holds, HostWorks, WH!Up, k, w
<1>16. IndexAsDefined(call[c])'
  BY <1>1, <1>2, <1>3, <1>4, <1>5, <1>6, <1>7, <1>8 DEF IndexAsDefined, HostWorks, k, w, HostType
<1> QED
  BY <1>1, <1>2, <1>3, <1>4, <1>5, <1>6, <1>7, <1>8, <1>9, <1>10, <1>11, <1>12, <1>13, <1>14, <1>15, <1>16 DEF HostKept

LEMMA RegisterKeepsHost ==
  ASSUME NEW c, HostReady(c), WH!Register(c)
  PROVE  HostKept(c)
<1> DEFINE k == call[c]
           w == k.id
<1> USE DEF HostReady, HostInv, WH!HostAssumption
<1>1. /\ k.do = "restore" /\ k.at = "register" /\ k \in HostCall
      /\ runners' = WH!PutNew(runners, w, k.on) /\ WH!Return(c) /\ UNCHANGED <<file, live, attached, index, boot, pending, made>>
  BY DEF WH!Register, WH!At
<1>2. /\ w \in Sessions /\ w \in live /\ w \in made /\ k.on \in BOOLEAN /\ w \notin DOMAIN runners /\ w \notin DOMAIN pending
      /\ WH!Up /\ Holds(attached, w, k.on)
  BY <1>1 DEF HostType, CallFits, Restoring, OwnersLive, HostCall
<1>3. call' \in [Clients -> HostCall] /\ call'[c] = WH!Idle /\ WH!Idle.do = "none" /\ WH!Idle.at = "none" /\ WH!Idle.id = "none" /\ WH!Idle \in HostCall
  BY <1>1, CameBack, IdleTypedHost DEF WH!Idle
<1>4. DOMAIN runners' = DOMAIN runners \cup {w} /\ runners'[w] = k.on /\ \A x \in DOMAIN runners : runners'[x] = runners[x]
  BY <1>1, <1>2 DEF WH!PutNew, WH!Put
<1>5. runners' \in WH!Flags(WH!Watchers)
  BY <1>1, <1>2, PutNewTyped DEF HostType, WH!Watchers
<1> HIDE DEF k, w
<1>6. HostType(call[c])'
  BY <1>1, <1>2, <1>3, <1>4, <1>5 DEF HostType, HostWorks, k, w
<1>7. CallFits(call[c])'
  BY <1>1, <1>2, <1>3, <1>4, <1>5 DEF CallFits, Creating, Deleting, Enabling, Updating, Closing, Restoring, Holds, WH!Up, HostWorks, k, w
<1>8. BootFits'
  BY <1>1, <1>2, <1>3, <1>4, <1>5 DEF BootFits, WH!Up, k, w
<1>9. KnownIds'
  BY <1>1, <1>2, <1>3, <1>4, <1>5 DEF KnownIds, k, w
<1>10. OwnersLive(call[c])'
  BY <1>1, <1>2, <1>3, <1>4, <1>5 DEF OwnersLive, Holds, HostWorks, k, w
<1>11. FreeAsDefined(call[c])'
  BY <1>1, <1>2, <1>3, <1>4, <1>5 DEF FreeAsDefined, Holds, HostWorks, k, w
<1>12. AttachedAsDefined(call[c])'
  BY <1>1, <1>2, <1>3, <1>4, <1>5 DEF AttachedAsDefined, Holds, HostWorks, WH!Up, k, w
<1>13. IndexAsDefined(call[c])'
  BY <1>1, <1>2, <1>3, <1>4, <1>5 DEF IndexAsDefined, WH!Of, HostWorks, k, w
<1> QED
  BY <1>1, <1>2, <1>3, <1>4, <1>5, <1>6, <1>7, <1>8, <1>9, <1>10, <1>11, <1>12, <1>13 DEF HostKept

LEMMA BuildKeepsHost ==
  ASSUME NEW c, HostReady(c), WH!Build
  PROVE  HostKept(c)
<1> DEFINE k == call[c]
<1> USE DEF HostReady, HostInv, WH!HostAssumption
<1>1. /\ boot = "off" /\ boot' = "built" /\ runners' = [w \in {v \in DOMAIN file : file[v]} |-> TRUE]
      /\ call' = call /\ UNCHANGED <<file, live, attached, index, pending, made>>
  BY DEF WH!Build
<1>2. DOMAIN file \subseteq Free /\ file \in [DOMAIN file -> BOOLEAN]
  BY FlagsAre DEF HostType
<1>3. /\ DOMAIN runners' \subseteq DOMAIN file /\ \A w \in DOMAIN runners' : runners'[w] = TRUE /\ file[w] = TRUE
      /\ \A w \in DOMAIN file : file[w] = TRUE => w \in DOMAIN runners'
  BY <1>1, <1>2
<1>4. runners' \in WH!Flags(WH!Watchers)
  <2>1. DOMAIN runners' \subseteq WH!Watchers
    BY <1>2, <1>3 DEF WH!Watchers
  <2>2. runners' \in [DOMAIN runners' -> BOOLEAN]
    BY <1>1
  <2> QED
    BY <2>1, <2>2, FlagsAre
<1>5. k.do \notin HostWorks /\ k.at # "register" /\ k.at # "unregister" /\ pending = WH!None
  BY <1>1 DEF CallFits, BootFits, WH!Up
<1>6. DOMAIN pending = {}
  BY <1>5, NoneIs
<1>7. k.do = "restore" => k.id \notin DOMAIN runners'
  BY <1>2, <1>3 DEF HostType
<1> HIDE DEF k
<1>8. HostType(call[c])'
  BY <1>1, <1>2, <1>3, <1>4, <1>5, <1>6, <1>7 DEF HostType, HostWorks, k
<1>9. CallFits(call[c])'
  BY <1>1, <1>2, <1>3, <1>4, <1>5, <1>6, <1>7 DEF CallFits, Creating, Deleting, Enabling, Updating, Closing, Restoring, Holds, WH!Up, HostWorks, k
<1>10. BootFits'
  BY <1>1, <1>2, <1>3, <1>4, <1>5, <1>6, <1>7 DEF BootFits, WH!Up, k
<1>11. KnownIds'
  BY <1>1, <1>2, <1>3, <1>4, <1>5, <1>6, <1>7 DEF KnownIds, k
<1>12. OwnersLive(call[c])'
  BY <1>1, <1>2, <1>3, <1>4, <1>5, <1>6, <1>7 DEF OwnersLive, Holds, HostWorks, k
<1>13. FreeAsDefined(call[c])'
  BY <1>1, <1>2, <1>3, <1>4, <1>5, <1>6, <1>7 DEF FreeAsDefined, Holds, HostWorks, k
<1>14. AttachedAsDefined(call[c])'
  BY <1>1, <1>2, <1>3, <1>4, <1>5, <1>6, <1>7 DEF AttachedAsDefined, Holds, HostWorks, WH!Up, k
<1>15. IndexAsDefined(call[c])'
  BY <1>1, <1>2, <1>3, <1>4, <1>5, <1>6, <1>7 DEF IndexAsDefined, WH!Of, HostWorks, k
<1> QED
  BY <1>1, <1>2, <1>3, <1>4, <1>5, <1>6, <1>7, <1>8, <1>9, <1>10, <1>11, <1>12, <1>13, <1>14, <1>15 DEF HostKept

LEMMA PublishKeepsHost ==
  ASSUME NEW c, HostReady(c), WH!Publish
  PROVE  HostKept(c)
<1> DEFINE k == call[c]
<1> USE DEF HostReady, HostInv, WH!HostAssumption
<1>1. /\ boot = "built" /\ boot' = "registering" /\ pending' = attached
      /\ call' = call /\ UNCHANGED <<runners, file, live, attached, index, made>>
  BY DEF WH!Publish, WH!Snapshot
<1>2. k.do \notin HostWorks /\ k.at # "register" /\ k.at # "unregister" /\ DOMAIN runners \subseteq Free
  BY <1>1 DEF CallFits, BootFits, WH!Up
<1>3. DOMAIN attached \subseteq Sessions
  BY FlagsAre DEF HostType
<1> HIDE DEF k
<1>4. HostType(call[c])'
  BY <1>1, <1>2, <1>3 DEF HostType, HostWorks, k
<1>5. CallFits(call[c])'
  BY <1>1, <1>2, <1>3 DEF CallFits, Creating, Deleting, Enabling, Updating, Closing, Restoring, Holds, WH!Up, HostWorks, k
<1>6. BootFits'
  BY <1>1, <1>2, <1>3 DEF BootFits, WH!Up, k
<1>7. KnownIds'
  BY <1>1, <1>2, <1>3 DEF KnownIds, k
<1>8. OwnersLive(call[c])'
  BY <1>1, <1>2, <1>3 DEF OwnersLive, Holds, HostWorks, k
<1>9. FreeAsDefined(call[c])'
  BY <1>1, <1>2, <1>3 DEF FreeAsDefined, Holds, HostWorks, k
<1>10. AttachedAsDefined(call[c])'
  BY <1>1, <1>2, <1>3 DEF AttachedAsDefined, Holds, HostWorks, WH!Up, k
<1>11. IndexAsDefined(call[c])'
  BY <1>1, <1>2, <1>3 DEF IndexAsDefined, WH!Of, HostWorks, k
<1> QED
  BY <1>1, <1>2, <1>3, <1>4, <1>5, <1>6, <1>7, <1>8, <1>9, <1>10, <1>11 DEF HostKept

LEMMA RegisterPendingKeepsHost ==
  ASSUME NEW c, HostReady(c), NEW s \in Sessions, WH!RegisterPending(s)
  PROVE  HostKept(c)
<1> DEFINE k == call[c]
<1> USE DEF HostReady, HostInv, WH!HostAssumption
<1>1. /\ s \in DOMAIN pending /\ runners' = WH!PutNew(runners, s, pending[s]) /\ pending' = WH!Drop(pending, s)
      /\ call' = call /\ UNCHANGED <<file, live, attached, index, boot, made>>
  BY DEF WH!RegisterPending
<1>2. s \notin DOMAIN runners /\ s \in made /\ pending[s] \in BOOLEAN /\ s \in WH!Watchers
  BY <1>1, FlagsAre DEF OwnersLive, KnownIds, HostType, WH!Watchers
<1>3. WH!Up /\ boot # "up"
  BY <1>1, NoneIs DEF BootFits
<1>4. DOMAIN runners' = DOMAIN runners \cup {s} /\ runners'[s] = pending[s] /\ \A x \in DOMAIN runners : runners'[x] = runners[x]
  BY <1>1, <1>2 DEF WH!PutNew, WH!Put
<1>5. DOMAIN pending' = DOMAIN pending \ {s} /\ \A x \in DOMAIN pending' : pending'[x] = pending[x]
  BY <1>1 DEF WH!Drop, WH!Restrict
<1>6. runners' \in WH!Flags(WH!Watchers) /\ pending' \in WH!Flags(Sessions)
  BY <1>1, <1>2, PutNewTyped, DropTyped DEF HostType
<1>7. s \in live => Holds(attached, s, pending[s])
  BY <1>1 DEF OwnersLive
<1> HIDE DEF k
<1>8. HostType(call[c])'
  BY <1>1, <1>2, <1>3, <1>4, <1>5, <1>6, <1>7 DEF HostType, HostWorks, k
<1>9. CallFits(call[c])'
  BY <1>1, <1>2, <1>3, <1>4, <1>5, <1>6, <1>7 DEF CallFits, Creating, Deleting, Enabling, Updating, Closing, Restoring, Holds, WH!Up, HostWorks, k
<1>10. BootFits'
  BY <1>1, <1>2, <1>3, <1>4, <1>5, <1>6, <1>7 DEF BootFits, WH!Up, k
<1>11. KnownIds'
  BY <1>1, <1>2, <1>3, <1>4, <1>5, <1>6, <1>7 DEF KnownIds, k
<1>12. OwnersLive(call[c])'
  BY <1>1, <1>2, <1>3, <1>4, <1>5, <1>6, <1>7 DEF OwnersLive, Holds, HostWorks, k
<1>13. FreeAsDefined(call[c])'
  BY <1>1, <1>2, <1>3, <1>4, <1>5, <1>6, <1>7 DEF FreeAsDefined, Holds, HostWorks, k
<1>14. AttachedAsDefined(call[c])'
  BY <1>1, <1>2, <1>3, <1>4, <1>5, <1>6, <1>7 DEF AttachedAsDefined, Holds, HostWorks, WH!Up, k
<1>15. IndexAsDefined(call[c])'
  BY <1>1, <1>2, <1>3, <1>4, <1>5, <1>6, <1>7 DEF IndexAsDefined, WH!Of, HostWorks, k
<1> QED
  BY <1>1, <1>2, <1>3, <1>4, <1>5, <1>6, <1>7, <1>8, <1>9, <1>10, <1>11, <1>12, <1>13, <1>14, <1>15 DEF HostKept

LEMMA StartedKeepsHost ==
  ASSUME NEW c, HostReady(c), WH!Started
  PROVE  HostKept(c)
<1> DEFINE k == call[c]
<1> USE DEF HostReady, HostInv, WH!HostAssumption
<1>1. /\ boot = "registering" /\ boot' = "up" /\ pending = WH!None
      /\ call' = call /\ UNCHANGED <<runners, file, live, attached, index, pending, made>>
  BY DEF WH!Started
<1> HIDE DEF k
<1>2. HostType(call[c])'
  BY <1>1 DEF HostType, HostWorks, k
<1>3. CallFits(call[c])'
  BY <1>1 DEF CallFits, Creating, Deleting, Enabling, Updating, Closing, Restoring, Holds, WH!Up, HostWorks, k
<1>4. BootFits'
  BY <1>1 DEF BootFits, WH!Up, k
<1>5. KnownIds'
  BY <1>1 DEF KnownIds, k
<1>6. OwnersLive(call[c])'
  BY <1>1 DEF OwnersLive, Holds, HostWorks, k
<1>7. FreeAsDefined(call[c])'
  BY <1>1 DEF FreeAsDefined, Holds, HostWorks, k
<1>8. AttachedAsDefined(call[c])'
  BY <1>1 DEF AttachedAsDefined, Holds, HostWorks, WH!Up, k
<1>9. IndexAsDefined(call[c])'
  BY <1>1 DEF IndexAsDefined, WH!Of, HostWorks, k
<1> QED
  BY <1>1, <1>2, <1>3, <1>4, <1>5, <1>6, <1>7, <1>8, <1>9 DEF HostKept

LEMMA RestartKeepsHost ==
  ASSUME NEW c, HostReady(c), WH!Restart
  PROVE  HostKept(c)
<1> DEFINE k == call[c]
<1> USE DEF HostReady, HostInv, WH!HostAssumption
<1>1. /\ runners' = WH!None /\ live' = {} /\ attached' = WH!None /\ boot' = "off" /\ pending' = WH!None
      /\ UNCHANGED <<file, index, made>>
  BY DEF WH!Restart
<1>2. call' = [d \in Clients |-> WH!Idle]
  BY DEF WH!Restart
<1>3. call' \in [Clients -> HostCall] /\ call'[c] = WH!Idle /\ WH!Idle \in HostCall
  BY <1>2, IdleTypedHost
<1>4. WH!Idle.do = "none" /\ WH!Idle.at = "none" /\ WH!Idle.id = "none"
  BY DEF WH!Idle
<1>5. DOMAIN WH!None = {} /\ \A S : WH!None \in WH!Flags(S)
  BY NoneIs
<1> HIDE DEF k
<1>6. HostType(call[c])'
  BY <1>1, <1>2, <1>3, <1>4, <1>5 DEF HostType, HostWorks, k
<1>7. CallFits(call[c])'
  BY <1>1, <1>2, <1>3, <1>4, <1>5 DEF CallFits, Creating, Deleting, Enabling, Updating, Closing, Restoring, Holds, WH!Up, HostWorks, k
<1>8. BootFits'
  BY <1>1, <1>2, <1>3, <1>4, <1>5 DEF BootFits, WH!Up, k
<1>9. KnownIds'
  BY <1>1, <1>2, <1>3, <1>4, <1>5 DEF KnownIds, k
<1>10. OwnersLive(call[c])'
  BY <1>1, <1>2, <1>3, <1>4, <1>5 DEF OwnersLive, Holds, HostWorks, k
<1>11. FreeAsDefined(call[c])'
  BY <1>1, <1>2, <1>3, <1>4, <1>5 DEF FreeAsDefined, Holds, HostWorks, k
<1>12. AttachedAsDefined(call[c])'
  BY <1>1, <1>2, <1>3, <1>4, <1>5 DEF AttachedAsDefined, Holds, HostWorks, WH!Up, k
<1>13. IndexAsDefined(call[c])'
  BY <1>1, <1>2, <1>3, <1>4, <1>5 DEF IndexAsDefined, WH!Of, HostWorks, k
<1> QED
  BY <1>1, <1>2, <1>3, <1>4, <1>5, <1>6, <1>7, <1>8, <1>9, <1>10, <1>11, <1>12, <1>13 DEF HostKept

LEMMA HostStutters ==
  ASSUME NEW c, HostReady(c), UNCHANGED WH!whvars
  PROVE  HostKept(c)
<1> DEFINE k == call[c]
<1> USE DEF HostReady, HostInv, WH!HostAssumption
<1>1. call' = call /\ UNCHANGED <<runners, file, live, attached, index, boot, pending, made>>
  BY DEF WH!whvars
<1> HIDE DEF k
<1>2. HostType(call[c])'
  BY <1>1 DEF HostType, HostWorks, k
<1>3. CallFits(call[c])'
  BY <1>1 DEF CallFits, Creating, Deleting, Enabling, Updating, Closing, Restoring, Holds, WH!Up, HostWorks, k
<1>4. BootFits'
  BY <1>1 DEF BootFits, WH!Up, k
<1>5. KnownIds'
  BY <1>1 DEF KnownIds, k
<1>6. OwnersLive(call[c])'
  BY <1>1 DEF OwnersLive, Holds, HostWorks, k
<1>7. FreeAsDefined(call[c])'
  BY <1>1 DEF FreeAsDefined, Holds, HostWorks, k
<1>8. AttachedAsDefined(call[c])'
  BY <1>1 DEF AttachedAsDefined, Holds, HostWorks, WH!Up, k
<1>9. IndexAsDefined(call[c])'
  BY <1>1 DEF IndexAsDefined, WH!Of, HostWorks, k
<1> QED
  BY <1>1, <1>2, <1>3, <1>4, <1>5, <1>6, <1>7, <1>8, <1>9 DEF HostKept

LEMMA HostStarts ==
  ASSUME NEW c, Clients = {c}, WH!HostAssumption, WH!Init
  PROVE  HostReady(c)
<1> DEFINE k == call[c]
<1> USE DEF WH!HostAssumption
<1>1. /\ file \in WH!Flags(Free) /\ made = DOMAIN file \cup {s \in DOMAIN index : index[s] # WH!None}
      /\ runners = WH!None /\ live = {} /\ attached = WH!None /\ boot = "off" /\ pending = WH!None
  BY DEF WH!Init
<1>2. call = [d \in Clients |-> WH!Idle]
  BY DEF WH!Init
<1>3. call \in [Clients -> HostCall] /\ k = WH!Idle /\ WH!Idle \in HostCall /\ c \in Clients
  BY <1>2, IdleTypedHost
<1>4. WH!Idle.do = "none" /\ WH!Idle.at = "none" /\ WH!Idle.id = "none"
  BY DEF WH!Idle
<1>5. DOMAIN WH!None = {} /\ \A S : WH!None \in WH!Flags(S)
  BY NoneIs
<1>6. DOMAIN index \subseteq Sessions /\ \A s \in DOMAIN index : index[s] \in {WH!None, [w \in {s} |-> TRUE]}
  <2> DEFINE Unwatched == UNION {[D -> {WH!None}] : D \in SUBSET Sessions}
             watched == [s \in Sessions |-> [w \in {s} |-> TRUE]]
  <2>1. index \in Unwatched \cup {watched}
    BY DEF WH!Init
  <2>2. CASE index \in Unwatched
    <3>1. PICK D \in SUBSET Sessions : index \in [D -> {WH!None}]
      BY <2>2
    <3>2. DOMAIN index = D /\ \A s \in D : index[s] = WH!None
      BY <3>1
    <3> QED
      BY <3>2
  <2>3. CASE index = watched
    <3>1. DOMAIN index = Sessions /\ \A s \in Sessions : index[s] = [w \in {s} |-> TRUE]
      BY <2>3
    <3> QED
      BY <3>1
  <2> HIDE DEF Unwatched, watched
  <2> QED
    BY <2>1, <2>2, <2>3
<1> HIDE DEF k
<1>7. HostType(call[c])
  BY <1>1, <1>3, <1>4, <1>5, <1>6 DEF HostType, k
<1>8. CallFits(call[c]) /\ BootFits /\ OwnersLive(call[c]) /\ FreeAsDefined(call[c]) /\ AttachedAsDefined(call[c]) /\ IndexAsDefined(call[c])
  BY <1>1, <1>3, <1>4, <1>5 DEF CallFits, HostWorks, BootFits, WH!Up, OwnersLive, FreeAsDefined, AttachedAsDefined, IndexAsDefined, k
<1>9. KnownIds
  BY <1>1, <1>5 DEF KnownIds
<1> QED
  BY <1>3, <1>7, <1>8, <1>9 DEF HostReady, HostInv

LEMMA HostStep ==
  ASSUME NEW c, HostReady(c), [WH!Next]_(WH!whvars)
  PROVE  HostReady(c)'
<1> SUFFICES HostKept(c)
  BY DEF HostKept, HostReady, WH!HostAssumption
<1>1. \A d \in Clients : d = c
  BY DEF HostReady
<1>2. CASE UNCHANGED WH!whvars
  BY <1>2, HostStutters
<1>3. CASE WH!Next
  <2>1. CASE \E d \in Clients, w \in WH!Watchers :
               WH!DeleteWatcher(d, w) \/ WH!UpdateWatcher(d, w)
               \/ \E on \in BOOLEAN : WH!CreateWatcher(d, w, on) \/ WH!SetWatcherEnabled(d, w, on)
    <3>1. PICK w \in WH!Watchers : WH!DeleteWatcher(c, w) \/ WH!UpdateWatcher(c, w)
                 \/ \E on \in BOOLEAN : WH!CreateWatcher(c, w, on) \/ WH!SetWatcherEnabled(c, w, on)
      BY <1>1, <2>1
    <3> QED
      BY <3>1, DeleteKeepsHost, UpdateKeepsHost, CreateKeepsHost, EnableKeepsHost
  <2>2. CASE \E d \in Clients :
               WH!Add(d) \/ WH!Remove(d) \/ WH!RecordAttached(d) \/ WH!SaveAttached(d) \/ WH!LoadFile(d) \/ WH!SaveFile(d)
               \/ WH!Toggle(d) \/ WH!Lookup(d) \/ WH!Forget(d) \/ WH!Unregister(d) \/ WH!Archive(d) \/ WH!Note(d) \/ WH!Register(d)
    <3>1. \/ WH!Add(c) \/ WH!Remove(c) \/ WH!RecordAttached(c) \/ WH!SaveAttached(c) \/ WH!LoadFile(c) \/ WH!SaveFile(c)
          \/ WH!Toggle(c) \/ WH!Lookup(c) \/ WH!Forget(c) \/ WH!Unregister(c) \/ WH!Archive(c) \/ WH!Note(c) \/ WH!Register(c)
      BY <1>1, <2>2
    <3> QED
      BY <3>1, AddKeepsHost, RemoveKeepsHost, RecordAttachedKeepsHost, SaveAttachedKeepsHost, LoadFileKeepsHost, SaveFileKeepsHost,
         ToggleKeepsHost, LookupKeepsHost, ForgetKeepsHost, UnregisterKeepsHost, ArchiveKeepsHost, NoteKeepsHost, RegisterKeepsHost
  <2>3. CASE \E d \in Clients, s \in Sessions : WH!NewSession(d, s) \/ WH!RemoveSession(d, s) \/ WH!Restore(d, s)
    <3>1. PICK s \in Sessions : WH!NewSession(c, s) \/ WH!RemoveSession(c, s) \/ WH!Restore(c, s)
      BY <1>1, <2>3
    <3> QED
      BY <3>1, NewSessionKeepsHost, CloseKeepsHost, RestoreKeepsHost
  <2>4. CASE WH!Build \/ WH!Publish \/ (\E s \in Sessions : WH!RegisterPending(s)) \/ WH!Started \/ WH!Restart
    BY <2>4, BuildKeepsHost, PublishKeepsHost, RegisterPendingKeepsHost, StartedKeepsHost, RestartKeepsHost
  <2> QED
    BY <1>3, <2>1, <2>2, <2>3, <2>4 DEF WH!Next
<1> QED
  BY <1>2, <1>3

\* When everything has settled the exceptions of the invariant are over.
LEMMA HostSettled ==
  ASSUME NEW c, HostReady(c)
  PROVE  ScheduledAsDefined
<1> SUFFICES ASSUME WH!Quiet
             PROVE  /\ \A s \in DOMAIN attached : s \in DOMAIN runners /\ runners[s] = attached[s]
                    /\ \A w \in Free : (w \in DOMAIN runners /\ runners[w]) <=> (w \in DOMAIN file /\ file[w])
                    /\ \A s \in live : index[s] = WH!Of(s)
  BY DEF ScheduledAsDefined, WH!ScheduledAsDefined
<1>1. boot = "up" /\ call[c] = WH!Idle /\ HostInv(call[c])
  BY DEF WH!Quiet, HostReady
<1>2. WH!Idle.do = "none" /\ WH!Idle.at = "none" /\ WH!Idle.id = "none"
  BY DEF WH!Idle
<1>3. DOMAIN pending = {}
  BY <1>1, NoneIs DEF HostInv, BootFits
<1>4. \A s \in DOMAIN attached : s \in DOMAIN runners /\ runners[s] = attached[s]
  BY <1>1, <1>2, <1>3 DEF HostInv, AttachedAsDefined, Holds, HostWorks, WH!Up
<1>5. \A w \in Free : (w \in DOMAIN runners /\ runners[w]) <=> (w \in DOMAIN file /\ file[w])
  <2>1. runners \in [DOMAIN runners -> BOOLEAN] /\ file \in [DOMAIN file -> BOOLEAN]
    BY <1>1, FlagsAre DEF HostInv, HostType
  <2>2. \A w \in Free : /\ w \in DOMAIN runners => Holds(file, w, runners[w])
                        /\ Holds(file, w, TRUE) => w \in DOMAIN runners
    BY <1>1, <1>2 DEF HostInv, FreeAsDefined, HostWorks
  <2> QED
    BY <2>1, <2>2 DEF Holds
<1>6. \A s \in live : index[s] = WH!Of(s)
  BY <1>1, <1>2 DEF HostInv, IndexAsDefined, HostWorks
<1> QED
  BY <1>4, <1>5, <1>6

\* With one client and whatever it does, the scheduled watchers are the defined
\* ones whenever nothing is under way (CreateWatcher to SetWatcherEnabled,
\* StartWatchers, OnSessionRestored).
THEOREM WatchersStayScheduled ==
  ASSUME NEW CONSTANT c, Clients = {c}
  PROVE  ServicesSpec => []ScheduledAsDefined
<1>1. WH!HostAssumption
  BY ServicesAssumption
<1>2. WH!Init => HostReady(c)
  BY <1>1, HostStarts
<1>3. HostReady(c) /\ [WH!Next]_(WH!whvars) => HostReady(c)'
  BY HostStep
<1>4. HostReady(c) => ScheduledAsDefined
  BY HostSettled
<1> QED
  BY <1>2, <1>3, <1>4, WatchersAlone, PTL

=============================================================================
