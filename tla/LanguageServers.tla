--------------------------- MODULE LanguageServers --------------------------
(***************************************************************************)
(* The processes of the language servers (lsp/manager.go): tool calls      *)
(* start a server on its first use while others wait for it, the launch    *)
(* may be declined or fail, a server may die, and Shutdown closes what     *)
(* runs.  Shutdown is called once; tool calls may come after it, since the *)
(* tools keep the Manager (gogent/lsp.go).                                 *)
(*                                                                         *)
(* A slot is the name of its server and the table it was made in: the      *)
(* first, or the one Shutdown puts in its place.  Documents are module     *)
(* DocumentSync; routing by extension and root detection are left out.     *)
(***************************************************************************)
EXTENDS Integers, FiniteSets

CONSTANTS
  Callers,     \* tool calls under way at the same time
  Names,       \* servers configured
  Processes,   \* bound: processes started
  NoProcess

ServersAssumption == Names # {} /\ NoProcess \notin Processes

VARIABLES
  slots,     \* m.slots: the slots of the current table
  client,    \* the process of each slot's cached client
  denied,    \* the slots with a gateErr
  call,      \* each caller: [at, slot, proc]
  proc,      \* each process: [server, state], state "none", "up" or "dead"
  shut,      \* Shutdown: "no", "closing" or "cancelled" (baseCtx)
  toClose    \* the clients Shutdown has yet to close

lsvars == <<slots, client, denied, call, proc, shut, toClose>>

Slots == Names \X {1, 2}
Table == IF shut = "no" THEN 1 ELSE 2
Idle == [at |-> "idle", slot |-> CHOOSE s \in Slots : TRUE, proc |-> NoProcess]
Unborn == [server |-> CHOOSE n \in Names : TRUE, state |-> "none"]

TypeOK ==
  /\ slots \subseteq Slots /\ denied \subseteq Slots
  /\ client \in [Slots -> Processes \cup {NoProcess}]
  /\ \A c \in Callers : /\ call[c].at \in {"idle", "queue", "gate", "spawn", "handshake", "publish"}
                        /\ call[c].slot \in Slots /\ call[c].proc \in Processes \cup {NoProcess}
  /\ proc \in [Processes -> [server : Names, state : {"none", "up", "dead"}]]
  /\ shut \in {"no", "closing", "cancelled"} /\ toClose \subseteq Processes

Init ==
  /\ slots = {} /\ client = [s \in Slots |-> NoProcess] /\ denied = {}
  /\ call = [c \in Callers |-> Idle]
  /\ proc = [p \in Processes |-> Unborn]
  /\ shut = "no" /\ toClose = {}

-----------------------------------------------------------------------------
(* ClientForFile.                                                          *)

Return(c) == call' = [call EXCEPT ![c] = Idle]
Goto(c, at) == call' = [call EXCEPT ![c].at = at]
Kill(p) == proc' = [proc EXCEPT ![p].state = "dead"]

Touch(c, n) ==
  /\ call[c].at = "idle"
  /\ slots' = slots \cup {<<n, Table>>}
  /\ call' = [call EXCEPT ![c] = [Idle EXCEPT !.at = "queue", !.slot = <<n, Table>>]]
  /\ UNCHANGED <<client, denied, proc, shut, toClose>>

\* slot.mu: nobody is past the queue of the slot.
SlotFree(s) == \A c \in Callers : call[c].slot = s => call[c].at \in {"idle", "queue"}

\* The cached client or the sticky denial, else a launch.
Enter(c) ==
  LET s == call[c].slot IN
  /\ call[c].at = "queue" /\ SlotFree(s)
  /\ IF client[s] # NoProcess \/ s \in denied THEN Return(c) ELSE Goto(c, "gate")
  /\ UNCHANGED <<slots, client, denied, proc, shut, toClose>>

Gate(c) ==
  /\ call[c].at = "gate"
  /\ \/ Goto(c, "spawn") /\ UNCHANGED denied
     \/ Return(c) /\ denied' = denied \cup {call[c].slot}
  /\ UNCHANGED <<slots, client, proc, shut, toClose>>

\* A launch that fails is not remembered.
Spawn(c) ==
  /\ call[c].at = "spawn"
  /\ \/ Return(c) /\ UNCHANGED proc
     \/ \E p \in Processes :
          /\ proc[p].state = "none"
          /\ proc' = [proc EXCEPT ![p] = [server |-> call[c].slot[1], state |-> "up"]]
          /\ call' = [call EXCEPT ![c].at = "handshake", ![c].proc = p]
  /\ UNCHANGED <<slots, client, denied, shut, toClose>>

\* initialize, within 30 s and until baseCtx is cancelled.
Handshake(c) ==
  /\ call[c].at = "handshake"
  /\ \/ proc[call[c].proc].state = "up" /\ Goto(c, "publish") /\ UNCHANGED proc
     \/ Return(c) /\ Kill(call[c].proc)
  /\ UNCHANGED <<slots, client, denied, shut, toClose>>

\* faulty variant: the client is cached whatever became of the table.
OrphanedNever(s) == FALSE

\* A Shutdown landed during the launch.
Orphaned(s) == shut = "cancelled" \/ s \notin slots

Publish(c) ==
  LET s == call[c].slot IN
  /\ call[c].at = "publish" /\ Return(c)
  /\ IF Orphaned(s)
     THEN Kill(call[c].proc) /\ UNCHANGED client
     ELSE client' = [client EXCEPT ![s] = call[c].proc] /\ UNCHANGED proc
  /\ UNCHANGED <<slots, denied, shut, toClose>>

-----------------------------------------------------------------------------

Cached == {client[s] : s \in slots} \ {NoProcess}

Shutdown ==
  /\ shut = "no" /\ shut' = "closing"
  /\ toClose' = Cached /\ slots' = {}
  /\ UNCHANGED <<client, denied, call, proc>>

CloseNext(p) ==
  /\ p \in toClose /\ toClose' = toClose \ {p} /\ Kill(p)
  /\ UNCHANGED <<slots, client, denied, call, shut>>

CancelBase ==
  /\ shut = "closing" /\ toClose = {} /\ shut' = "cancelled"
  /\ UNCHANGED <<slots, client, denied, call, proc, toClose>>

\* The server ends by itself; nobody takes its client out of the slot.
Dies(p) ==
  /\ proc[p].state = "up" /\ Kill(p)
  /\ UNCHANGED <<slots, client, denied, call, shut, toClose>>

-----------------------------------------------------------------------------

Next ==
  \/ \E c \in Callers : \/ \E n \in Names : Touch(c, n)
                        \/ Enter(c) \/ Gate(c) \/ Spawn(c) \/ Handshake(c) \/ Publish(c)
  \/ Shutdown \/ CancelBase
  \/ \E p \in Processes : CloseNext(p) \/ Dies(p)

Spec == Init /\ [][Next]_lsvars

-----------------------------------------------------------------------------
(* Properties.                                                             *)

Running(n) == {p \in Processes : proc[p] = [server |-> n, state |-> "up"]}
StartedBy(p) == {c \in Callers : call[c].proc = p}
KeptIn(p) == {s \in slots : client[s] = p}

\* Whoever races whom, every running process has one owner: the call that starts
\* it, its slot in the table, or the Shutdown that will close it; and first
\* touches share one process (ClientForFile, Shutdown).
EveryProcessOwned ==
  /\ \A n \in Names : \A p \in Running(n) :
       Cardinality(StartedBy(p)) + Cardinality(KeptIn(p)) + Cardinality({p} \cap toClose) = 1
  /\ shut = "no" => \A n \in Names : Cardinality(Running(n)) <= 1

\* After Shutdown and the last call no server is left running ("detect the race
\* and close the client instead of caching it").
NoneLeaked ==
  shut = "cancelled" /\ (\A c \in Callers : call[c].at = "idle") => \A n \in Names : Running(n) = {}
=============================================================================
