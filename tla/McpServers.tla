----------------------------- MODULE McpServers -----------------------------
(***************************************************************************)
(* The Model Context Protocol servers of a core: their start and release   *)
(* (gogent/mcp.go), the client's handshake (mcp/mcp.go) and the stdio       *)
(* transport (mcp/stdio.go), one pipe under a mutex that tool calls share.  *)
(*                                                                         *)
(* A line of the server is a reply, a notification or log line (id 0), or a *)
(* request of its own, whose ids it counts itself.  The HTTP transport,     *)
(* which holds no mutex over a call, and the schemas of tools are left out. *)
(*                                                                         *)
(* The core is the first of its process, started by main while the menus    *)
(* are up already and closed by main at the end, or one rebuilt by a        *)
(* handoff, started by the handoff's goroutine; main closes the first only. *)
(* A later handoff to a daemon closes the core it leaves.                  *)
(***************************************************************************)
EXTENDS Integers, Sequences, SequencesExt, FiniteSets

CONSTANTS
  Configured,  \* the servers of the configuration that are not disabled
  ToolCalls,   \* goroutines that execute tool calls of agents
  MaxIds,      \* bound: requests on one transport
  MaxLines     \* bound: lines a server writes unasked

Core == "core"  \* the goroutine that starts the servers
Users == ToolCalls \cup {Core}
NoOne == "no one"
McpAssumption == Core \notin ToolCalls /\ NoOne \notin Users /\ MaxIds \in Nat

Steps == {"initialize", "ping", "list"}
Closers == {"main", "handoff"}  \* who calls CloseMCPServers

VARIABLES
  rebuilt,   \* the core was built by a handoff from the daemon
  visited,   \* servers StartMCPServers is done with
  doing,     \* "start", a step with one server, or "serve" when StartMCPServers has returned
  with,      \* the server of that step
  clients,   \* g.mcpClients
  closing,   \* each closer's call: whether it was made, and the clients it has still to close
  tools,     \* servers whose tools are registered
  child,     \* each server's process: "none", "runs" or "ended"
  mutex,     \* who holds streamTransport.mu
  ids,       \* streamTransport.id
  inbox,     \* requests written to the server and not read
  lines,     \* lines the server has written and nobody has read
  unasked,   \* lines written unasked so far
  user       \* each goroutine's call: where it is, its server, its id, and how the last one ended

mcpvars == <<rebuilt, visited, doing, with, clients, closing, tools, child, mutex, ids, inbox, lines, unasked, user>>

Idle == [at |-> "idle", server |-> NoOne, id |-> 0, got |-> "nothing"]

TypeOK ==
  /\ rebuilt \in BOOLEAN
  /\ visited \subseteq Configured /\ Range(clients) \subseteq visited /\ tools \subseteq visited
  /\ doing \in Steps \cup {"start", "close", "serve"}
  /\ \A c \in Closers : /\ closing[c].at \in {"not called", "closing", "returned"}
                        /\ Range(closing[c].list) \subseteq visited
  /\ with \in Configured \cup {NoOne}
  /\ child \in [Configured -> {"none", "runs", "ended"}]
  /\ mutex \in [Configured -> Users \cup {NoOne}] /\ ids \in [Configured -> 0..MaxIds]
  /\ unasked \in [Configured -> 0..MaxLines]
  /\ \A s \in Configured : inbox[s] \in Seq(1..MaxIds) /\ Len(lines[s]) <= MaxIds + MaxLines
  /\ \A u \in Users : /\ user[u].at \in {"idle", "waits", "reads"}
                      /\ user[u].server \in Configured \cup {NoOne} /\ user[u].id \in 0..MaxIds
                      /\ user[u].got \in {"nothing", "reply", "ask", "error"}

Init ==
  /\ rebuilt \in BOOLEAN
  /\ visited = {} /\ doing = "start" /\ with = NoOne /\ clients = <<>> /\ tools = {}
  /\ closing = [c \in Closers |-> [at |-> "not called", list |-> <<>>]]
  /\ child = [s \in Configured |-> "none"] /\ mutex = [s \in Configured |-> NoOne]
  /\ ids = [s \in Configured |-> 0] /\ inbox = [s \in Configured |-> <<>>]
  /\ lines = [s \in Configured |-> <<>>] /\ unasked = [s \in Configured |-> 0]
  /\ user = [u \in Users |-> Idle]

core == <<rebuilt, visited, doing, with, clients, closing, tools>>
pipe == <<ids, inbox, lines, unasked>>

-----------------------------------------------------------------------------
(* call: the mutex is held from the request to its response.               *)

Asking(u, s) == user' = [user EXCEPT ![u] = [Idle EXCEPT !.at = "waits", !.server = s]]

\* faulty variant: calls overlap
AlwaysFree(s) == TRUE

TransportFree(s) == mutex[s] = NoOne

Ended(u, how) == user' = [user EXCEPT ![u].at = "idle", ![u].got = how]

\* the request is written, or the process has ended and the write fails
Write(u) ==
  LET s == user[u].server IN
  /\ user[u].at = "waits" /\ TransportFree(s) /\ ids[s] < MaxIds
  /\ ids' = [ids EXCEPT ![s] = @ + 1]
  /\ IF child[s] = "runs"
     THEN /\ inbox' = [inbox EXCEPT ![s] = Append(@, ids'[s])] /\ mutex' = [mutex EXCEPT ![s] = u]
          /\ user' = [user EXCEPT ![u].at = "reads", ![u].id = ids'[s]]
     ELSE Ended(u, "error") /\ UNCHANGED <<inbox, mutex>>
  /\ UNCHANGED <<core, child, lines, unasked>>

Unlocked(s) == mutex' = [mutex EXCEPT ![s] = NoOne]

\* a line with another id is skipped; one with this id is the response
Read(u) ==
  LET s == user[u].server line == Head(lines[s]) IN
  /\ user[u].at = "reads" /\ lines[s] # <<>>
  /\ lines' = [lines EXCEPT ![s] = Tail(@)]
  /\ IF line.id = user[u].id THEN Ended(u, line.kind) /\ Unlocked(s)
                             ELSE UNCHANGED <<user, mutex>>
  /\ UNCHANGED <<core, child, ids, inbox, unasked>>

EndOfFile(u) ==
  LET s == user[u].server IN
  /\ user[u].at = "reads" /\ lines[s] = <<>> /\ child[s] # "runs"
  /\ Ended(u, "error") /\ Unlocked(s)
  /\ UNCHANGED <<core, child, pipe>>

\* CallTool: the registry outlives the clients
CallTool(u, s) ==
  /\ u \in ToolCalls /\ user[u].at = "idle" /\ s \in tools
  /\ Asking(u, s)
  /\ UNCHANGED <<core, child, mutex, pipe>>

-----------------------------------------------------------------------------
(* The process of a server.                                                *)

Serve(s) ==
  /\ child[s] = "runs" /\ inbox[s] # <<>>
  /\ inbox' = [inbox EXCEPT ![s] = Tail(@)]
  /\ lines' = [lines EXCEPT ![s] = Append(@, [kind |-> "reply", id |-> Head(inbox[s])])]
  /\ UNCHANGED <<core, child, mutex, ids, unasked, user>>

\* a notification, a log line, or a request of the server: its ids start at 1, too
WriteUnasked(s) ==
  /\ child[s] = "runs" /\ unasked[s] < MaxLines
  /\ unasked' = [unasked EXCEPT ![s] = @ + 1]
  /\ \E id \in {0, unasked[s] + 1} : lines' = [lines EXCEPT ![s] = Append(@, [kind |-> "ask", id |-> id])]
  /\ UNCHANGED <<core, child, mutex, ids, inbox, user>>

Killed(s) == child' = [child EXCEPT ![s] = "ended"]

\* it exits; what it wrote can still be read
Exit(s) ==
  /\ child[s] = "runs" /\ Killed(s)
  /\ UNCHANGED <<core, mutex, pipe, user>>

-----------------------------------------------------------------------------
(* StartMCPServers, Dial, initialize, ListTools.                           *)

\* the launch is refused or fails, or the process runs and initialize is called
Launch(s) ==
  /\ doing = "start" /\ s \in Configured \ visited /\ visited' = visited \cup {s}
  /\ \/ UNCHANGED <<doing, with, child, user>>
     \/ /\ child' = [child EXCEPT ![s] = "runs"] /\ doing' = "initialize" /\ with' = s
        /\ Asking(Core, s)
  /\ UNCHANGED <<rebuilt, clients, closing, tools, mutex, pipe>>

\* the response of a step: after an error the transport is closed, of ping any will do
Proceed ==
  /\ doing \in Steps /\ user[Core].at = "idle"
  /\ \/ doing = "initialize" /\ user[Core].got # "error" /\ doing' = "ping" /\ Asking(Core, with)
        /\ UNCHANGED <<with, clients, tools>>
     \/ doing = "ping" /\ doing' = "list" /\ Asking(Core, with) /\ UNCHANGED <<with, clients, tools>>
     \/ doing = "list" /\ user[Core].got = "reply" /\ doing' = "start"
        /\ tools' = tools \cup {with} /\ clients' = Append(clients, with) /\ with' = NoOne /\ UNCHANGED user
     \/ doing \in {"initialize", "list"} /\ doing' = "close" /\ UNCHANGED <<with, clients, tools, user>>
  /\ UNCHANGED <<rebuilt, visited, closing, child, mutex, pipe>>

\* another page of tools
NextPage ==
  /\ doing = "list" /\ user[Core].at = "idle" /\ user[Core].got = "reply" /\ Asking(Core, with)
  /\ UNCHANGED <<core, child, mutex, pipe>>

\* streamTransport.close
CloseFailed ==
  /\ doing = "close" /\ mutex[with] = NoOne /\ Killed(with)
  /\ doing' = "start" /\ with' = NoOne
  /\ UNCHANGED <<rebuilt, visited, clients, closing, tools, mutex, pipe, user>>

Started ==
  /\ doing = "start" /\ visited = Configured /\ doing' = "serve"
  /\ UNCHANGED <<rebuilt, visited, with, clients, closing, tools, child, mutex, pipe, user>>

-----------------------------------------------------------------------------
(* CloseMCPServers: it takes the list, then closes one client after the    *)
(* other; a close waits for the mutex.                                     *)

\* Whose call comes when the start is over: main's own core is started by main, a
\* rebuilt one by the goroutine of the handoffs.  The other closer need not wait.
Releaser == IF rebuilt THEN "handoff" ELSE "main"

\* main closes the first core only
ThisCore(c) == c = "handoff" \/ ~rebuilt

CloseMCPServers(c) ==
  /\ closing[c].at = "not called" /\ (c = Releaser => doing = "serve")
  /\ \/ ThisCore(c) /\ closing' = [closing EXCEPT ![c] = [at |-> "closing", list |-> clients]] /\ clients' = <<>>
     \/ ~ThisCore(c) /\ closing' = [closing EXCEPT ![c].at = "closing"] /\ UNCHANGED clients
  /\ UNCHANGED <<rebuilt, visited, doing, with, tools, child, mutex, pipe, user>>

CloseNext(c) ==
  LET s == Head(closing[c].list) IN
  /\ closing[c].list # <<>> /\ mutex[s] = NoOne /\ Killed(s)
  /\ closing' = [closing EXCEPT ![c].list = Tail(@)]
  /\ UNCHANGED <<rebuilt, visited, doing, with, clients, tools, mutex, pipe, user>>

CloseReturns(c) ==
  /\ closing[c].at = "closing" /\ closing[c].list = <<>>
  /\ closing' = [closing EXCEPT ![c].at = "returned"]
  /\ UNCHANGED <<rebuilt, visited, doing, with, clients, tools, child, mutex, pipe, user>>

CoreSteps == Proceed \/ NextPage \/ CloseFailed \/ Started \/ \E s \in Configured : Launch(s)

Next ==
  \/ CoreSteps
  \/ \E c \in Closers : CloseMCPServers(c) \/ CloseNext(c) \/ CloseReturns(c)
  \/ \E s \in Configured : Serve(s) \/ WriteUnasked(s) \/ Exit(s) \/ \E u \in ToolCalls : CallTool(u, s)
  \/ \E u \in Users : Write(u) \/ Read(u) \/ EndOfFile(u)

Spec == Init /\ [][Next]_mcpvars

\* The goroutines run; a server answers when it likes, and CloseMCPServers is called when
\* the user leaves or hands over.
FairSpec ==
  /\ Spec /\ WF_mcpvars(CoreSteps)
  /\ \A c \in Closers : WF_mcpvars(CloseNext(c) \/ CloseReturns(c))
  /\ \A u \in Users : WF_mcpvars(Write(u) \/ Read(u) \/ EndOfFile(u))

-----------------------------------------------------------------------------
(* Properties.                                                             *)

\* streamTransport: "issues one request at a time and reads its response before
\* sending the next".  While a call reads, its request is still to be served or its
\* reply is still to be read, whatever the other calls do; nobody skipped it.
AwaitedReplyKept ==
  \A u \in Users : user[u].at = "reads" =>
    LET s == user[u].server IN
    child[s] = "runs" =>
      \/ user[u].id \in Range(inbox[s])
      \/ [kind |-> "reply", id |-> user[u].id] \in Range(lines[s])

\* The call of CloseMCPServers that comes after the start accounts for every server of
\* the core, those that failed in the handshake and those registered after the other
\* call took the list included: none is left running, but for those on the list of a
\* call that has not come to them yet.
NoneOutlives ==
  closing[Releaser].at = "returned" =>
    \A s \in Configured : child[s] = "runs" => \E c \in Closers : s \in Range(closing[c].list)

\* Start (handoff.go): "Shut the source down now that the target owns the work: stop its
\* watchers and MCP".  A server that the source's own start registered after it stays.
SourceReleased ==
  closing["handoff"].at = "returned" /\ doing = "serve" => \A s \in Configured : child[s] # "runs"

\* main, at the end: "Release any MCP servers (terminates stdio subprocesses)".  It does
\* not for a core that a handoff has rebuilt, and does not wait for a handoff's own call.
ExitReleases ==
  closing["main"].at = "returned" /\ doing = "serve" => \A s \in Configured : child[s] # "runs"

\* call: "Read until the response with the matching id arrives", "an unrelated
\* response" is ignored: no request of the server ends a call.
AnswerIsReply == \A u \in Users : user[u].got # "ask"

AtBound == \E s \in Configured : ids[s] = MaxIds

\* StartMCPServers: "one misconfigured server never blocks startup".
StartReturns == (doing \in Steps) ~> (doing = "serve" \/ AtBound)

\* CloseMCPServers "releases every connected MCP server", so that the shutdown goes
\* on to flush the store.
ReleaseReturns == (closing["main"].at = "closing") ~> (closing["main"].at = "returned" \/ AtBound)
=============================================================================
