---------------------------- MODULE DocumentSync ----------------------------
(***************************************************************************)
(* One file and one language server (lsp/client.go, lsp/diagnostics.go):   *)
(* tool calls ask about the file after ensureOpen has opened or re-synced  *)
(* it, the agent's own writes and removals are followed by FileChanged,    *)
(* and others change the file behind both.                                 *)
(*                                                                         *)
(* A content is the number of the write that made it, and its stat (size   *)
(* and mtime) is that number; 0 is no file.  The connection delivers in    *)
(* order, and the server numbers its findings with the version they are    *)
(* about (gopls): the fallbacks for servers that do not are left out, and  *)
(* so are watched files and the debounce of settled findings.              *)
(***************************************************************************)
EXTENDS Integers, Sequences

CONSTANTS
  Callers,      \* tool calls under way at the same time
  MaxContents,  \* bound: writes of the file
  MaxCalls      \* bound: tool calls

VARIABLES
  disk,     \* the content of the file
  contents, \* the writes so far
  doc,      \* c.docs[path]: [version, text, stat], version 0 when not open
  opens,    \* the lives of the document so far
  diag,     \* its diagEntry: [awaited, version, text, life], version 0 without a push
  call,     \* each caller: [op, at, seen, text, version]
  calls,    \* the calls so far
  cut,      \* a notification failed after the document table had moved on
  wire,     \* to the server: [kind, version, text, life]
  view,     \* the server's document: [version, text, life], version 0 when not open
  pushes    \* publishDiagnostics on their way: [version, text, life]

docvars == <<disk, contents, doc, opens, diag, call, calls, cut, wire, view, pushes>>

Unopened == [version |-> 0, text |-> 0, stat |-> 0]
Unviewed == [version |-> 0, text |-> 0, life |-> 0]
Done == [op |-> "none", at |-> "idle", seen |-> 0, text |-> 0, version |-> 0]

TypeOK ==
  /\ {disk, contents, doc.text, doc.stat, diag.text, view.text} \subseteq 0..MaxContents
  /\ {doc.version, diag.awaited, diag.version, view.version} \subseteq Nat
  /\ opens \in Nat /\ calls \in 0..MaxCalls /\ cut \in BOOLEAN
  /\ \A c \in Callers :
       /\ call[c].op \in {"none", "ask", "diagnose", "write", "remove"}
       /\ call[c].at \in {"idle", "told", "stat", "read", "sync", "expect", "notify", "use", "invalidate"}
  /\ \A i \in DOMAIN wire : wire[i].kind \in {"open", "change", "save", "close", "request"}

Init ==
  /\ disk = 1 /\ contents = 1
  /\ doc = Unopened /\ opens = 0
  /\ diag = [awaited |-> 0, version |-> 0, text |-> 0, life |-> 0]
  /\ call = [c \in Callers |-> Done] /\ calls = 0 /\ cut = FALSE
  /\ wire = <<>> /\ view = Unviewed /\ pushes = <<>>

-----------------------------------------------------------------------------
(* The file.                                                               *)

Open == doc.version > 0
Fresh == contents < MaxContents /\ contents' = contents + 1 /\ disk' = contents + 1
Gone == disk > 0 /\ disk' = 0 /\ UNCHANGED contents

Return(c) == call' = [call EXCEPT ![c] = Done]
Goto(c, at) == call' = [call EXCEPT ![c].at = at]
Starts(c, op, at) ==
  /\ call[c].at = "idle" /\ calls < MaxCalls /\ calls' = calls + 1
  /\ call' = [call EXCEPT ![c] = [Done EXCEPT !.op = op, !.at = at]]

EditedOutside ==
  /\ Fresh \/ Gone
  /\ UNCHANGED <<doc, opens, diag, call, calls, cut, wire, view, pushes>>

Asks(c) ==
  /\ Starts(c, "ask", "stat") \/ Starts(c, "diagnose", "stat")
  /\ UNCHANGED <<disk, contents, doc, opens, diag, cut, wire, view, pushes>>

\* The mutation tools write, then call FileChanged.
Writes(c) ==
  /\ \/ Fresh /\ Starts(c, "write", "told")
     \/ Gone /\ Starts(c, "remove", "told")
  /\ UNCHANGED <<doc, opens, diag, cut, wire, view, pushes>>

FileChanged(c) ==
  /\ call[c].at = "told"
  /\ \/ ~Open /\ Return(c) /\ UNCHANGED doc
     \/ Open /\ call[c].op = "write" /\ Goto(c, "stat") /\ UNCHANGED doc
     \/ Open /\ call[c].op = "remove" /\ Goto(c, "invalidate") /\ doc' = Unopened
  /\ UNCHANGED <<disk, contents, opens, diag, calls, cut, wire, view, pushes>>

-----------------------------------------------------------------------------
(* ensureOpen.                                                             *)

\* The fast path: the stat is the one the document was synced at.
Unchanged(n) == Open /\ doc.stat = n

Stat(c) ==
  /\ call[c].at = "stat"
  /\ IF disk = 0 THEN Return(c)
     ELSE call' = [call EXCEPT ![c].seen = disk, ![c].at = IF Unchanged(disk) THEN "use" ELSE "read"]
  /\ UNCHANGED <<disk, contents, doc, opens, diag, calls, cut, wire, view, pushes>>

Read(c) ==
  /\ call[c].at = "read"
  /\ IF disk = 0 THEN Return(c)
     ELSE call' = [call EXCEPT ![c].text = disk, ![c].at = "sync"]
  /\ UNCHANGED <<disk, contents, doc, opens, diag, calls, cut, wire, view, pushes>>

\* Under the lock: a new document, a new version, or (the same hash) nothing.
Sync(c) ==
  LET text == call[c].text IN
  /\ call[c].at = "sync"
  /\ \/ /\ Open /\ doc.text = text
        /\ Goto(c, "use") /\ UNCHANGED <<doc, opens>>
     \/ /\ ~Open \/ doc.text # text
        /\ doc' = [version |-> doc.version + 1, text |-> text, stat |-> call[c].seen]
        /\ opens' = IF Open THEN opens ELSE opens + 1
        /\ call' = [call EXCEPT ![c].version = doc.version + 1, ![c].at = "expect"]
  /\ UNCHANGED <<disk, contents, diag, calls, cut, wire, view, pushes>>

\* faulty variant: the version a waiter correlates on is not moved.
AwaitedKept(c) == diag.awaited

Awaited(c) == call[c].version

Expect(c) ==
  /\ call[c].at = "expect" /\ Goto(c, "notify")
  /\ diag' = [diag EXCEPT !.awaited = Awaited(c)]
  /\ UNCHANGED <<disk, contents, doc, opens, calls, cut, wire, view, pushes>>

Message(kind, version, text) == [kind |-> kind, version |-> version, text |-> text, life |-> opens]

\* didOpen or didChange; when it fails the call ends with the error.
Notify(c) ==
  /\ call[c].at = "notify"
  /\ \/ /\ Goto(c, "use") /\ UNCHANGED cut
        /\ wire' = Append(wire, Message(IF call[c].version = 1 THEN "open" ELSE "change",
                                        call[c].version, call[c].text))
     \/ Return(c) /\ cut' = TRUE /\ UNCHANGED wire
  /\ UNCHANGED <<disk, contents, doc, opens, diag, calls, view, pushes>>

-----------------------------------------------------------------------------
(* After ensureOpen, and closeDoc.                                         *)

Settled == diag.version > 0 /\ diag.version >= diag.awaited

\* A request, didSave after the agent's own write, or the findings: settled, or
\* what there is when the wait reaches its ceiling.
Use(c) ==
  /\ call[c].at = "use" /\ Return(c)
  /\ wire' = IF call[c].op = "ask" THEN Append(wire, Message("request", 0, call[c].seen))
             ELSE IF call[c].op = "write" /\ Open THEN Append(wire, Message("save", 0, doc.text))
             ELSE wire
  /\ UNCHANGED <<disk, contents, doc, opens, diag, calls, cut, view, pushes>>

\* resetEntry: the push is dropped, the awaited version is not.
Reset == [diag EXCEPT !.version = 0, !.text = 0, !.life = 0]

Invalidate(c) ==
  /\ call[c].at = "invalidate" /\ Return(c)
  /\ diag' = Reset
  /\ wire' = Append(wire, Message("close", 0, 0))
  /\ UNCHANGED <<disk, contents, doc, opens, calls, cut, view, pushes>>

-----------------------------------------------------------------------------
(* The connection.                                                         *)

ServerTakes ==
  LET m == Head(wire) IN
  /\ wire # <<>> /\ wire' = Tail(wire)
  /\ view' = IF m.kind \in {"open", "change"} THEN [version |-> m.version, text |-> m.text, life |-> m.life]
             ELSE IF m.kind = "close" THEN Unviewed ELSE view
  /\ pushes' = IF m.kind \in {"open", "change"} THEN Append(pushes, view') ELSE pushes
  /\ UNCHANGED <<disk, contents, doc, opens, diag, call, calls, cut>>

PublishDiagnostics ==
  LET p == Head(pushes) IN
  /\ pushes # <<>> /\ pushes' = Tail(pushes)
  /\ diag' = [diag EXCEPT !.version = p.version, !.text = p.text, !.life = p.life]
  /\ UNCHANGED <<disk, contents, doc, opens, call, calls, cut, wire, view>>

-----------------------------------------------------------------------------

Next ==
  \/ EditedOutside \/ ServerTakes \/ PublishDiagnostics
  \/ \E c \in Callers :
       \/ Asks(c) \/ Writes(c) \/ FileChanged(c)
       \/ Stat(c) \/ Read(c) \/ Sync(c) \/ Expect(c) \/ Notify(c) \/ Use(c) \/ Invalidate(c)

Spec == Init /\ [][Next]_docvars

-----------------------------------------------------------------------------
(* Properties.                                                             *)

Requested == wire # <<>> /\ Head(wire).kind = "request"
Reading == {c \in Callers : call[c].at = "use" /\ call[c].op = "diagnose" /\ Settled}

\* Where calls follow one another and no notification failed, the server answers
\* a request from a content at least as new as the one ensureOpen saw, and the
\* settled findings are about one too, unless they come from an earlier life of
\* the document (ensureOpen, expect, wait).
ViewIsCurrent ==
  ~cut => /\ Requested => view.version > 0 /\ view.text >= Head(wire).text
          /\ \A c \in Reading : diag.text >= call[c].seen \/ diag.life < opens

\* The same without that exception.
FindingsAreCurrent == ~cut => \A c \in Reading : diag.text >= call[c].seen

\* A request finds its document open at the server: "ensureOpen guarantees the
\* server has a current view of path before a request" (client.go).
RequestFindsDocument == Requested => view.version > 0
=============================================================================
