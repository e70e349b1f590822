----------------------------- MODULE Checkpoints ----------------------------
(***************************************************************************)
(* Undo of file changes (fileops/checkpoint.go): the Checkpointer with the *)
(* write paths that feed it (the write, edit and apply_patch tools of      *)
(* gogent/gogent.go and the workspace edits a language server asks for,    *)
(* gogent/lsp.go) and the disk they all share.                             *)
(*                                                                         *)
(* A content is the number of the write that produced it; Absent is no     *)
(* file.  Paths, permissions and the diff review before a write are left   *)
(* out.  The lock of the Checkpointer covers Begin, Snapshot, Commit and   *)
(* the taking of checkpoints; writing to the disk happens outside it.      *)
(***************************************************************************)
EXTENDS Integers, Sequences, FiniteSets, Functions

CONSTANTS
  Files,
  Workers,       \* the agents of a session, each with at most one call under way
  Background,    \* those that outlive the turn that started them
  Servers,       \* language servers that may ask for an edit at the same time
  Lists,         \* the files of a call or an edit, in its order
  MaxActs,       \* bound: turns, tool calls, edits, undos and changes by the user, all in all
  MaxWrites,     \* bound: contents written
  MaxCheckpoints \* turns of history a session keeps (100 in the code)

\* write and edit change one file, apply_patch several; at least one turn is kept.
CheckpointsAssumption == Lists \subseteq Seq(Files) \ {<<>>} /\ MaxCheckpoints \in Nat \ {0}

VARIABLES
  disk,       \* the content of each file
  active,     \* per session, the checkpoint of the turn in progress: <<>> or a record
  history,    \* per session, the committed checkpoints, newest last
  restoring,  \* per session, the snapshots an undo has yet to write back
  running,    \* the session's turn is in its task loop
  call,       \* per worker, the files its tool call has yet to change
  edit,       \* per server, the files of the edit it has yet to change
  acts, writes

ckvars == <<disk, active, history, restoring, running, call, edit, acts, writes>>

Absent == 0
Unreadable == -1
EditSessions == {"agents", "lsp"}
Nothing == [none |-> TRUE]
Idle == [left |-> <<>>, snapped |-> FALSE, mine |-> FALSE]

\* A checkpoint is [files, start, cut]: the snapshots of a turn and, kept for the
\* properties, what the files held when the turn began, without the files that
\* were since changed by somebody this turn does not answer for, and the files of
\* which an undo took a turn out from between this one and the turn in progress.

TypeOK ==
  /\ disk \in [Files -> Absent..MaxWrites]
  /\ DOMAIN active = EditSessions /\ DOMAIN history = EditSessions /\ DOMAIN restoring = EditSessions
  /\ \A x \in EditSessions : Len(history[x]) <= MaxCheckpoints
  /\ running \in BOOLEAN
  /\ \A w \in Workers : Range(call[w].left) \subseteq Files
  /\ \A s \in Servers : Range(edit[s].left) \subseteq Files
  /\ acts \in 0..MaxActs /\ writes \in 1..MaxWrites

\* One file is there, the others are not.
Init ==
  /\ disk = [f \in Files |-> IF f = CHOOSE g \in Files : TRUE THEN 1 ELSE Absent]
  /\ active = [x \in EditSessions |-> Nothing]
  /\ history = [x \in EditSessions |-> <<>>]
  /\ restoring = [x \in EditSessions |-> Nothing]
  /\ running = FALSE
  /\ call = [w \in Workers |-> Idle] /\ edit = [s \in Servers |-> Idle]
  /\ acts = 0 /\ writes = 1

-----------------------------------------------------------------------------
(* What changes the disk: every write names the sessions it is strange to. *)

Without(cp, F) == IF cp = Nothing THEN cp ELSE [cp EXCEPT !.start = Restrict(@, DOMAIN @ \ F)]
Forget(cp, f) == Without(cp, {f})
Pending(cp) == IF cp = Nothing THEN {} ELSE DOMAIN cp.files
ForgetAll(cps, f) == [i \in DOMAIN cps |-> Forget(cps[i], f)]
CutAll(cps, F) == [i \in DOMAIN cps |-> [cps[i] EXCEPT !.cut = @ \cup F]]

Strange(X, f, rest) ==
  /\ active' = [x \in EditSessions |-> IF x \in X THEN Forget(active[x], f) ELSE active[x]]
  /\ history' = [x \in EditSessions |-> IF x \in X THEN ForgetAll(history[x], f) ELSE history[x]]
  /\ restoring' = [x \in EditSessions |-> IF x \in X THEN Forget(rest[x], f) ELSE rest[x]]

New == writes + 1

\* The tool, the server or the user gives f the new content, or removes it.
Change(f, X) ==
  /\ \/ writes < MaxWrites /\ disk' = [disk EXCEPT ![f] = New] /\ writes' = New
     \/ disk[f] # Absent /\ disk' = [disk EXCEPT ![f] = Absent] /\ UNCHANGED writes
  /\ Strange(X, f, restoring)

-----------------------------------------------------------------------------
(* The Checkpointer.                                                       *)

Fresh == [files |-> <<>>, start |-> disk, cut |-> {}]

\* Counts against the bound.
Act == acts < MaxActs /\ acts' = acts + 1

Put(files, f, content) == [g \in DOMAIN files \cup {f} |-> IF g = f THEN content ELSE files[g]]

\* faulty variant: a later snapshot of the file replaces the first.
WithSnapshotLast(cp, f, content) == [cp EXCEPT !.files = Put(@, f, content)]

\* The first mutation of a file in a turn wins.
WithSnapshot(cp, f, content) ==
  IF f \in DOMAIN cp.files THEN cp ELSE [cp EXCEPT !.files = Put(@, f, content)]

\* A file that is there may turn out unreadable.
Readings(f) == IF disk[f] = Absent THEN {Absent} ELSE {disk[f], Unreadable}

Committed(h, cp) ==
  IF cp.files = <<>> THEN h
  ELSE IF Len(h) = MaxCheckpoints THEN Append(Tail(h), cp) ELSE Append(h, cp)

Earliest(cps, f) ==
  CHOOSE i \in DOMAIN cps : f \in DOMAIN cps[i].files /\ \A j \in 1..(i - 1) : f \notin DOMAIN cps[j].files

\* A file goes back to where it was before the earliest turn that changed it.
Merged(cps) == [f \in UNION {DOMAIN cps[i].files : i \in DOMAIN cps} |-> cps[Earliest(cps, f)].files[f]]

Newest(h, k) == SubSeq(h, Len(h) - k + 1, Len(h))

\* Take the last k checkpoints of h and start to write them back.  What only the
\* turn in progress has changed, and what could not be read, is no part of it.
Popped(h, k, current) ==
  LET cps == Newest(h, k)
      files == Merged(cps)
      unread == {f \in DOMAIN files : files[f] = Unreadable}
  IN  Without([files |-> files, ok |-> TRUE, start |-> cps[1].start, cut |-> cps[1].cut],
              unread \cup (Pending(current) \ DOMAIN files))

\* Of a file that the turn in progress has changed as well, its snapshot does not
\* follow on the checkpoints that stay.
Kept(h, k, current) ==
  CutAll(SubSeq(h, 1, Len(h) - k), Pending(current) \cap DOMAIN Merged(Newest(h, k)))

\* UndoLastTurn is k = 1; Rewind takes any number, or all.
Undo(k) ==
  LET h == history["agents"] IN
  /\ k \in 1..Len(h) /\ restoring["agents"] = Nothing /\ Act
  /\ restoring' = [restoring EXCEPT !["agents"] = Popped(h, k, active["agents"])]
  /\ history' = [history EXCEPT !["agents"] = Kept(h, k, active["agents"])]
  /\ UNCHANGED <<disk, active, running, call, edit, writes>>

Left(r, f) == [r EXCEPT !.files = Restrict(@, DOMAIN @ \ {f})]

WriteBack(x, f) ==
  /\ restoring[x].files[f] # Unreadable
  /\ disk' = [disk EXCEPT ![f] = restoring[x].files[f]]
  /\ active' = [y \in EditSessions |-> Forget(active[y], f)]
  /\ history' = [y \in EditSessions |-> IF y = x THEN history[y] ELSE ForgetAll(history[y], f)]
  /\ restoring' = [y \in EditSessions |-> IF y = x THEN Left(restoring[y], f) ELSE Forget(restoring[y], f)]

\* Without content there is nothing to write back.
Skip(x, f) ==
  /\ restoring[x].files[f] = Unreadable
  /\ Strange({x}, f, [restoring EXCEPT ![x] = Left(@, f)])
  /\ UNCHANGED disk

\* One file that cannot be written does not keep the rest from being restored.
Refused(x, f) ==
  /\ restoring[x].files[f] # Unreadable
  /\ Strange({x}, f, [restoring EXCEPT ![x] = [Left(@, f) EXCEPT !.ok = FALSE]])
  /\ UNCHANGED disk

RestoreOne(x, f) ==
  /\ restoring[x] # Nothing /\ f \in DOMAIN restoring[x].files
  /\ WriteBack(x, f) \/ Skip(x, f) \/ Refused(x, f)
  /\ UNCHANGED <<running, call, edit, acts, writes>>

Restored(x) ==
  /\ restoring[x] # Nothing /\ restoring[x].files = <<>>
  /\ restoring' = [restoring EXCEPT ![x] = Nothing]
  /\ UNCHANGED <<disk, active, history, running, call, edit, acts, writes>>

-----------------------------------------------------------------------------
(* Turns of the session and the tool calls of its agents.                  *)

BeginTurn ==
  /\ ~running /\ Act
  /\ running' = TRUE
  /\ active' = [active EXCEPT !["agents"] = Fresh]
  /\ UNCHANGED <<disk, history, restoring, call, edit, writes>>

\* The task loop is over, however it ended; background workers may go on.
EndTurn ==
  /\ running /\ \A w \in Workers \ Background : call[w] = Idle
  /\ running' = FALSE
  /\ active' = [active EXCEPT !["agents"] = Nothing]
  /\ history' = [history EXCEPT !["agents"] =
       Committed(@, Without(active["agents"], Pending(restoring["agents"])))]
  /\ call' = [w \in Workers |-> [call[w] EXCEPT !.mine = FALSE]]
  /\ UNCHANGED <<disk, restoring, edit, acts, writes>>

\* snapshotBefore for the first file of the rest of the call: nothing is recorded
\* when no turn is in progress.  mine: the turn in progress answers for the write.
SnapshotBefore(w, left) ==
  LET f == Head(left)
      cp == active["agents"]
  IN  /\ call' = [call EXCEPT ![w] = [left |-> left, snapped |-> TRUE, mine |-> cp # Nothing]]
      /\ IF cp = Nothing
         THEN UNCHANGED <<active, history>>
         ELSE /\ \E c \in Readings(f) : active' = [active EXCEPT !["agents"] = WithSnapshot(cp, f, c)]
              /\ history' = [history EXCEPT !["agents"] = CutAll(@, {f} \cap Pending(restoring["agents"]))]

\* Up to its first snapshot a call changes nothing.
StartCall(w) ==
  /\ call[w] = Idle /\ (running \/ w \in Background) /\ Act
  /\ \E l \in Lists : SnapshotBefore(w, l)
  /\ UNCHANGED <<disk, restoring, running, edit, writes>>

NextFile(w) ==
  /\ call[w].left # <<>> /\ ~call[w].snapped
  /\ SnapshotBefore(w, call[w].left)
  /\ UNCHANGED <<disk, restoring, running, edit, acts, writes>>

Answers(w) == call[w].mine /\ restoring["agents"] = Nothing

AfterFile(c) == IF Len(c.left) = 1 THEN Idle ELSE [Idle EXCEPT !.left = Tail(c.left)]

Write(w) ==
  /\ call[w].snapped
  /\ Change(Head(call[w].left), IF Answers(w) THEN {"lsp"} ELSE EditSessions)
  /\ call' = [call EXCEPT ![w] = AfterFile(@)]
  /\ UNCHANGED <<running, edit, acts>>

\* The edit does not apply, or the disk refuses: what is written stays written.
CallFails(w) ==
  /\ call[w].snapped
  /\ call' = [call EXCEPT ![w] = Idle]
  /\ UNCHANGED <<disk, active, history, restoring, running, edit, acts, writes>>

\* The user saves or deletes a file in an editor.
UserChange(f) ==
  /\ Act /\ Change(f, EditSessions)
  /\ UNCHANGED <<running, call, edit>>

-----------------------------------------------------------------------------
(* Edits asked for by a language server: ApplyEdit.                        *)

\* Every path is authorised and snapshotted before the first is changed.
BeginEdit(s) ==
  /\ edit[s] = Idle /\ restoring["lsp"] = Nothing /\ Act
  /\ \E l \in Lists : \E seen \in [Range(l) -> BOOLEAN] :
       /\ edit' = [edit EXCEPT ![s] = [Idle EXCEPT !.left = l, !.snapped = TRUE]]
       /\ active' = [active EXCEPT !["lsp"] = [Fresh EXCEPT !.files =
            [f \in Range(l) |-> IF seen[f] \/ disk[f] = Absent THEN disk[f] ELSE Unreadable]]]
  /\ UNCHANGED <<disk, history, restoring, running, call, writes>>

ApplyOne(s) ==
  /\ edit[s].left # <<>>
  /\ Change(Head(edit[s].left), {"agents"})
  /\ edit' = [edit EXCEPT ![s].left = Tail(@)]
  /\ UNCHANGED <<running, call, acts>>

CommittedEdits == IF active["lsp"] = Nothing THEN history["lsp"] ELSE Committed(history["lsp"], active["lsp"])

EndEdit(s) ==
  /\ edit[s].snapped /\ edit[s].left = <<>>
  /\ edit' = [edit EXCEPT ![s] = Idle]
  /\ active' = [active EXCEPT !["lsp"] = Nothing]
  /\ history' = [history EXCEPT !["lsp"] = CommittedEdits]
  /\ UNCHANGED <<disk, restoring, running, call, acts, writes>>

Rollback(h) == Popped(h, 1, Nothing)

\* An operation fails: what was applied is committed and undone at once.
EditFails(s) ==
  /\ edit[s].left # <<>> /\ restoring["lsp"] = Nothing
  /\ edit' = [edit EXCEPT ![s] = Idle]
  /\ active' = [active EXCEPT !["lsp"] = Nothing]
  /\ LET h == CommittedEdits IN
       /\ history' = [history EXCEPT !["lsp"] = SubSeq(h, 1, Len(h) - 1)]
       /\ restoring' = [restoring EXCEPT !["lsp"] = IF h = <<>> THEN Nothing ELSE Rollback(h)]
  /\ UNCHANGED <<disk, running, call, acts, writes>>

-----------------------------------------------------------------------------

Next ==
  \/ BeginTurn \/ EndTurn
  \/ \E w \in Workers : StartCall(w) \/ NextFile(w) \/ Write(w) \/ CallFails(w)
  \/ \E f \in Files : UserChange(f)
  \/ \E k \in 1..MaxCheckpoints : Undo(k)
  \/ \E x \in EditSessions : Restored(x) \/ \E f \in Files : RestoreOne(x, f)
  \/ \E s \in Servers : BeginEdit(s) \/ ApplyOne(s) \/ EndEdit(s) \/ EditFails(s)

Spec == Init /\ [][Next]_ckvars

-----------------------------------------------------------------------------
(* Properties.                                                             *)

\* An undo or a rewind that reports no error leaves every file as it was when the
\* earliest reverted turn began, those the turns never touched included, whatever
\* its agents did side by side; only what others changed since is excepted, and
\* what was undone from under a turn in progress (UndoLastTurn, Rewind).
RestoresStart(x) ==
  LET r == restoring[x] IN
  r # Nothing /\ r.files = <<>> /\ r.ok => \A f \in DOMAIN r.start \ r.cut : disk[f] = r.start[f]

\* The undo of the user's turns restores their start, and so does the rollback of a
\* workspace edit reported as not applied (ApplyEdit).
UndoRestoresStart == \A x \in EditSessions : RestoresStart(x)

\* "restoring each touched file to its state before the earliest reverted turn"
\* (Rewind): after an undo from under a turn in progress as well.
RewindReachesStart ==
  LET r == restoring["agents"] IN
  r # Nothing /\ r.files = <<>> /\ r.ok => \A f \in DOMAIN r.start : disk[f] = r.start[f]

\* "Roll the just-applied ops back so the on-disk state matches the applied:false
\* we report": of any number of servers (ApplyEdit).
RollbackIsWhole ==
  LET r == restoring["lsp"] IN
  r # Nothing /\ r.files = <<>> /\ r.ok => \A f \in DOMAIN r.start : disk[f] = r.start[f]
=============================================================================
