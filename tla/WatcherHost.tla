----------------------------- MODULE WatcherHost ----------------------------
(***************************************************************************)
(* The side of the watchers that gogent keeps (gogent/watcher.go,          *)
(* watcher_store.go): the definitions of free-running watchers in          *)
(* watchers.json, those attached to a session in memory and in the index   *)
(* of the session, and the runners registered with the engine.  Clients    *)
(* create, update, enable and delete watchers, restore and close sessions, *)
(* while the engine starts; the daemon may die between any two steps.      *)
(*                                                                         *)
(* A watcher is its enabled flag.  The watcher attached to session s is    *)
(* called s.  Every permission is granted and every schedule is valid; the *)
(* engine itself is module WatcherManager.                                 *)
(***************************************************************************)
EXTENDS Integers, FiniteSets, Functions

CONSTANTS
  Clients,    \* callers of the API, each with one call under way
  Free,       \* bound: free-running watchers, each created once
  Sessions,   \* bound: sessions, each with one attached watcher at most
  MaxCalls,   \* bound: calls
  MaxCrashes  \* bound: restarts of the daemon

\* The ids of watchers and sessions differ.
HostAssumption == Free \cap Sessions = {}

VARIABLES
  runners,    \* the runners of the manager, by watcher
  file,       \* watchers.json
  live,       \* userSessions
  attached,   \* attachedWatchers, by session
  index,      \* of each session kept on disk, its attached watchers: [s -> watchers]
  boot,       \* StartWatchers: "off", "built" (not yet g.watchers), "registering", "up"
  pending,    \* the attached watchers StartWatchers has yet to register
  call,       \* the call of each client
  made,       \* the watchers ever created or there from the start
  calls, crashes

whvars == <<runners, file, live, attached, index, boot, pending, call, made, calls, crashes>>

None == <<>>   \* the function with an empty domain
Idle == [do |-> "none", id |-> "none", at |-> "none", on |-> FALSE, toggle |-> FALSE, seen |-> None]
Watchers == Free \cup Sessions
Flags(S) == UNION {[D -> BOOLEAN] : D \in SUBSET S}

TypeOK ==
  /\ runners \in Flags(Watchers) /\ file \in Flags(Free)
  /\ live \subseteq Sessions /\ attached \in Flags(Sessions) /\ pending \in Flags(Sessions)
  /\ DOMAIN index \subseteq Sessions /\ \A s \in DOMAIN index : index[s] \in Flags({s})
  /\ boot \in {"off", "built", "registering", "up"}
  /\ \A c \in Clients : call[c].do # "none" => call[c].id \in Watchers
  /\ made \subseteq Watchers /\ calls \in 0..MaxCalls /\ crashes \in 0..MaxCrashes

\* Some watchers and sessions are on disk from earlier days.
Init ==
  /\ file \in Flags(Free)
  /\ index \in (UNION {[D -> {None}] : D \in SUBSET Sessions}) \cup {[s \in Sessions |-> [w \in {s} |-> TRUE]]}
  /\ made = DOMAIN file \cup {s \in DOMAIN index : index[s] # None}
  /\ runners = None /\ live = {} /\ attached = None
  /\ boot = "off" /\ pending = None
  /\ call = [c \in Clients |-> Idle] /\ calls = 0 /\ crashes = 0

-----------------------------------------------------------------------------
(* What the calls are made of.                                             *)

Up == boot \in {"registering", "up"}   \* g.watchers is set

Start(c, do, w, at, on) ==
  /\ call[c] = Idle /\ calls < MaxCalls
  /\ calls' = calls + 1
  /\ call' = [call EXCEPT ![c] = [Idle EXCEPT !.do = do, !.id = w, !.at = at, !.on = on]]

At(c, do, at) == call[c].do \in do /\ call[c].at = at
Goto(c, at) == call' = [call EXCEPT ![c].at = at]
Return(c) == call' = [call EXCEPT ![c] = Idle]

\* attachedWatchersFor.
Of(s) == Restrict(attached, {s} \cap DOMAIN attached)

Drop(f, w) == Restrict(f, DOMAIN f \ {w})
Put(f, w, on) == [v \in DOMAIN f \cup {w} |-> IF v = w THEN on ELSE f[v]]

\* Creation, or the re-registration of an update.
Add(c) ==
  /\ At(c, {"create", "update"}, "add")
  /\ IF call[c].id \in DOMAIN runners
     THEN Return(c) /\ UNCHANGED runners
     ELSE Goto(c, "record") /\ runners' = Put(runners, call[c].id, call[c].on)
  /\ UNCHANGED <<file, live, attached, index, boot, pending, made, calls, crashes>>

\* Deletion ends here when the watcher is gone, an update does not mind.
Remove(c) ==
  /\ At(c, {"delete", "update"}, "remove")
  /\ IF call[c].do = "delete"
     THEN IF call[c].id \in DOMAIN runners THEN Goto(c, "record") ELSE Return(c)
     ELSE Goto(c, "add")
  /\ runners' = Drop(runners, call[c].id)
  /\ UNCHANGED <<file, live, attached, index, boot, pending, made, calls, crashes>>

\* The store of an attached watcher: the map in memory, then the session's index.
RecordAttached(c) ==
  LET s == call[c].id
      on == call[c].on IN
  /\ call[c].at = "record" /\ s \in Sessions
  /\ attached' = CASE call[c].do = "create" -> Put(attached, s, on)
                   [] call[c].do = "delete" -> Drop(attached, s)
                   [] OTHER -> IF s \in DOMAIN attached THEN Put(attached, s, on) ELSE attached
  /\ Goto(c, "save")
  /\ UNCHANGED <<runners, file, live, index, boot, pending, made, calls, crashes>>

\* persistSession: nothing for a session that is not live.
SaveAttached(c) ==
  LET s == call[c].id IN
  /\ call[c].at = "save" /\ s \in Sessions
  /\ index' = IF s \in live THEN Put(index, s, Of(s)) ELSE index
  /\ Return(c)
  /\ UNCHANGED <<runners, file, live, attached, boot, pending, made, calls, crashes>>

\* The store of a free one is read, changed and written back.
LoadFile(c) ==
  /\ call[c].at = "record" /\ call[c].id \in Free
  /\ IF call[c].do = "enable" /\ call[c].id \notin DOMAIN file
     THEN Return(c)
     ELSE call' = [call EXCEPT ![c].at = "save", ![c].seen = file]
  /\ UNCHANGED <<runners, file, live, attached, index, boot, pending, made, calls, crashes>>

\* faulty variant: an upsert only replaces, it never adds.
UpsertReplacing(f, w, on) == IF w \in DOMAIN f THEN Put(f, w, on) ELSE f

Upsert(f, w, on) == Put(f, w, on)

SaveFile(c) ==
  LET w == call[c].id IN
  /\ call[c].at = "save" /\ w \in Free
  /\ file' = IF call[c].do = "delete" THEN Drop(call[c].seen, w) ELSE Upsert(call[c].seen, w, call[c].on)
  /\ Return(c)
  /\ UNCHANGED <<runners, live, attached, index, boot, pending, made, calls, crashes>>

-----------------------------------------------------------------------------
(* The calls.                                                              *)

\* An attached watcher needs a live session.
CreateWatcher(c, w, on) ==
  /\ Up /\ w \notin made /\ (w \in Sessions => w \in live)
  /\ Start(c, "create", w, "add", on) /\ made' = made \cup {w}
  /\ UNCHANGED <<runners, file, live, attached, index, boot, pending, crashes>>

DeleteWatcher(c, w) ==
  /\ Up /\ w \in DOMAIN runners
  /\ Start(c, "delete", w, "remove", FALSE)
  /\ UNCHANGED <<runners, file, live, attached, index, boot, pending, made, crashes>>

\* Resolved before the flag is looked at; a toggle asks for the opposite.
SetWatcherEnabled(c, w, on) ==
  /\ Up /\ w \in DOMAIN runners
  /\ call[c] = Idle /\ calls < MaxCalls /\ calls' = calls + 1
  /\ call' = [call EXCEPT ![c] = [Idle EXCEPT !.do = "enable", !.id = w, !.at = "toggle", !.on = on,
                                              !.toggle = (runners[w] # on)]]
  /\ UNCHANGED <<runners, file, live, attached, index, boot, pending, made, crashes>>

Toggle(c) ==
  LET w == call[c].id IN
  /\ At(c, {"enable"}, "toggle")
  /\ IF call[c].toggle /\ w \notin DOMAIN runners
     THEN Return(c) /\ UNCHANGED runners
     ELSE /\ Goto(c, "record")
          /\ runners' = IF call[c].toggle THEN Put(runners, w, ~runners[w]) ELSE runners
  /\ UNCHANGED <<file, live, attached, index, boot, pending, made, calls, crashes>>

UpdateWatcher(c, w) ==
  /\ Up /\ w \in DOMAIN runners
  /\ Start(c, "update", w, "lookup", FALSE)
  /\ UNCHANGED <<runners, file, live, attached, index, boot, pending, made, crashes>>

Lookup(c) ==
  LET w == call[c].id
      store == IF w \in Sessions THEN attached ELSE file IN
  /\ At(c, {"update"}, "lookup")
  /\ IF w \in DOMAIN store
     THEN call' = [call EXCEPT ![c].at = "remove", ![c].on = store[w]]
     ELSE Return(c)
  /\ UNCHANGED <<runners, file, live, attached, index, boot, pending, made, calls, crashes>>

-----------------------------------------------------------------------------
(* Sessions come and go.                                                   *)

NewSession(c, s) ==
  /\ s \notin live \cup DOMAIN index /\ s \notin made /\ call[c] = Idle /\ calls < MaxCalls
  /\ live' = live \cup {s} /\ index' = Put(index, s, None) /\ calls' = calls + 1
  /\ UNCHANGED <<runners, file, attached, boot, pending, call, made, crashes>>

RemoveSession(c, s) ==
  /\ s \in live /\ Start(c, "close", s, "forget", FALSE)
  /\ live' = live \ {s}
  /\ UNCHANGED <<runners, file, attached, index, boot, pending, made, crashes>>

\* OnSessionClosed: the definitions go, and the manager, if any, is looked up.
Forget(c) ==
  /\ At(c, {"close"}, "forget")
  /\ attached' = Drop(attached, call[c].id)
  /\ Goto(c, IF Up THEN "unregister" ELSE "archive")
  /\ UNCHANGED <<runners, file, live, index, boot, pending, made, calls, crashes>>

Unregister(c) ==
  /\ At(c, {"close"}, "unregister")
  /\ runners' = Drop(runners, call[c].id)
  /\ Goto(c, "archive")
  /\ UNCHANGED <<file, live, attached, index, boot, pending, made, calls, crashes>>

Archive(c) ==
  /\ At(c, {"close"}, "archive")
  /\ index' = Drop(index, call[c].id)
  /\ Return(c)
  /\ UNCHANGED <<runners, file, live, attached, boot, pending, made, calls, crashes>>

\* A restored session is live before its watchers are.
Restore(c, s) ==
  /\ s \in DOMAIN index \ live /\ \A d \in Clients : call[d].do = "close" => call[d].id # s
  /\ call[c] = Idle /\ calls < MaxCalls /\ calls' = calls + 1
  /\ live' = live \cup {s}
  /\ call' = [call EXCEPT ![c] = IF index[s] = None THEN Idle
       ELSE [Idle EXCEPT !.do = "restore", !.id = s, !.at = "note", !.on = index[s][s]]]
  /\ UNCHANGED <<runners, file, attached, index, boot, pending, made, crashes>>

\* OnSessionRestored: definitions are recorded and the manager is looked up in one.
Note(c) ==
  /\ At(c, {"restore"}, "note")
  /\ attached' = Put(attached, call[c].id, call[c].on)
  /\ IF Up THEN Goto(c, "register") ELSE Return(c)
  /\ UNCHANGED <<runners, file, live, index, boot, pending, made, calls, crashes>>

\* One that is already there is left alone.
PutNew(f, w, on) == IF w \in DOMAIN f THEN f ELSE Put(f, w, on)

Register(c) ==
  /\ At(c, {"restore"}, "register")
  /\ runners' = PutNew(runners, call[c].id, call[c].on)
  /\ Return(c)
  /\ UNCHANGED <<file, live, attached, index, boot, pending, made, calls, crashes>>

-----------------------------------------------------------------------------
(* The engine.                                                             *)

\* Only the enabled ones of watchers.json are registered.
Build ==
  /\ boot = "off" /\ boot' = "built"
  /\ runners' = [w \in {v \in DOMAIN file : file[v]} |-> TRUE]
  /\ UNCHANGED <<file, live, attached, index, pending, call, made, calls, crashes>>

\* faulty variant: the snapshot is forgotten.
SnapshotNone(a) == None

Snapshot(a) == a

Publish ==
  /\ boot = "built" /\ boot' = "registering" /\ pending' = Snapshot(attached)
  /\ UNCHANGED <<runners, file, live, attached, index, call, made, calls, crashes>>

RegisterPending(s) ==
  /\ s \in DOMAIN pending
  /\ runners' = PutNew(runners, s, pending[s]) /\ pending' = Drop(pending, s)
  /\ UNCHANGED <<file, live, attached, index, boot, call, made, calls, crashes>>

Started ==
  /\ boot = "registering" /\ pending = None /\ boot' = "up"
  /\ UNCHANGED <<runners, file, live, attached, index, pending, call, made, calls, crashes>>

\* The daemon dies or is stopped: what is not on disk is gone.
Restart ==
  /\ crashes < MaxCrashes /\ crashes' = crashes + 1
  /\ runners' = None /\ live' = {} /\ attached' = None /\ boot' = "off" /\ pending' = None
  /\ call' = [c \in Clients |-> Idle]
  /\ UNCHANGED <<file, index, made, calls>>

-----------------------------------------------------------------------------

Next ==
  \/ \E c \in Clients, w \in Watchers :
       DeleteWatcher(c, w) \/ UpdateWatcher(c, w)
       \/ \E on \in BOOLEAN : CreateWatcher(c, w, on) \/ SetWatcherEnabled(c, w, on)
  \/ \E c \in Clients :
       Add(c) \/ Remove(c) \/ RecordAttached(c) \/ SaveAttached(c) \/ LoadFile(c) \/ SaveFile(c)
       \/ Toggle(c) \/ Lookup(c) \/ Forget(c) \/ Unregister(c) \/ Archive(c) \/ Note(c) \/ Register(c)
  \/ \E c \in Clients, s \in Sessions : NewSession(c, s) \/ RemoveSession(c, s) \/ Restore(c, s)
  \/ Build \/ Publish \/ \E s \in Sessions : RegisterPending(s)
  \/ Started \/ Restart

Spec == Init /\ [][Next]_whvars

-----------------------------------------------------------------------------
(* Properties.                                                             *)

Quiet == boot = "up" /\ \A c \in Clients : call[c] = Idle

\* Once everything has settled, every watcher a live session has is scheduled as
\* its definition says, in whatever order the session was restored and the engine
\* started (OnSessionRestored, StartWatchers); and with one client what is
\* scheduled is what the next start would schedule, a crash in the middle of any
\* call included (watchers.json, the watcher index of a session).
ScheduledAsDefined ==
  Quiet => /\ \A s \in DOMAIN attached : s \in DOMAIN runners /\ runners[s] = attached[s]
           /\ \A w \in Free : (w \in DOMAIN runners /\ runners[w]) <=> (w \in DOMAIN file /\ file[w])
           /\ \A s \in live : index[s] = Of(s)

\* The watchers attached to a session die with it (RemoveSession).
DieWithSession == Quiet => DOMAIN runners \cap Sessions \subseteq live

\* A free-running watcher that was created survives a restart (persistFreeWatcherUpsert).
CreatedSurvives == Quiet => DOMAIN runners \cap Free \subseteq DOMAIN file
=============================================================================
