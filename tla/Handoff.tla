------------------------------- MODULE Handoff ------------------------------
(***************************************************************************)
(* The terminal's daemonController (cmd/handoff.go): moving the core from  *)
(* the terminal's process to a daemon it spawns, and back, while turns are *)
(* under way.  Composes DaemonLifecycle: the daemons are the ones Start    *)
(* spawns, the only Stop is the controller's, a rollback or a handoff      *)
(* back.                                                                   *)
(*                                                                         *)
(* A handoff is one at a time (daemon_menu.go shows a progress dialog),    *)
(* yet messages still reach the source: those queued in a window, and      *)
(* those of clients of its HTTP API.                                       *)
(***************************************************************************)
EXTENDS DaemonLifecycle

CONSTANT Turns    \* bound: turns, each run once

VARIABLES
  mode,       \* dc.mode: "embedded" or "attached"
  handlers,   \* whom the windows talk to: "core" or "remote"
  core,       \* the embedded core's watchers, servers and HTTP API: "live" or "down"
  rc,         \* the daemon the event stream is open to
  at,         \* the step of the handoff under way
  spawned,    \* the daemon this Start spawned
  left,       \* the daemon the last handoff back was from
  starting,   \* main's start of the first core's servers and watchers, beside the menus: "under
              \* way", "done", "overtaken" by a shutdown of that core, or "stray" if it went on
  turn        \* each turn: [owner, state]

hovars == <<dlvars, mode, handlers, core, rc, at, spawned, left, starting, turn>>
ctl == <<mode, handlers, core, rc, at, spawned, left, starting>>

Steps == {"idle", "spawn", "wait", "attach", "shutdown", "commit", "rollback", "stopping", "build", "switch"}
NoTurn == [owner |-> "none", state |-> "new"]
Tui == CHOOSE c \in Stoppers : TRUE

HandoffTypeOK ==
  /\ TypeOK
  /\ mode \in {"embedded", "attached"} /\ handlers \in {"core", "remote"} /\ core \in {"live", "down"}
  /\ starting \in {"under way", "done", "overtaken", "stray"}
  /\ at \in Steps /\ {rc, spawned, left} \subseteq Daemons \cup {Nobody}
  /\ \A t \in Turns : turn[t].state \in {"new", "running", "cancelled", "done"}

HandoffInit ==
  /\ Init
  /\ mode = "embedded" /\ handlers = "core" /\ core = "live" /\ rc = Nobody
  /\ at = "idle" /\ spawned = Nobody /\ left = Nobody /\ starting = "under way"
  /\ turn = [t \in Turns |-> NoTurn]

-----------------------------------------------------------------------------
(* Turns.                                                                  *)

BeginTurn(t) ==
  /\ turn[t].state = "new"
  /\ IF handlers = "core" THEN turn' = [turn EXCEPT ![t] = [owner |-> "core", state |-> "running"]]
     ELSE Is(rc, {"serving"}) /\ turn' = [turn EXCEPT ![t] = [owner |-> rc, state |-> "running"]]
  /\ UNCHANGED <<dlvars, ctl>>

\* A turn on a daemon that died is not heard of again.
EndTurn(t) ==
  /\ turn[t].state \in {"running", "cancelled"}
  /\ turn[t].owner = "core" \/ Alive(turn[t].owner)
  /\ turn' = [turn EXCEPT ![t].state = "done"]
  /\ UNCHANGED <<dlvars, ctl>>

-----------------------------------------------------------------------------
(* StartMCPServers, StartWatchers: main goes through them, whatever was    *)
(* stopped meanwhile.                                                      *)

FinishStart ==
  /\ \/ starting = "under way" /\ starting' = "done"
     \/ starting = "overtaken" /\ starting' = "stray"
  /\ UNCHANGED <<dlvars, mode, handlers, core, rc, at, spawned, left, turn>>

-----------------------------------------------------------------------------
(* Start: embedded to daemon.                                              *)

\* It stops the root agents; their turns are still to end.
CancelInflightTurns ==
  turn' = [t \in Turns |-> IF turn[t].owner = "core" /\ turn[t].state = "running"
                            THEN [turn[t] EXCEPT !.state = "cancelled"] ELSE turn[t]]

\* In-flight turns are cancelled and the store is flushed.
Start ==
  /\ at = "idle" /\ mode = "embedded"
  /\ at' = "spawn" /\ spawned' = Nobody /\ left' = Nobody
  /\ CancelInflightTurns
  /\ UNCHANGED <<dlvars, mode, handlers, core, rc, starting>>

SpawnTarget ==
  /\ at = "spawn" /\ ~Running
  /\ \E d \in Daemons : Spawn(d) /\ spawned' = d
  /\ at' = "wait"
  /\ UNCHANGED <<mode, handlers, core, rc, left, starting, turn>>

\* A daemon is up already, or there is none to be had.
NoSpawn ==
  /\ at = "spawn"
  /\ at' = IF Running THEN "wait" ELSE "idle"
  /\ UNCHANGED <<dlvars, mode, handlers, core, rc, spawned, left, starting, turn>>

\* waitRunning: up in time, or not.
Waited ==
  /\ at = "wait" /\ at' = IF Running THEN "attach" ELSE "rollback"
  /\ UNCHANGED <<dlvars, mode, handlers, core, rc, spawned, left, starting, turn>>

\* Health, the windows' sessions, the event stream; then the windows are switched.
Attach ==
  /\ at = "attach" /\ Live
  /\ rc' = sock /\ handlers' = "remote" /\ at' = "shutdown"
  /\ UNCHANGED <<dlvars, mode, core, spawned, left, starting, turn>>

AttachFails ==
  /\ at = "attach" /\ at' = "rollback"
  /\ UNCHANGED <<dlvars, mode, handlers, core, rc, spawned, left, starting, turn>>

ShutSourceDown ==
  /\ at = "shutdown" /\ core' = "down" /\ at' = "commit"
  /\ starting' = IF starting = "under way" THEN "overtaken" ELSE starting
  /\ UNCHANGED <<dlvars, mode, handlers, rc, spawned, left, turn>>

Commit ==
  /\ at = "commit" /\ mode' = "attached" /\ at' = "idle"
  /\ UNCHANGED <<dlvars, handlers, core, rc, spawned, left, starting, turn>>

\* rollbackSpawn: Stop with force, whatever comes of it.
RollBack ==
  /\ at = "rollback" /\ spawned # Nobody /\ BeginStop(Tui, TRUE)
  /\ UNCHANGED <<ctl, turn>>

RolledBack ==
  /\ at = "rollback"
  /\ spawned = Nobody \/ stop[Tui].at \in {"stopped", "none running", "failed"}
  /\ at' = "idle" /\ stop' = [stop EXCEPT ![Tui] = NoStop]
  /\ UNCHANGED <<pc, lock, sock, pidfile, mode, handlers, core, rc, spawned, left, starting, turn>>

-----------------------------------------------------------------------------
(* Stop: daemon to embedded.                                               *)

\* The stream is closed first.
StopDaemon ==
  /\ at = "idle" /\ mode = "attached"
  /\ BeginStop(Tui, FALSE)
  /\ at' = "stopping" /\ left' = rc /\ rc' = Nobody
  /\ UNCHANGED <<mode, handlers, core, spawned, starting, turn>>

\* faulty variant: a daemon that would not stop is taken for one that did.
GoneOrFailed(result) == result \in {"stopped", "none running", "failed"}

Gone(result) == result \in {"stopped", "none running"}

Stopped ==
  /\ at = "stopping" /\ Gone(stop[Tui].at)
  /\ at' = "build" /\ stop' = [stop EXCEPT ![Tui] = NoStop]
  /\ UNCHANGED <<pc, lock, sock, pidfile, mode, handlers, core, rc, spawned, left, starting, turn>>

\* It would not stop: the stream is opened again, if that can be done.
StaysAttached ==
  /\ at = "stopping" /\ stop[Tui].at = "failed" /\ ~Gone("failed")
  /\ rc' = IF Live THEN sock ELSE Nobody
  /\ at' = "idle" /\ stop' = [stop EXCEPT ![Tui] = NoStop]
  /\ UNCHANGED <<pc, lock, sock, pidfile, mode, handlers, core, spawned, left, starting, turn>>

\* A fresh core restores the sessions; its servers and watchers are started.
BuildCore ==
  /\ at = "build" /\ core' = "live" /\ at' = "switch"
  /\ UNCHANGED <<dlvars, mode, handlers, rc, spawned, left, starting, turn>>

SwitchBack ==
  /\ at = "switch" /\ handlers' = "core" /\ mode' = "embedded" /\ at' = "idle"
  /\ UNCHANGED <<dlvars, core, rc, spawned, left, starting, turn>>

-----------------------------------------------------------------------------

Controller ==
  \/ SpawnTarget \/ NoSpawn \/ Waited \/ Attach \/ AttachFails \/ ShutSourceDown \/ Commit
  \/ RollBack \/ RolledBack \/ Stopped \/ StaysAttached \/ BuildCore \/ SwitchBack
  \/ StopStep(Tui) /\ UNCHANGED <<ctl, turn>>

\* What a daemon does once it is spawned.
Runs(d) ==
  /\ Listen(d) \/ AlreadyRunning(d) \/ Acquire(d) \/ Serve(d) \/ Flush(d) \/ CloseListener(d) \/ Release(d)
  /\ UNCHANGED <<ctl, turn>>

HandoffNext ==
  \/ Start \/ StopDaemon \/ Controller \/ FinishStart
  \/ \E d \in Daemons : Runs(d)
  \/ \E d \in Daemons : Crash(d) /\ UNCHANGED <<ctl, turn>>
  \/ \E t \in Turns : BeginTurn(t) \/ EndTurn(t)

\* The controller goes on, and so does a daemon.
HandoffSpec ==
  /\ HandoffInit /\ [][HandoffNext]_hovars
  /\ WF_hovars(Controller) /\ \A d \in Daemons : WF_hovars(Runs(d))

-----------------------------------------------------------------------------
(* Properties.                                                             *)

\* Between handoffs, failed ones included, the windows talk to the side that is
\* in charge and the other side is out of service: the source is never left half
\* shut down, and after a return the daemon that was left answers nobody.  What main
\* starts too late is apart (SourceStaysDown).
OneSideServes ==
  at = "idle" =>
    /\ mode = "embedded" => handlers = "core" /\ core = "live" /\ rc = Nobody
                            /\ ~(sock = left /\ Live)
    /\ mode = "attached" => handlers = "remote" /\ core = "down"

\* A handoff comes to an end, one way or the other.
HandoffEnds == []<>(at = "idle")

\* After a Start that failed, the daemon it spawned is gone (rollbackSpawn).
RollbackStopsSpawned == at = "idle" /\ mode = "embedded" => ~Is(spawned, {"bound", "recorded", "serving"})

\* Once the daemon is in charge no turn goes on in the source ("no split-brain").
SourceIsQuiet ==
  at = "idle" /\ mode = "attached" => \A t \in Turns : turn[t].owner = "core" => turn[t].state # "running"

\* "stop its watchers and MCP": once the daemon is in charge the source's servers and
\* watchers do not come up any more.
SourceStaysDown == at = "idle" /\ mode = "attached" => starting # "stray"
=============================================================================
