--------------------------- MODULE DaemonLifecycle --------------------------
(***************************************************************************)
(* One daemon per home directory (internal/daemon, cmd/daemon.go): daemons *)
(* that start, serve and shut down, the lock, socket and pidfile they      *)
(* leave in ~/.gogent, and the commands that stop them.  This is the Unix  *)
(* transport.                                                              *)
(*                                                                         *)
(* A process is named and runs once.  The pidfile stands for daemon.addr   *)
(* too, written after it and removed with it.  A daemon answers a probe    *)
(* from the moment it serves until its listener is closed; while it builds *)
(* its core the probe times out.  The optional TCP listener is left out.   *)
(***************************************************************************)
CONSTANTS
  Daemons,    \* bound: daemon processes
  Stoppers,   \* bound: runs of Stop
  Nobody      \* no process

DaemonAssumption == Nobody \notin Daemons /\ Stoppers # {}

VARIABLES
  pc,         \* each daemon, in the order of Phases, or "dead"
  lock,       \* holder of the flock on daemon.lock
  sock,       \* whose listener daemon.sock leads to, dead or alive
  pidfile,    \* whose pid it holds
  stop        \* each run of Stop: [at, force, pid, exiting]

dlvars == <<pc, lock, sock, pidfile, stop>>

\* none, started, lock and socket held, recorded, serving, told to go, store
\* flushed, listener closed, gone.
Phases == {"none", "starting", "bound", "recorded", "serving", "exiting", "flushed", "closed", "dead"}

NoStop == [at |-> "none", force |-> FALSE, pid |-> Nobody, exiting |-> Nobody]

TypeOK ==
  /\ pc \in [Daemons -> Phases]
  /\ {lock, sock, pidfile} \subseteq Daemons \cup {Nobody}
  /\ \A c \in Stoppers :
       /\ stop[c].at \in {"none", "query", "exit", "await", "signal", "gone", "reclaim", "notrunning",
                          "stopped", "none running", "failed"}
       /\ {stop[c].pid, stop[c].exiting} \subseteq Daemons \cup {Nobody}

Init ==
  /\ pc = [d \in Daemons |-> "none"]
  /\ lock = Nobody /\ sock = Nobody /\ pidfile = Nobody
  /\ stop = [c \in Stoppers |-> NoStop]

Is(d, phases) == d \in Daemons /\ pc[d] \in phases
Becomes(d, phase) == pc' = [pc EXCEPT ![d] = phase]

\* Probe, and Query's Running.
Live == Is(sock, {"serving", "exiting", "flushed"})
Alive(d) == Is(d, Phases \ {"none", "dead"})
Running == Live /\ Alive(pidfile)

-----------------------------------------------------------------------------
(* A daemon: runDaemonForeground.                                          *)

Spawn(d) ==
  /\ pc[d] = "none" /\ Becomes(d, "starting")
  /\ UNCHANGED <<lock, sock, pidfile, stop>>

\* faulty variant: a probe in place of the lock.
LockFreeProbing == ~Live

LockFree == lock = Nobody

\* The lock, then the leftover socket, then the bind.
Listen(d) ==
  /\ pc[d] = "starting" /\ LockFree
  /\ Becomes(d, "bound") /\ lock' = d /\ sock' = d
  /\ UNCHANGED <<pidfile, stop>>

AlreadyRunning(d) ==
  /\ pc[d] = "starting" /\ ~LockFree /\ Becomes(d, "dead")
  /\ UNCHANGED <<lock, sock, pidfile, stop>>

Acquire(d) ==
  /\ pc[d] = "bound" /\ Becomes(d, "recorded") /\ pidfile' = d
  /\ UNCHANGED <<lock, sock, stop>>

\* The core is built, its sessions are restored.
Serve(d) ==
  /\ pc[d] = "recorded" /\ Becomes(d, "serving")
  /\ UNCHANGED <<lock, sock, pidfile, stop>>

\* Watchers are stopped, the store is flushed.
Flush(d) ==
  /\ pc[d] = "exiting" /\ Becomes(d, "flushed")
  /\ UNCHANGED <<lock, sock, pidfile, stop>>

\* Closing the listener unlinks the socket and gives the lock back.
CloseListener(d) ==
  /\ pc[d] = "flushed" /\ Becomes(d, "closed")
  /\ sock' = Nobody /\ lock' = Nobody
  /\ UNCHANGED <<pidfile, stop>>

\* cleanStale, by path: whatever is there.
CleanStale == sock' = Nobody /\ pidfile' = Nobody

Release(d) ==
  /\ pc[d] = "closed" /\ Becomes(d, "dead") /\ CleanStale
  /\ UNCHANGED <<lock, stop>>

Dies(d) ==
  /\ Becomes(d, "dead") /\ lock' = IF lock = d THEN Nobody ELSE lock

Crash(d) ==
  /\ Alive(d) /\ Dies(d)
  /\ UNCHANGED <<sock, pidfile, stop>>

-----------------------------------------------------------------------------
(* Stop.                                                                   *)

Goto(c, at) == stop' = [stop EXCEPT ![c].at = at]

BeginStop(c, force) ==
  /\ stop[c].at = "none"
  /\ stop' = [stop EXCEPT ![c] = [NoStop EXCEPT !.at = IF Live THEN "query" ELSE "notrunning", !.force = force]]
  /\ UNCHANGED <<pc, lock, sock, pidfile>>

QueryPid(c) ==
  /\ stop[c].at = "query"
  /\ stop' = [stop EXCEPT ![c].at = "exit", ![c].pid = pidfile]
  /\ UNCHANGED <<pc, lock, sock, pidfile>>

\* POST /exit, to whoever answers; it is told once.
AskExit(c) ==
  /\ stop[c].at = "exit"
  /\ IF Live
     THEN /\ stop' = [stop EXCEPT ![c].at = "await", ![c].exiting = sock]
          /\ IF pc[sock] = "serving" THEN Becomes(sock, "exiting") ELSE UNCHANGED pc
     ELSE Goto(c, "signal") /\ UNCHANGED pc
  /\ UNCHANGED <<lock, sock, pidfile>>

AwaitDead(c) ==
  /\ stop[c].at = "await" /\ ~Live /\ Goto(c, "reclaim")
  /\ UNCHANGED <<pc, lock, sock, pidfile>>

AwaitTimesOut(c) ==
  /\ stop[c].at = "await" /\ Live /\ Goto(c, "signal")
  /\ UNCHANGED <<pc, lock, sock, pidfile>>

\* SIGTERM: the daemon shuts down, or dies of it before it listens to signals
\* (while it serves and still starts its watchers, that is its Crash).
Signal(c) ==
  LET d == stop[c].pid IN
  /\ stop[c].at = "signal"
  /\ IF ~Alive(d) THEN Goto(c, "failed") /\ UNCHANGED <<pc, lock>>
     ELSE /\ Goto(c, "gone")
          /\ IF pc[d] = "serving" THEN Becomes(d, "exiting") /\ UNCHANGED lock
             ELSE IF pc[d] \in {"exiting", "flushed", "closed"} THEN UNCHANGED <<pc, lock>>
             ELSE Dies(d)
  /\ UNCHANGED <<sock, pidfile>>

AwaitExit(c) ==
  /\ stop[c].at = "gone" /\ ~Alive(stop[c].pid) /\ Goto(c, "reclaim")
  /\ UNCHANGED <<pc, lock, sock, pidfile>>

ExitTimesOut(c) ==
  /\ stop[c].at = "gone" /\ Alive(stop[c].pid)
  /\ IF stop[c].force
     THEN Dies(stop[c].pid) /\ Goto(c, "reclaim")
     ELSE Goto(c, "failed") /\ UNCHANGED <<pc, lock>>
  /\ UNCHANGED <<sock, pidfile>>

Reclaim(c) ==
  /\ stop[c].at \in {"reclaim", "notrunning"} /\ CleanStale
  /\ Goto(c, IF stop[c].at = "reclaim" THEN "stopped" ELSE "none running")
  /\ UNCHANGED <<pc, lock>>

DaemonStep(d) ==
  Spawn(d) \/ Listen(d) \/ AlreadyRunning(d) \/ Acquire(d) \/ Serve(d) \/ Flush(d)
  \/ CloseListener(d) \/ Release(d) \/ Crash(d)

StopStep(c) ==
  QueryPid(c) \/ AskExit(c) \/ AwaitDead(c) \/ AwaitTimesOut(c) \/ Signal(c) \/ AwaitExit(c)
  \/ ExitTimesOut(c) \/ Reclaim(c)

Next ==
  \/ \E d \in Daemons : DaemonStep(d)
  \/ \E c \in Stoppers : StopStep(c) \/ \E force \in BOOLEAN : BeginStop(c, force)

Spec == Init /\ [][Next]_dlvars

-----------------------------------------------------------------------------
(* Properties.                                                             *)

\* Nobody restores sessions from a store another daemon has yet to flush
\* (runDaemonForeground takes the lock ahead of the core and gives it back last).
OneOwner ==
  \A d, e \in Daemons : Is(d, {"bound", "recorded", "serving"}) /\ Is(e, {"serving", "exiting"}) => d = e

\* A daemon that serves can be reached: nobody unlinks the socket of a live peer.
NeverUnlinked == \A d \in Daemons : Is(d, {"serving"}) => sock = d
=============================================================================
