-------------------------- MODULE MCWatcherManager --------------------------
(* Up to two Runners: r1 is free-running, r2 attached to the only session.   *)
EXTENDS WatcherManager

CONSTANTS r1, r2, k1, k2

MCAttached == Runners \cap {r2}
MCOwner == [r \in MCAttached |-> "s"]
MCSessions == {"s"}
MCKeys == {k1, k2}

\* each Runner is a watcher of its own, addressed by its id
MCDistinctId == [r \in Runners |-> IF r = r1 THEN k1 ELSE k2]

\* both Runners are the same watcher, before and after an update in place; or
\* every watcher is named like the id of r1
MCSameKey == [r \in Runners |-> k1]

NeverUsed(r) == r \notin registered /\ ~removed[r] /\ \A f \in Fires : LiveFire(f) => fire[f].r # r

\* One watcher with its schedule, or two without schedules.
SmallSpec ==
    /\ Init /\ [][Next /\ (started' => \A r \in Runners \ {r1} : NeverUsed(r)')]_vars
    /\ Fairness
=============================================================================
