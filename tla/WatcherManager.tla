--------------------------- MODULE WatcherManager ---------------------------
(***************************************************************************)
(* The scheduling engine of recurring watchers, internal/watcher/manager.go: *)
(* one schedule loop (goroutine) per enabled watcher, at most one fire       *)
(* (goroutine) per watcher, all fires bounded by a global slot channel, and  *)
(* control calls (Add, Start, Stop, Toggle, RunNow, StopWatcher, Remove)     *)
(* from other goroutines.                                                    *)
(*                                                                           *)
(* m.mu is held across several steps only by Add, Start and Toggle, which    *)
(* wait for the first Next of the loop they launch, and by Remove, which     *)
(* calls cancel() after it has released r.mu.  The variables launching,      *)
(* arming, tearing and cancelling are that holder's local state; m.mu is     *)
(* free when all four are empty.  Sections under r.mu are one step each.     *)
(***************************************************************************)
EXTENDS Integers, FiniteSets

CONSTANTS
    Runners,        \* Runner objects (a watcher updated in place is a new object)
    Keys,           \* watcher ids and names
    Id, Name,       \* the id and the name of each Runner
    Attached,       \* Runners of kind KindAttached; the others are KindFree
    Sessions, Owner,\* Owner[r]: sessionID of an attached Runner
    Suppressed,     \* Runners with suppressNotify
    SkipIfRunning,  \* WithSkipIfRunning
    MaxConcurrent,  \* WithMaxConcurrent: capacity of m.sem
    Loops,          \* bound: schedule loops alive at once
    Fires,          \* bound: fires alive at once
    NoLoop, NoFire, \* a nil done channel, a nil cancelFire
    DeadLoop        \* a done channel whose loop has returned

ASSUME ConcurrencyAssumption ==
    /\ MaxConcurrent \in Nat \ {0}
    /\ SkipIfRunning \in BOOLEAN

ASSUME RunnerAssumption ==
    /\ Runners # {}
    /\ Id \in [Runners -> Keys]
    /\ Name \in [Runners -> Keys]
    /\ Attached \subseteq Runners
    /\ Owner \in [Attached -> Sessions]
    /\ Suppressed \subseteq Runners

ASSUME GoroutineAssumption ==
    /\ IsFiniteSet(Fires)
    /\ {NoLoop, DeadLoop} \cap Loops = {}
    /\ NoLoop # DeadLoop
    /\ NoFire \notin Fires
    /\ Loops \cap Fires = {}

VARIABLES
    started, stopped,     \* m.started, m.stopped
    ctx,                  \* m.ctx: "nil", "live" or "done"
    registered,           \* the Runners in the m.runners map
    sem,                  \* the fires holding a slot of m.sem
    wg,                   \* the goroutines counted by m.wg
    stopper,              \* the first caller of Stop: "none", "waiting", "returned"
    launching, arming,    \* Add/Start/Toggle: Runners to launch, loop awaited
    tearing, cancelling,  \* Remove*: Runners to tear down, cancel() to call
    enabled, status, running, removed,   \* the mutable fields of each Runner
    done,                 \* r.done: whose channel it is, NoLoop if nil
    cancelFire,           \* r.cancelFire: the fire it cancels, or NoFire
    loop,                 \* the goroutines running scheduleLoop
    fire                  \* the goroutines running runFire

muVars == <<launching, arming, tearing, cancelling>>
managerVars == <<started, stopped, ctx, registered, stopper>>
runnerVars == <<enabled, status, running, removed, done, cancelFire>>
vars == <<started, stopped, ctx, registered, sem, wg, stopper, launching,
          arming, tearing, cancelling, enabled, status, running, removed,
          done, cancelFire, loop, fire>>

StatusSet == {"idle", "running", "skipped", "failed"}
LoopPC == {"unborn", "arming", "waiting", "firing"}
FirePC == {"unborn", "queued", "aborted", "slot", "executing", "returned",
           "notifying", "exit"}

LoopType == [pc : LoopPC, r : Runners, closed : BOOLEAN]
FireType == [pc : FirePC, r : Runners, cancelled : BOOLEAN,
             out : {"none", "ok", "err", "cancelled", "panic"}]

MuFree == launching = {} /\ arming = NoLoop /\ tearing = {} /\ cancelling = NoFire

LiveLoop(l) == loop[l].pc # "unborn"
LiveFire(f) == fire[f].pc # "unborn"
Executing(f) == fire[f].pc = "executing"
HoldsSlot(f) == fire[f].pc \in
    {"slot", "executing", "returned", "notifying", "exit"}

\* ctx.Err() # nil of the fire's own context, derived from m.ctx
Cancelled(f) == fire[f].cancelled \/ ctx = "done"

-----------------------------------------------------------------------------
(* resolveLocked: an exact id wins, then a name carried by one watcher only. *)
ById(k) == {r \in registered : Id[r] = k}
ByName(k) == {r \in registered : Name[r] = k}

\* faulty variant: the name is looked up first
ResolvesNameFirst(k, r) ==
    IF ByName(k) # {} THEN ByName(k) = {r} ELSE ById(k) = {r}

Resolves(k, r) == IF ById(k) # {} THEN ById(k) = {r} ELSE ByName(k) = {r}

-----------------------------------------------------------------------------
(* Goroutine pools.  A loop's slot is reused once the goroutine has ended    *)
(* and no Runner keeps its channel (a loop that panicked leaves r.done set). *)
AnyRunner == CHOOSE r \in Runners : TRUE
UnbornLoop == [pc |-> "unborn", r |-> AnyRunner, closed |-> FALSE]
UnbornFire == [pc |-> "unborn", r |-> AnyRunner, cancelled |-> FALSE, out |-> "none"]

FreeLoops == {l \in Loops : ~LiveLoop(l) /\ \A r \in Runners : done[r] # l}
FreeFires == {f \in Fires : ~LiveFire(f) /\ f # cancelling}
NewLoop == CHOOSE l \in FreeLoops : TRUE
NewFire == CHOOSE f \in FreeFires : TRUE

Init ==
    /\ started = FALSE
    /\ stopped = FALSE
    /\ ctx = "nil"
    /\ registered = {}
    /\ sem = {}
    /\ wg = {}
    /\ stopper = "none"
    /\ launching = {} /\ arming = NoLoop
    /\ tearing = {} /\ cancelling = NoFire
    /\ enabled \in [Runners -> BOOLEAN]
    /\ status = [r \in Runners |-> "idle"]
    /\ running = [r \in Runners |-> FALSE]
    /\ removed = [r \in Runners |-> FALSE]
    /\ done = [r \in Runners |-> NoLoop]
    /\ cancelFire = [r \in Runners |-> NoFire]
    /\ loop = [l \in Loops |-> UnbornLoop]
    /\ fire = [f \in Fires |-> UnbornFire]

-----------------------------------------------------------------------------
(* Control calls, each under m.mu.                                           *)

\* ensureCtxLocked
EnsuredCtx == IF ctx = "nil" THEN "live" ELSE ctx

\* faulty variant: a watcher added after Start waits for a Toggle
NeverOnAdd(r) == {}

\* the loop Add launches
LaunchedOnAdd(r) == IF started /\ enabled[r] THEN {r} ELSE {}

Add(r) ==
    /\ MuFree
    /\ ~stopped
    /\ r \notin registered /\ ~removed[r]
    /\ ById(Id[r]) = {}
    /\ registered' = registered \cup {r}
    /\ launching' = LaunchedOnAdd(r)
    /\ UNCHANGED <<started, stopped, ctx, sem, wg, stopper, arming, tearing,
                   cancelling, runnerVars, loop, fire>>

Start ==
    /\ MuFree
    /\ ~started /\ ~stopped
    /\ ctx' = EnsuredCtx
    /\ started' = TRUE
    /\ launching' = {r \in registered : enabled[r] /\ done[r] = NoLoop}
    /\ UNCHANGED <<stopped, registered, sem, wg, stopper, arming, tearing,
                   cancelling, runnerVars, loop, fire>>

\* faulty variant: a loop whose predecessor still runs is launched as well
MayLaunchAnyway(r) == TRUE

\* launchLoopLocked refuses while r.done is set
MayLaunch(r) == done[r] = NoLoop

(* launchLoopLocked up to `<-armed`.                                         *)
LaunchLoop(r) ==
    /\ r \in launching /\ arming = NoLoop
    /\ launching' = launching \ {r}
    /\ IF MayLaunch(r)
       THEN /\ FreeLoops # {}
            /\ done' = [done EXCEPT ![r] = NewLoop]
            /\ enabled' = [enabled EXCEPT ![r] = TRUE]
            /\ wg' = wg \cup {NewLoop}
            /\ loop' = [loop EXCEPT ![NewLoop] =
                          [pc |-> "arming", r |-> r, closed |-> FALSE]]
            /\ arming' = NewLoop
       ELSE UNCHANGED <<done, enabled, wg, loop, arming>>
    /\ UNCHANGED <<managerVars, sem, tearing, cancelling, status, running,
                   removed, cancelFire, fire>>

\* faulty variant: Stop forgets m.cancel()
KeepCtx == ctx

\* m.cancel(), if there is a context
CancelledCtx == IF ctx = "live" THEN "done" ELSE ctx

Stop ==
    /\ MuFree
    /\ ~stopped
    /\ stopped' = TRUE
    /\ ctx' = CancelledCtx
    /\ stopper' = "waiting"
    /\ UNCHANGED <<started, registered, sem, wg, muVars, runnerVars, loop, fire>>

\* m.wg.Wait() returns
StopReturn ==
    /\ stopper = "waiting"
    /\ wg = {}
    /\ stopper' = "returned"
    /\ UNCHANGED <<started, stopped, ctx, registered, sem, wg, muVars,
                   runnerVars, loop, fire>>

\* close(r.done): what the loop's goroutine sees of it
CloseDone(r) == [l \in Loops |->
    IF l = done[r] THEN [loop[l] EXCEPT !.closed = TRUE] ELSE loop[l]]

\* faulty variant: disabling forgets to close the loop's channel
ForgetDone(r) ==
    /\ enabled' = [enabled EXCEPT ![r] = FALSE]
    /\ done' = [done EXCEPT ![r] = NoLoop]
    /\ loop' = loop

\* the part disableLocked and teardownLocked share
DisableLoop(r) ==
    /\ enabled' = [enabled EXCEPT ![r] = FALSE]
    /\ done' = [done EXCEPT ![r] = NoLoop]
    /\ loop' = CloseDone(r)

ToggleOff(k, r) ==
    /\ MuFree /\ Resolves(k, r) /\ enabled[r]
    /\ DisableLoop(r)
    /\ UNCHANGED <<managerVars, sem, wg, muVars, status, running, removed,
                   cancelFire, fire>>

ToggleOn(k, r) ==
    /\ MuFree /\ Resolves(k, r) /\ ~enabled[r]
    /\ ~stopped
    /\ IF started
       THEN launching' = {r} /\ enabled' = enabled
       ELSE launching' = launching /\ enabled' = [enabled EXCEPT ![r] = TRUE]
    /\ UNCHANGED <<managerVars, sem, wg, arming, tearing, cancelling, status,
                   running, removed, done, cancelFire, loop, fire>>

\* faulty variant: a fire is begun whether or not one is in flight
MayFireAnyway(r) == TRUE

\* startFire's check of r.running
MayFire(r) == ~running[r]

\* faulty variant: no wg.Add(1) before the fire's goroutine
UncountedFire == wg

CountedFire == wg \cup {NewFire}

\* faulty variant: a status token that no surface knows
UnknownStatus == "dropped"

SkippedStatus == "skipped"

(* startFire: begin a fire, or drop it and record the drop.                  *)
StartFire(r) ==
    IF MayFire(r)
    THEN /\ FreeFires # {}
         /\ running' = [running EXCEPT ![r] = TRUE]
         /\ wg' = CountedFire
         /\ fire' = [fire EXCEPT ![NewFire] =
                       [pc |-> "queued", r |-> r, cancelled |-> FALSE, out |-> "none"]]
         /\ UNCHANGED status
    ELSE /\ status' = IF SkipIfRunning THEN [status EXCEPT ![r] = SkippedStatus] ELSE status
         /\ UNCHANGED <<running, wg, fire>>

RunNow(k, r) ==
    /\ MuFree
    /\ ~stopped
    /\ Resolves(k, r)
    /\ ctx' = EnsuredCtx
    /\ StartFire(r)
    /\ UNCHANGED <<started, stopped, registered, sem, stopper, muVars, enabled,
                   removed, done, cancelFire, loop>>

\* calling a context.CancelFunc (NoFire is a nil one): felt only while the host runs
Cancel(c) == [f \in Fires |->
    IF f = c THEN [fire[f] EXCEPT !.cancelled = Executing(f)] ELSE fire[f]]

(* StopWatcher.  Reading r.cancelFire and calling it are one step: each fire *)
(* has its own context, so a late call is a call on a context nobody reads.  *)
StopWatcher(k, r) ==
    /\ MuFree /\ Resolves(k, r)
    /\ fire' = Cancel(cancelFire[r])
    /\ UNCHANGED <<managerVars, sem, wg, muVars, runnerVars, loop>>

Remove(k, r) ==
    /\ MuFree /\ Resolves(k, r)
    /\ tearing' = {r}
    /\ UNCHANGED <<managerVars, sem, wg, launching, arming, cancelling,
                   runnerVars, loop, fire>>

RemoveAttachedForSession(s) ==
    /\ MuFree
    /\ tearing' = {r \in registered \cap Attached : Owner[r] = s}
    /\ UNCHANGED <<managerVars, sem, wg, launching, arming, cancelling,
                   runnerVars, loop, fire>>

(* teardownLocked's section under r.mu, and the delete from the map.         *)
Teardown(r) ==
    /\ r \in tearing /\ cancelling = NoFire
    /\ tearing' = tearing \ {r}
    /\ removed' = [removed EXCEPT ![r] = TRUE]
    /\ DisableLoop(r)
    /\ cancelling' = cancelFire[r]
    /\ registered' = registered \ {r}
    /\ UNCHANGED <<started, stopped, ctx, stopper, sem, wg, launching, arming,
                   status, running, cancelFire, fire>>

(* teardownLocked's cancel().                                                *)
TeardownCancel ==
    /\ cancelling # NoFire
    /\ fire' = Cancel(cancelling)
    /\ cancelling' = NoFire
    /\ UNCHANGED <<managerVars, sem, wg, launching, arming, tearing,
                   runnerVars, loop>>

-----------------------------------------------------------------------------
(* scheduleLoop.                                                             *)

LoopStep(l, pc) == loop' = [loop EXCEPT ![l].pc = pc]

\* the goroutine returns; an r.done nobody closed stays set
LoopEnd(l) ==
    LET r == loop[l].r IN
    /\ loop' = [loop EXCEPT ![l] = UnbornLoop]
    /\ done' = IF done[r] = l THEN [done EXCEPT ![r] = DeadLoop] ELSE done
    /\ wg' = wg \ {l}

\* signal(): closes armed, once
Signal(l) == arming' = IF arming = l THEN NoLoop ELSE arming

\* Schedule.Next returned: nextFire is set and the timer armed
LoopArm(l) ==
    /\ loop[l].pc = "arming"
    /\ LoopStep(l, "waiting")
    /\ Signal(l)
    /\ UNCHANGED <<managerVars, sem, wg, launching, tearing, cancelling,
                   runnerVars, fire>>

\* faulty variant: the panic path does not close armed
NoSignal(l) == arming' = arming

\* the deferred signal() of a loop that ends early
DeferredSignal(l) == Signal(l)

\* Schedule.Next panicked, and the panic is recovered
LoopPanic(l) ==
    /\ loop[l].pc = "arming"
    /\ status' = [status EXCEPT ![loop[l].r] = "failed"]
    /\ LoopEnd(l)
    /\ DeferredSignal(l)
    /\ UNCHANGED <<managerVars, sem, launching, tearing, cancelling, enabled,
                   running, removed, cancelFire, fire>>

LoopTimer(l) ==
    /\ loop[l].pc = "waiting"
    /\ LoopStep(l, "firing")
    /\ UNCHANGED <<managerVars, sem, wg, muVars, runnerVars, fire>>

\* faulty variant: the loop listens to Stop only
OnlyStopEndsLoop(l) == ctx = "done"

\* the select's other branches: m.ctx.Done() and done
LoopMustEnd(l) == ctx = "done" \/ loop[l].closed

LoopExit(l) ==
    /\ loop[l].pc = "waiting"
    /\ LoopMustEnd(l)
    /\ LoopEnd(l)
    /\ UNCHANGED <<managerVars, sem, muVars, enabled, status, running, removed,
                   cancelFire, fire>>

\* startFire from the loop, without m.mu, then the next Schedule.Next
LoopFire(l) ==
    /\ loop[l].pc = "firing"
    /\ LoopStep(l, "arming")
    /\ StartFire(loop[l].r)
    /\ UNCHANGED <<managerVars, sem, muVars, enabled, removed, done, cancelFire>>

-----------------------------------------------------------------------------
(* runFire.                                                                  *)

FireStep(f, pc) == fire' = [fire EXCEPT ![f].pc = pc]

\* faulty variant: the slot channel has room for one more
SlotFreeOffByOne == Cardinality(sem) <= MaxConcurrent

\* m.sem <- struct{}{} does not block
SlotFree == Cardinality(sem) < MaxConcurrent

AcquireSlot(f) ==
    /\ fire[f].pc = "queued"
    /\ SlotFree
    /\ sem' = sem \cup {f}
    /\ FireStep(f, "slot")
    /\ UNCHANGED <<managerVars, wg, muVars, runnerVars, loop>>

AbortQueued(f) ==
    /\ fire[f].pc = "queued"
    /\ ctx = "done"
    /\ FireStep(f, "aborted")
    /\ UNCHANGED <<managerVars, sem, wg, muVars, runnerVars, loop>>

\* after a second look at m.ctx.Err(), r.cancelFire is published and
\* host.RunWatcherFire called
BeginFire(f) ==
    /\ fire[f].pc = "slot"
    /\ IF ctx = "done"
       THEN FireStep(f, "exit") /\ UNCHANGED <<cancelFire, status>>
       ELSE /\ FireStep(f, "executing")
            /\ cancelFire' = [cancelFire EXCEPT ![fire[f].r] = f]
            /\ status' = [status EXCEPT ![fire[f].r] = "running"]
    /\ UNCHANGED <<managerVars, sem, wg, muVars, enabled, running, removed,
                   done, loop>>

\* the host returned and ctx.Err() is read; from here on nobody looks at the
\* fire's own context
HostReturn(f) ==
    /\ Executing(f)
    /\ \E res \in {"ok", "err"} :
         fire' = [fire EXCEPT ![f] =
                    [@ EXCEPT !.pc = "returned", !.cancelled = FALSE,
                              !.out = IF Cancelled(f) THEN "cancelled" ELSE res]]
    /\ UNCHANGED <<managerVars, sem, wg, muVars, runnerVars, loop>>

HostPanic(f) ==
    /\ Executing(f)
    /\ fire' = [fire EXCEPT ![f] =
                  [@ EXCEPT !.pc = "exit", !.cancelled = FALSE, !.out = "panic"]]
    /\ UNCHANGED <<managerVars, sem, wg, muVars, runnerVars, loop>>

WillNotify(f) ==
    LET r == fire[f].r IN
    /\ fire[f].out = "ok"
    /\ r \notin Attached
    /\ ~removed[r]
    /\ r \notin Suppressed

\* the outcome is recorded, and r.removed read, under r.mu
RecordOutcome(f) ==
    /\ fire[f].pc = "returned"
    /\ status' = [status EXCEPT ![fire[f].r] =
                    IF fire[f].out = "err" THEN "failed" ELSE "idle"]
    /\ fire' = [fire EXCEPT ![f] =
                  [@ EXCEPT !.pc = IF WillNotify(f) THEN "notifying" ELSE "exit",
                            !.out = "none"]]
    /\ UNCHANGED <<managerVars, sem, wg, muVars, enabled, running, removed,
                   done, cancelFire, loop>>

\* host.Notify, after r.mu was released
Notify(f) ==
    /\ fire[f].pc = "notifying"
    /\ FireStep(f, "exit")
    /\ UNCHANGED <<managerVars, sem, wg, muVars, runnerVars, loop>>

\* faulty variant: a fire that panics keeps its slot
LeakSlotOnPanic(f) == IF fire[f].out = "panic" THEN sem ELSE sem \ {f}

\* the deferred <-m.sem, deferred only once the slot was taken
Released(f) == sem \ {f}

\* faulty variant: a fire that never got its slot leaves the flag set
ClearUnlessAborted(f) ==
    IF fire[f].pc = "aborted" THEN running ELSE [running EXCEPT ![fire[f].r] = FALSE]

Cleared(f) == [running EXCEPT ![fire[f].r] = FALSE]

\* the deferred functions: the slot, the flags, wg.Done
FireExit(f) ==
    LET r == fire[f].r IN
    /\ fire[f].pc \in {"aborted", "exit"}
    /\ sem' = Released(f)
    /\ running' = Cleared(f)
    /\ cancelFire' = [cancelFire EXCEPT ![r] = NoFire]
    /\ status' = IF fire[f].out = "panic"
                 THEN [status EXCEPT ![r] = "failed"] ELSE status
    /\ fire' = [fire EXCEPT ![f] = UnbornFire]
    /\ wg' = wg \ {f}
    /\ UNCHANGED <<managerVars, muVars, enabled, removed, done, loop>>

-----------------------------------------------------------------------------
Control(r) ==
    \/ Add(r)
    \/ LaunchLoop(r)
    \/ \E k \in Keys : \/ ToggleOff(k, r)
                       \/ ToggleOn(k, r)
                       \/ RunNow(k, r)
                       \/ StopWatcher(k, r)
                       \/ Remove(k, r)
    \/ Teardown(r)

LoopNext(l) == LoopArm(l) \/ LoopPanic(l) \/ LoopTimer(l) \/ LoopExit(l) \/ LoopFire(l)

\* the steps of a fire that do not wait for anything
FireWork(f) ==
    \/ AbortQueued(f) \/ BeginFire(f)
    \/ RecordOutcome(f) \/ Notify(f) \/ FireExit(f)

FireNext(f) == AcquireSlot(f) \/ FireWork(f) \/ HostReturn(f) \/ HostPanic(f)

Next ==
    \/ Start \/ Stop \/ StopReturn \/ TeardownCancel
    \/ \E r \in Runners : Control(r)
    \/ \E s \in Sessions : RemoveAttachedForSession(s)
    \/ \E l \in Loops : LoopNext(l)
    \/ \E f \in Fires : FireNext(f)

Spec == Init /\ [][Next]_vars

(* Goroutines are scheduled; Go's select picks among ready branches at       *)
(* random, so a loop whose exit is ready again and again takes it (SF); a    *)
(* channel serves its blocked senders in order, so a queued fire gets a slot *)
(* that is free again and again (SF).  The WatcherHost contract: a cancelled *)
(* fire returns.  Schedule.Next returns or panics.                           *)
Fairness ==
    /\ \A l \in Loops : /\ WF_vars(LoopArm(l) \/ LoopPanic(l))
                        /\ WF_vars(LoopFire(l))
                        /\ SF_vars(LoopExit(l))
    /\ \A f \in Fires : /\ WF_vars(FireWork(f))
                        /\ SF_vars(AcquireSlot(f))
                        /\ WF_vars(Cancelled(f) /\ HostReturn(f))
    /\ \A r \in Runners : WF_vars(LaunchLoop(r)) /\ WF_vars(Teardown(r))
    /\ WF_vars(TeardownCancel) /\ WF_vars(StopReturn)

\* The host also returns when nobody cancels it.
HostFairness == \A f \in Fires : WF_vars(HostReturn(f) \/ HostPanic(f))

FairSpec == Spec /\ Fairness
HostFairSpec == FairSpec /\ HostFairness

-----------------------------------------------------------------------------
(* Properties.                                                               *)

\* Every variable has its type.
TypeOK ==
    /\ started \in BOOLEAN /\ stopped \in BOOLEAN
    /\ ctx \in {"nil", "live", "done"}
    /\ registered \subseteq Runners
    /\ sem \subseteq Fires
    /\ wg \subseteq Loops \cup Fires
    /\ stopper \in {"none", "waiting", "returned"}
    /\ launching \subseteq Runners /\ arming \in Loops \cup {NoLoop}
    /\ tearing \subseteq Runners /\ cancelling \in Fires \cup {NoFire}
    /\ enabled \in [Runners -> BOOLEAN]
    /\ status \in [Runners -> StatusSet]
    /\ running \in [Runners -> BOOLEAN]
    /\ removed \in [Runners -> BOOLEAN]
    /\ done \in [Runners -> Loops \cup {NoLoop, DeadLoop}]
    /\ cancelFire \in [Runners -> Fires \cup {NoFire}]
    /\ loop \in [Loops -> LoopType]
    /\ fire \in [Fires -> FireType]

\* startFire: a watcher never overlaps itself, whoever fires it: its loop, a
\* stale loop that a toggle left behind, or RunNow.
NoOverlap ==
    \A f, g \in Fires :
        LiveFire(f) /\ LiveFire(g) /\ f # g => fire[f].r # fire[g].r

\* runFire's exit paths (abort, cancel, error, panic) all clear r.running, and
\* none clears it early: a flag left set would skip the watcher for ever.
RunningFlag ==
    \A r \in Runners : running[r] <=> \E f \in Fires : LiveFire(f) /\ fire[f].r = r

\* m.sem: no more than maxConcurrent fires are past the slot at any time.
SlotBound == Cardinality({f \in Fires : HoldsSlot(f)}) <= MaxConcurrent

\* m.sem is held by the fires past the slot and by no other: a slot leaked by an
\* exit path would in the end starve every watcher.
SlotsAccounted == sem = {f \in Fires : HoldsSlot(f)}

\* launchLoopLocked/disableLocked/teardownLocked: a loop that nobody told to end
\* is the one r.done can still end, so a watcher has one schedule at most and no
\* disabled or removed watcher keeps one.
OneArmedLoop ==
    \A l \in Loops : LiveLoop(l) /\ ~loop[l].closed => done[loop[l].r] = l

\* Add, Start and Toggle in any order: once the manager is started and m.mu is
\* free, exactly the enabled registered watchers have a loop of their own.
EnabledIsArmed ==
    started /\ MuFree =>
        \A r \in registered : enabled[r] <=> done[r] # NoLoop

\* Stop: when wg.Wait has returned, no goroutine of the manager runs, and none
\* is ever started again.
StopQuiesces ==
    stopper = "returned" => /\ \A l \in Loops : ~LiveLoop(l)
                            /\ \A f \in Fires : ~LiveFire(f)

\* resolveLocked: a watcher can be addressed by its id, whatever names the others
\* carry.
ExactIdWins == \A r \in registered : Resolves(Id[r], r)

\* Stop returns: every loop and every fire ends once m.ctx is cancelled.
StopTerminates == stopped ~> stopper = "returned"

\* launchLoopLocked never blocks for ever on `armed`, even when the schedule
\* panics: m.mu is always released again.
MuReleased == []<>MuFree

\* A loop whose done channel is closed ends, although its timer may win the
\* select again and again.
ClosedLoopEnds == \A l \in Loops : loop[l].closed ~> ~loop[l].closed

\* If hosts return, a fire waiting for a slot gets one or gives up: no exit path
\* keeps the slot (runFire).
QueuedFireProceeds ==
    HostFairness => \A f \in Fires : fire[f].pc = "queued" ~> fire[f].pc # "queued"

-----------------------------------------------------------------------------
(* What the comments say and the code does not do.                           *)

\* manager.go, WithSkipIfRunning: "the Manager never overlaps a watcher with
\* itself", the watcher being what its id names.
NeverOverlapsById ==
    \A f, g \in Fires :
        Executing(f) /\ Executing(g) /\ f # g => Id[fire[f].r] # Id[fire[g].r]
=============================================================================
