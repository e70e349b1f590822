------------------------ MODULE WatcherManagerProofs ------------------------
(* Safety of the watcher engine for any number of Runners, loops, fires and  *)
(* slots.                                                                    *)
EXTENDS WatcherManager, FiniteSetTheorems, TLAPS

-----------------------------------------------------------------------------
(* The goroutine pools.                                                      *)

\* A new goroutine is one of the pool that is not running.
LEMMA NewLoopIsFree ==
    ASSUME FreeLoops # {}
    PROVE  NewLoop \in Loops /\ ~LiveLoop(NewLoop)
<1>1. NewLoop \in FreeLoops
    BY DEF NewLoop
<1> QED
    BY <1>1 DEF FreeLoops

\* The same of fires.
LEMMA NewFireIsFree ==
    ASSUME FreeFires # {}
    PROVE  NewFire \in Fires /\ ~LiveFire(NewFire)
<1>1. NewFire \in FreeFires
    BY DEF NewFire
<1> QED
    BY <1>1 DEF FreeFires

\* The records of goroutines that do not run are well typed.
LEMMA UnbornTypes ==
    /\ UnbornLoop \in LoopType
    /\ UnbornFire \in FireType
<1>1. AnyRunner \in Runners
    BY RunnerAssumption DEF AnyRunner
<1> QED
    BY <1>1 DEF UnbornLoop, UnbornFire, LoopPC, FirePC, LoopType, FireType

-----------------------------------------------------------------------------
(* Type correctness.                                                         *)

\* The types of the parts that change together.
LEMMA DisableLoopType ==
    ASSUME TypeOK, NEW r \in Runners, DisableLoop(r)
    PROVE  /\ enabled' \in [Runners -> BOOLEAN]
           /\ done' \in [Runners -> Loops \cup {NoLoop, DeadLoop}]
           /\ loop' \in [Loops -> LoopType]
<1>1. \A l \in Loops : [loop[l] EXCEPT !.closed = TRUE] \in LoopType
    BY DEF TypeOK, LoopType
<1>2. loop' \in [Loops -> LoopType]
    BY <1>1 DEF DisableLoop, CloseDone, TypeOK
<1> QED
    BY <1>2 DEF DisableLoop, TypeOK

LEMMA StartFireType ==
    ASSUME TypeOK, NEW r \in Runners, StartFire(r)
    PROVE  /\ running' \in [Runners -> BOOLEAN]
           /\ status' \in [Runners -> StatusSet]
           /\ wg' \subseteq Loops \cup Fires
           /\ fire' \in [Fires -> FireType]
<1>1. CASE MayFire(r)
    <2>1. NewFire \in Fires
        BY <1>1, NewFireIsFree DEF StartFire
    <2>2. [pc |-> "queued", r |-> r, cancelled |-> FALSE, out |-> "none"] \in FireType
        BY DEF FireType, FirePC
    <2> QED
        BY <1>1, <2>1, <2>2 DEF StartFire, TypeOK, CountedFire
<1>2. CASE ~MayFire(r)
    BY <1>2 DEF StartFire, TypeOK, StatusSet, SkippedStatus
<1> QED
    BY <1>1, <1>2

LEMMA CancelType ==
    ASSUME TypeOK, NEW c
    PROVE  Cancel(c) \in [Fires -> FireType]
<1>1. ASSUME NEW f \in Fires
      PROVE  [fire[f] EXCEPT !.cancelled = Executing(f)] \in FireType
    BY DEF TypeOK, FireType, Executing
<1> QED
    BY <1>1 DEF Cancel, TypeOK

\* Every step keeps the types.
LEMMA TypeStep == TypeOK /\ [Next]_vars => TypeOK'
<1> SUFFICES ASSUME TypeOK, [Next]_vars PROVE TypeOK'
    OBVIOUS
<1> USE DEF TypeOK
<1>1. CASE Start
    BY <1>1 DEF Start, EnsuredCtx, runnerVars
<1>2. CASE Stop
    BY <1>2 DEF Stop, CancelledCtx, muVars, runnerVars
<1>3. CASE StopReturn
    BY <1>3 DEF StopReturn, muVars, runnerVars
<1>4. CASE TeardownCancel
    BY <1>4, CancelType DEF TeardownCancel, managerVars, runnerVars
<1>5. ASSUME NEW r \in Runners, Add(r) PROVE TypeOK'
    BY <1>5 DEF Add, LaunchedOnAdd, runnerVars
<1>6. ASSUME NEW r \in Runners, LaunchLoop(r) PROVE TypeOK'
    <2>1. CASE MayLaunch(r)
        <3>1. NewLoop \in Loops
            BY <1>6, <2>1, NewLoopIsFree DEF LaunchLoop
        <3>2. [pc |-> "arming", r |-> r, closed |-> FALSE] \in LoopType
            BY DEF LoopType, LoopPC
        <3> QED
            BY <1>6, <2>1, <3>1, <3>2 DEF LaunchLoop, managerVars
    <2>2. CASE ~MayLaunch(r)
        BY <1>6, <2>2 DEF LaunchLoop, managerVars
    <2> QED
        BY <2>1, <2>2
<1>7. ASSUME NEW r \in Runners, NEW k \in Keys, ToggleOff(k, r) PROVE TypeOK'
    BY <1>7, DisableLoopType DEF ToggleOff, managerVars, muVars
<1>8. ASSUME NEW r \in Runners, NEW k \in Keys, ToggleOn(k, r) PROVE TypeOK'
    BY <1>8 DEF ToggleOn, managerVars
<1>9. ASSUME NEW r \in Runners, NEW k \in Keys, RunNow(k, r) PROVE TypeOK'
    BY <1>9, StartFireType DEF RunNow, EnsuredCtx, muVars
<1>10. ASSUME NEW r \in Runners, NEW k \in Keys, StopWatcher(k, r) PROVE TypeOK'
    BY <1>10, CancelType DEF StopWatcher, managerVars, muVars, runnerVars
<1>11. ASSUME NEW r \in Runners, NEW k \in Keys, Remove(k, r) PROVE TypeOK'
    BY <1>11 DEF Remove, managerVars, runnerVars
<1>12. ASSUME NEW r \in Runners, Teardown(r) PROVE TypeOK'
    BY <1>12, DisableLoopType DEF Teardown
<1>13. ASSUME NEW s \in Sessions, RemoveAttachedForSession(s) PROVE TypeOK'
    BY <1>13, RunnerAssumption DEF RemoveAttachedForSession, managerVars, runnerVars
<1>14. ASSUME NEW l \in Loops, LoopArm(l) PROVE TypeOK'
    BY <1>14 DEF LoopArm, LoopStep, LoopPC, LoopType, Signal, managerVars, runnerVars
<1>15. ASSUME NEW l \in Loops, LoopPanic(l) PROVE TypeOK'
    BY <1>15, UnbornTypes DEF LoopPanic, LoopEnd, DeferredSignal, Signal,
       StatusSet, managerVars
<1>16. ASSUME NEW l \in Loops, LoopTimer(l) PROVE TypeOK'
    BY <1>16 DEF LoopTimer, LoopStep, LoopPC, LoopType, managerVars, muVars, runnerVars
<1>17. ASSUME NEW l \in Loops, LoopExit(l) PROVE TypeOK'
    BY <1>17, UnbornTypes DEF LoopExit, LoopEnd, managerVars, muVars
<1>18. ASSUME NEW l \in Loops, LoopFire(l) PROVE TypeOK'
    <2>1. loop[l].r \in Runners
        BY DEF LoopType
    <2>2. loop' \in [Loops -> LoopType]
        BY <1>18 DEF LoopFire, LoopStep, LoopPC, LoopType
    <2> QED
        BY <1>18, <2>1, <2>2, StartFireType DEF LoopFire, managerVars, muVars
<1>19. ASSUME NEW f \in Fires, AcquireSlot(f) PROVE TypeOK'
    BY <1>19 DEF AcquireSlot, FireStep, FirePC, FireType, managerVars, muVars, runnerVars
<1>20. ASSUME NEW f \in Fires, AbortQueued(f) PROVE TypeOK'
    BY <1>20 DEF AbortQueued, FireStep, FirePC, FireType, managerVars, muVars, runnerVars
<1>21. ASSUME NEW f \in Fires, BeginFire(f) PROVE TypeOK'
    <2>1. /\ [fire[f] EXCEPT !.pc = "exit"] \in FireType
          /\ [fire[f] EXCEPT !.pc = "executing"] \in FireType
          /\ fire[f].r \in Runners
        BY DEF FireType, FirePC
    <2>2. fire' \in [Fires -> FireType]
        BY <1>21, <2>1 DEF BeginFire, FireStep
    <2> QED
        BY <1>21, <2>1, <2>2 DEF BeginFire, StatusSet, managerVars, muVars
<1>22. ASSUME NEW f \in Fires, HostReturn(f) PROVE TypeOK'
    <2>1. \A res \in {"ok", "err"} :
            [fire[f] EXCEPT !.pc = "returned", !.cancelled = FALSE,
                            !.out = IF Cancelled(f) THEN "cancelled" ELSE res] \in FireType
        BY DEF FireType, FirePC
    <2> QED
        BY <1>22, <2>1 DEF HostReturn, managerVars, muVars, runnerVars
<1>23. ASSUME NEW f \in Fires, HostPanic(f) PROVE TypeOK'
    <2>1. [fire[f] EXCEPT !.pc = "exit", !.cancelled = FALSE, !.out = "panic"] \in FireType
        BY ZenonT(60) DEF FireType, FirePC
    <2> QED
        BY <1>23, <2>1 DEF HostPanic, managerVars, muVars, runnerVars
<1>24. ASSUME NEW f \in Fires, RecordOutcome(f) PROVE TypeOK'
    <2>1. [fire[f] EXCEPT !.pc = IF WillNotify(f) THEN "notifying" ELSE "exit",
                          !.out = "none"] \in FireType
        BY DEF FireType, FirePC
    <2> QED
        BY <1>24, <2>1 DEF RecordOutcome, StatusSet, managerVars, muVars
<1>25. ASSUME NEW f \in Fires, Notify(f) PROVE TypeOK'
    BY <1>25 DEF Notify, FireStep, FirePC, FireType, managerVars, muVars, runnerVars
<1>26. ASSUME NEW f \in Fires, FireExit(f) PROVE TypeOK'
    BY <1>26, UnbornTypes DEF FireExit, Released, Cleared, StatusSet,
       managerVars, muVars
<1>27. CASE UNCHANGED vars
    BY <1>27 DEF vars
<1> QED
    BY <1>1, <1>2, <1>3, <1>4, <1>5, <1>6, <1>7, <1>8, <1>9, <1>10, <1>11,
       <1>12, <1>13, <1>14, <1>15, <1>16, <1>17, <1>18, <1>19, <1>20, <1>21,
       <1>22, <1>23, <1>24, <1>25, <1>26, <1>27
    DEF Next, Control, LoopNext, FireNext, FireWork

\* Every variable of the engine has its type in every reachable state.
THEOREM TypeCorrect == Spec => []TypeOK
<1>1. Init => TypeOK
    BY UnbornTypes DEF Init, TypeOK, StatusSet
<1> QED
    BY <1>1, TypeStep, PTL DEF Spec

-----------------------------------------------------------------------------
(* One fire per watcher.                                                     *)

\* NoOverlap is inductive together with the meaning of r.running.
FireInv == NoOverlap /\ RunningFlag

\* A step that starts and ends no fire and leaves r.running alone keeps FireInv.
LEMMA FireFrame ==
    ASSUME TypeOK, FireInv, running' = running,
           \A f \in Fires : /\ fire'[f].r = fire[f].r
                           /\ (LiveFire(f)' <=> LiveFire(f))
    PROVE  FireInv'
<1>1. NoOverlap'
    BY DEF FireInv, NoOverlap
<1>2. RunningFlag'
    BY DEF FireInv, RunningFlag
<1> QED
    BY <1>1, <1>2 DEF FireInv

\* startFire starts a fire only for a Runner that has none.
LEMMA StartFireKeepsFireInv ==
    ASSUME TypeOK, FireInv, NEW r \in Runners, StartFire(r)
    PROVE  FireInv'
<1>1. CASE MayFire(r)
    <2>1. NewFire \in Fires /\ ~LiveFire(NewFire)
        BY <1>1, NewFireIsFree DEF StartFire
    <2>2. \A f \in Fires : LiveFire(f) => fire[f].r # r
        BY <1>1 DEF FireInv, RunningFlag, MayFire
    <2>3. /\ fire'[NewFire].r = r /\ fire'[NewFire].pc = "queued"
          /\ \A f \in Fires \ {NewFire} : fire'[f] = fire[f]
        BY <1>1, <2>1 DEF StartFire, TypeOK
    <2>4. running' = [running EXCEPT ![r] = TRUE]
        BY <1>1 DEF StartFire
    <2>5. NoOverlap'
        BY <2>1, <2>2, <2>3 DEF FireInv, NoOverlap, LiveFire
    <2>6. ASSUME NEW q \in Runners
          PROVE  running'[q] <=> \E f \in Fires : LiveFire(f)' /\ fire'[f].r = q
        <3>1. CASE q = r
            BY <2>1, <2>3, <2>4, <3>1 DEF LiveFire, TypeOK
        <3>2. CASE q # r
            <4>1. running'[q] <=> running[q]
                BY <2>4, <3>2 DEF TypeOK
            <4>2. running[q] <=> \E f \in Fires : LiveFire(f) /\ fire[f].r = q
                BY DEF FireInv, RunningFlag
            <4> QED
                BY <2>1, <2>3, <3>2, <4>1, <4>2 DEF LiveFire
        <3> QED
            BY <3>1, <3>2
    <2> QED
        BY <2>5, <2>6 DEF FireInv, RunningFlag
<1>2. CASE ~MayFire(r)
    BY <1>2, FireFrame DEF LiveFire, StartFire
<1> QED
    BY <1>1, <1>2

\* runFire's deferred functions clear r.running with the watcher's only fire.
LEMMA FireExitKeepsFireInv ==
    ASSUME TypeOK, FireInv, NEW g \in Fires, FireExit(g)
    PROVE  FireInv'
<1> DEFINE r == fire[g].r
<1>1. r \in Runners /\ LiveFire(g)
    BY DEF FireExit, LiveFire, TypeOK, FireType
<1>2. /\ fire' = [fire EXCEPT ![g] = UnbornFire]
      /\ running' = [running EXCEPT ![r] = FALSE]
    BY DEF FireExit, Cleared
<1>3. /\ ~LiveFire(g)'
      /\ \A f \in Fires \ {g} : fire'[f] = fire[f]
    BY <1>2 DEF LiveFire, UnbornFire, TypeOK
<1>4. NoOverlap'
    BY <1>3 DEF FireInv, NoOverlap, LiveFire
<1>5. ASSUME NEW q \in Runners
      PROVE  running'[q] <=> \E f \in Fires : LiveFire(f)' /\ fire'[f].r = q
    <2>1. running[q] <=> \E f \in Fires : LiveFire(f) /\ fire[f].r = q
        BY DEF FireInv, RunningFlag
    <2>2. CASE q = r
        <3>1. ~running'[q]
            BY <1>1, <1>2, <2>2 DEF TypeOK
        <3>2. \A f \in Fires : LiveFire(f)' => fire'[f].r # q
            BY <1>1, <1>3, <2>2 DEF FireInv, NoOverlap, LiveFire
        <3> QED
            BY <3>1, <3>2
    <2>3. CASE q # r
        <3>1. running'[q] <=> running[q]
            BY <1>2, <2>3 DEF TypeOK
        <3> QED
            BY <1>3, <2>1, <2>3, <3>1 DEF LiveFire
    <2> QED
        BY <2>2, <2>3
<1> QED
    BY <1>4, <1>5 DEF FireInv, RunningFlag

\* Every step keeps FireInv.
LEMMA FireInvStep == TypeOK /\ FireInv /\ [Next]_vars => FireInv'
<1> SUFFICES ASSUME TypeOK, FireInv, [Next]_vars PROVE FireInv'
    OBVIOUS
<1>1. CASE UNCHANGED <<fire, running>>
    BY <1>1, FireFrame DEF LiveFire
<1>2. ASSUME NEW r \in Runners, NEW k \in Keys, RunNow(k, r) PROVE FireInv'
    BY <1>2, StartFireKeepsFireInv DEF RunNow
<1>3. ASSUME NEW l \in Loops, LoopFire(l) PROVE FireInv'
    <2>1. loop[l].r \in Runners
        BY DEF TypeOK, LoopType
    <2> QED
        BY <1>3, <2>1, StartFireKeepsFireInv DEF LoopFire
<1>4. ASSUME NEW c, fire' = Cancel(c), running' = running PROVE FireInv'
    BY <1>4, FireFrame DEF LiveFire, Cancel, TypeOK, FireType
<1>5. ASSUME NEW f \in Fires, running' = running, NEW pc, pc # "unborn",
             fire[f].pc # "unborn", FireStep(f, pc)
      PROVE  FireInv'
    BY <1>5, FireFrame DEF LiveFire, FireStep, TypeOK, FireType
<1>6. ASSUME NEW f \in Fires, AcquireSlot(f) \/ AbortQueued(f) \/ Notify(f)
      PROVE  FireInv'
    BY <1>5, <1>6 DEF AcquireSlot, AbortQueued, Notify, runnerVars
<1>7. ASSUME NEW f \in Fires, BeginFire(f) PROVE FireInv'
    BY <1>5, <1>7 DEF BeginFire
<1>8. ASSUME NEW f \in Fires, HostReturn(f) PROVE FireInv'
    BY <1>8, FireFrame DEF LiveFire, HostReturn, Executing, runnerVars, TypeOK, FireType
<1>9. ASSUME NEW f \in Fires, HostPanic(f) PROVE FireInv'
    BY <1>9, FireFrame DEF LiveFire, HostPanic, Executing, runnerVars, TypeOK, FireType
<1>10. ASSUME NEW f \in Fires, RecordOutcome(f) PROVE FireInv'
    BY <1>10, FireFrame DEF LiveFire, RecordOutcome, TypeOK, FireType
<1>11. ASSUME NEW f \in Fires, FireExit(f) PROVE FireInv'
    BY <1>11, FireExitKeepsFireInv
<1>12. ASSUME NEW f \in Fires, FireNext(f) PROVE FireInv'
    BY <1>6, <1>7, <1>8, <1>9, <1>10, <1>11, <1>12 DEF FireNext, FireWork
<1>13. ASSUME NEW l \in Loops, LoopNext(l) PROVE FireInv'
    BY <1>1, <1>3, <1>13 DEF LoopNext, LoopArm, LoopPanic, LoopTimer, LoopExit, runnerVars
<1>14. ASSUME NEW r \in Runners, Control(r) PROVE FireInv'
    BY <1>1, <1>2, <1>4, <1>14 DEF Control, Add, LaunchLoop, ToggleOff, ToggleOn,
       StopWatcher, Remove, Teardown, runnerVars
<1>15. CASE Start \/ Stop \/ StopReturn
    BY <1>1, <1>15 DEF Start, Stop, StopReturn, runnerVars
<1>16. CASE TeardownCancel
    BY <1>4, <1>16 DEF TeardownCancel, runnerVars
<1>17. ASSUME NEW s \in Sessions, RemoveAttachedForSession(s) PROVE FireInv'
    BY <1>1, <1>17 DEF RemoveAttachedForSession, runnerVars
<1>18. CASE UNCHANGED vars
    BY <1>1, <1>18 DEF vars
<1> QED
    BY <1>12, <1>13, <1>14, <1>15, <1>16, <1>17, <1>18 DEF Next

\* A watcher never overlaps itself: however schedules, stale loops, RunNow,
\* toggles and removals interleave, no Runner has two fires.
THEOREM NeverOverlaps == Spec => []NoOverlap
<1>1. Init => FireInv
    BY DEF Init, FireInv, NoOverlap, RunningFlag, LiveFire, UnbornFire
<1>2. FireInv => NoOverlap
    BY DEF FireInv
<1> QED
    BY <1>1, <1>2, FireInvStep, TypeCorrect, PTL DEF Spec

\* r.running is set exactly while a fire of the Runner exists, so no exit path
\* leaves a watcher that is skipped for ever.
THEOREM RunningFlagExact == Spec => []RunningFlag
<1>1. Init => FireInv
    BY DEF Init, FireInv, NoOverlap, RunningFlag, LiveFire, UnbornFire
<1>2. FireInv => RunningFlag
    BY DEF FireInv
<1> QED
    BY <1>1, <1>2, FireInvStep, TypeCorrect, PTL DEF Spec

-----------------------------------------------------------------------------
(* The slots.                                                                *)

\* SlotBound is inductive together with who holds the slots.
SlotInv == SlotsAccounted /\ Cardinality(sem) <= MaxConcurrent

\* A step that takes and gives back no slot keeps SlotInv.
LEMMA SlotFrame ==
    ASSUME SlotInv, sem' = sem, \A f \in Fires : HoldsSlot(f)' <=> HoldsSlot(f)
    PROVE  SlotInv'
    BY DEF SlotInv, SlotsAccounted

\* A fire that startFire has just started holds no slot.
LEMMA StartFireKeepsSlotInv ==
    ASSUME TypeOK, SlotInv, NEW r \in Runners, StartFire(r), sem' = sem
    PROVE  SlotInv'
<1>1. CASE MayFire(r)
    BY <1>1, NewFireIsFree, SlotFrame DEF StartFire, HoldsSlot, LiveFire, TypeOK
<1>2. CASE ~MayFire(r)
    BY <1>2, SlotFrame DEF StartFire, HoldsSlot
<1> QED
    BY <1>1, <1>2

\* m.sem <- struct{}{} adds one fire to less than maxConcurrent.
LEMMA AcquireKeepsSlotInv ==
    ASSUME TypeOK, SlotInv, NEW f \in Fires, AcquireSlot(f)
    PROVE  SlotInv'
<1>1. SlotsAccounted'
    BY DEF SlotInv, SlotsAccounted, AcquireSlot, FireStep, HoldsSlot, TypeOK, FireType
<1>2. IsFiniteSet(sem)
    BY FS_Subset, GoroutineAssumption DEF TypeOK
<1>3. f \notin sem
    BY DEF SlotInv, SlotsAccounted, AcquireSlot, HoldsSlot
<1>4. Cardinality(sem') = Cardinality(sem) + 1
    BY <1>2, <1>3, FS_AddElement DEF AcquireSlot
<1>5. Cardinality(sem) \in Nat
    BY <1>2, FS_CardinalityType
<1> QED
    BY <1>1, <1>4, <1>5, ConcurrencyAssumption DEF SlotInv, AcquireSlot, SlotFree

\* Whatever way a fire exits, it gives back its slot if it had one.
LEMMA FireExitKeepsSlotInv ==
    ASSUME TypeOK, SlotInv, NEW f \in Fires, FireExit(f)
    PROVE  SlotInv'
<1>1. SlotsAccounted'
    BY DEF SlotInv, SlotsAccounted, FireExit, Released, HoldsSlot, UnbornFire,
       TypeOK, FireType
<1>2. IsFiniteSet(sem) /\ sem' \subseteq sem
    BY FS_Subset, GoroutineAssumption DEF TypeOK, FireExit, Released
<1>3. Cardinality(sem') <= Cardinality(sem)
    BY <1>2, FS_Subset
<1>4. Cardinality(sem) \in Nat /\ Cardinality(sem') \in Nat
    BY <1>2, FS_Subset, FS_CardinalityType
<1> QED
    BY <1>1, <1>3, <1>4, ConcurrencyAssumption DEF SlotInv

\* Every step keeps SlotInv.
LEMMA SlotInvStep == TypeOK /\ SlotInv /\ [Next]_vars => SlotInv'
<1> SUFFICES ASSUME TypeOK, SlotInv, [Next]_vars PROVE SlotInv'
    OBVIOUS
<1>1. CASE UNCHANGED <<fire, sem>>
    BY <1>1, SlotFrame DEF HoldsSlot
<1>2. ASSUME NEW r \in Runners, NEW k \in Keys, RunNow(k, r) PROVE SlotInv'
    BY <1>2, StartFireKeepsSlotInv DEF RunNow
<1>3. ASSUME NEW l \in Loops, LoopFire(l) PROVE SlotInv'
    BY <1>3, StartFireKeepsSlotInv DEF LoopFire, TypeOK, LoopType
<1>4. ASSUME NEW c, fire' = Cancel(c), sem' = sem PROVE SlotInv'
    BY <1>4, SlotFrame DEF Cancel, TypeOK, FireType, HoldsSlot
<1>5. ASSUME NEW f \in Fires, AcquireSlot(f) PROVE SlotInv'
    BY <1>5, AcquireKeepsSlotInv
<1>6. ASSUME NEW f \in Fires, AbortQueued(f) PROVE SlotInv'
    BY <1>6, SlotFrame DEF AbortQueued, FireStep, HoldsSlot, TypeOK, FireType
<1>7. ASSUME NEW f \in Fires, BeginFire(f) PROVE SlotInv'
    BY <1>7, SlotFrame DEF BeginFire, FireStep, HoldsSlot, TypeOK, FireType
<1>8. ASSUME NEW f \in Fires, HostReturn(f) PROVE SlotInv'
    BY <1>8, SlotFrame DEF HostReturn, Executing, HoldsSlot, TypeOK, FireType
<1>9. ASSUME NEW f \in Fires, HostPanic(f) PROVE SlotInv'
    BY <1>9, SlotFrame DEF HostPanic, Executing, HoldsSlot, TypeOK, FireType
<1>10. ASSUME NEW f \in Fires, RecordOutcome(f) PROVE SlotInv'
    BY <1>10, SlotFrame DEF RecordOutcome, HoldsSlot, TypeOK, FireType
<1>11. ASSUME NEW f \in Fires, Notify(f) PROVE SlotInv'
    BY <1>11, SlotFrame DEF Notify, FireStep, HoldsSlot, TypeOK, FireType
<1>12. ASSUME NEW f \in Fires, FireExit(f) PROVE SlotInv'
    BY <1>12, FireExitKeepsSlotInv
<1>13. ASSUME NEW f \in Fires, FireNext(f) PROVE SlotInv'
    BY <1>5, <1>6, <1>7, <1>8, <1>9, <1>10, <1>11, <1>12, <1>13 DEF FireNext, FireWork
<1>14. ASSUME NEW l \in Loops, LoopNext(l) PROVE SlotInv'
    BY <1>1, <1>3, <1>14 DEF LoopNext, LoopArm, LoopPanic, LoopTimer, LoopExit
<1>15. ASSUME NEW r \in Runners, Control(r) PROVE SlotInv'
    BY <1>1, <1>2, <1>4, <1>15 DEF Control, Add, LaunchLoop, ToggleOff, ToggleOn,
       StopWatcher, Remove, Teardown
<1>16. CASE Start \/ Stop \/ StopReturn
    BY <1>1, <1>16 DEF Start, Stop, StopReturn
<1>17. CASE TeardownCancel
    BY <1>4, <1>17 DEF TeardownCancel
<1>18. ASSUME NEW s \in Sessions, RemoveAttachedForSession(s) PROVE SlotInv'
    BY <1>1, <1>18 DEF RemoveAttachedForSession
<1>19. CASE UNCHANGED vars
    BY <1>1, <1>19 DEF vars
<1> QED
    BY <1>13, <1>14, <1>15, <1>16, <1>17, <1>18, <1>19 DEF Next

\* No more than maxConcurrent fires are past the slot channel, across all
\* watchers and on every exit path.
THEOREM SlotsBounded == Spec => []SlotBound
<1>1. Init => SlotInv
    <2>1. Cardinality({}) = 0
        BY FS_EmptySet
    <2> QED
        BY <2>1, ConcurrencyAssumption
        DEF Init, SlotInv, SlotsAccounted, HoldsSlot, UnbornFire
<1>2. SlotInv => SlotBound
    BY DEF SlotInv, SlotsAccounted, SlotBound
<1> QED
    BY <1>1, <1>2, SlotInvStep, TypeCorrect, PTL DEF Spec

\* m.sem is held by the fires past the slot and by no other: no exit path leaks one.
THEOREM SlotsHeld == Spec => []SlotsAccounted
<1>1. Init => SlotInv
    <2>1. Cardinality({}) = 0
        BY FS_EmptySet
    <2> QED
        BY <2>1, ConcurrencyAssumption
        DEF Init, SlotInv, SlotsAccounted, HoldsSlot, UnbornFire
<1>2. SlotInv => SlotsAccounted
    BY DEF SlotInv
<1> QED
    BY <1>1, <1>2, SlotInvStep, TypeCorrect, PTL DEF Spec

-----------------------------------------------------------------------------
(* One schedule per watcher.                                                 *)

\* OneArmedLoop is inductive together with: a channel held in r.done belongs to
\* a running loop of r that nobody has told to end.
LoopInv ==
    /\ OneArmedLoop
    /\ \A r \in Runners : done[r] \in Loops =>
         /\ LiveLoop(done[r])
         /\ loop[done[r]].r = r
         /\ ~loop[done[r]].closed

\* Moving a running loop's program counter keeps LoopInv.
LEMMA LoopStepKeepsLoopInv ==
    ASSUME TypeOK, LoopInv, NEW l \in Loops, NEW pc, pc # "unborn", LiveLoop(l),
           LoopStep(l, pc), done' = done
    PROVE  LoopInv'
<1>1. \A m \in Loops : /\ LiveLoop(m)' <=> LiveLoop(m)
                       /\ loop'[m].r = loop[m].r
                       /\ loop'[m].closed = loop[m].closed
    BY DEF LoopStep, LiveLoop, TypeOK, LoopType
<1> QED
    BY <1>1 DEF LoopInv, OneArmedLoop, TypeOK, LoopType

\* Closing r.done and forgetting it keeps LoopInv.
LEMMA DisableLoopKeepsLoopInv ==
    ASSUME TypeOK, LoopInv, NEW r \in Runners, DisableLoop(r)
    PROVE  LoopInv'
<1>1. \A m \in Loops : /\ LiveLoop(m)' <=> LiveLoop(m)
                       /\ loop'[m].r = loop[m].r
                       /\ m = done[r] => loop'[m].closed
                       /\ m # done[r] => loop'[m].closed = loop[m].closed
    BY DEF DisableLoop, CloseDone, LiveLoop, TypeOK, LoopType
<1>2. /\ done'[r] = NoLoop
      /\ \A q \in Runners \ {r} : done'[q] = done[q]
    BY DEF DisableLoop, TypeOK
<1>3. NoLoop \notin Loops
    BY GoroutineAssumption
<1> QED
    BY <1>1, <1>2, <1>3 DEF LoopInv, OneArmedLoop, TypeOK, LoopType

\* A goroutine that returns leaves no r.done that could close another's channel.
LEMMA LoopEndKeepsLoopInv ==
    ASSUME TypeOK, LoopInv, NEW l \in Loops, LiveLoop(l), LoopEnd(l)
    PROVE  LoopInv'
<1>1. /\ ~LiveLoop(l)'
      /\ \A m \in Loops \ {l} : loop'[m] = loop[m]
    BY DEF LoopEnd, UnbornLoop, LiveLoop, TypeOK
<1>2. loop[l].r \in Runners /\ DeadLoop \notin Loops
    BY GoroutineAssumption DEF TypeOK, LoopType
<1>3. \A q \in Runners : done[q] = l => done'[q] = DeadLoop
    BY <1>2 DEF LoopEnd, LoopInv, TypeOK
<1>4. \A q \in Runners : done[q] # l => done'[q] = done[q]
    BY <1>2 DEF LoopEnd, TypeOK
<1> QED
    BY <1>1, <1>2, <1>3, <1>4 DEF LoopInv, OneArmedLoop, LiveLoop, TypeOK, LoopType

\* launchLoopLocked arms a loop only where r.done is nil.
LEMMA LaunchKeepsLoopInv ==
    ASSUME TypeOK, LoopInv, NEW r \in Runners, LaunchLoop(r)
    PROVE  LoopInv'
<1>1. CASE MayLaunch(r)
    <2>1. NewLoop \in Loops /\ ~LiveLoop(NewLoop)
        BY <1>1, NewLoopIsFree DEF LaunchLoop
    <2>2. /\ loop'[NewLoop] = [pc |-> "arming", r |-> r, closed |-> FALSE]
          /\ \A m \in Loops \ {NewLoop} : loop'[m] = loop[m]
          /\ done'[r] = NewLoop
          /\ \A q \in Runners \ {r} : done'[q] = done[q]
        BY <1>1, <2>1 DEF LaunchLoop, TypeOK
    <2>3. done[r] \notin Loops
        BY <1>1, GoroutineAssumption DEF MayLaunch
    <2> QED
        BY <2>1, <2>2, <2>3 DEF LoopInv, OneArmedLoop, LiveLoop, TypeOK, LoopType
<1>2. CASE ~MayLaunch(r)
    BY <1>2 DEF LaunchLoop, LoopInv, OneArmedLoop, LiveLoop
<1> QED
    BY <1>1, <1>2

\* Every step keeps LoopInv.
LEMMA LoopInvStep == TypeOK /\ LoopInv /\ [Next]_vars => LoopInv'
<1> SUFFICES ASSUME TypeOK, LoopInv, [Next]_vars PROVE LoopInv'
    OBVIOUS
<1>1. CASE UNCHANGED <<loop, done>>
    BY <1>1 DEF LoopInv, OneArmedLoop, LiveLoop
<1>2. ASSUME NEW r \in Runners, LaunchLoop(r) PROVE LoopInv'
    BY <1>2, LaunchKeepsLoopInv
<1>3. ASSUME NEW r \in Runners, DisableLoop(r) PROVE LoopInv'
    BY <1>3, DisableLoopKeepsLoopInv
<1>4. ASSUME NEW l \in Loops, LoopArm(l) \/ LoopTimer(l) \/ LoopFire(l) PROVE LoopInv'
    BY <1>4, LoopStepKeepsLoopInv
    DEF LoopArm, LoopTimer, LoopFire, LiveLoop, runnerVars
<1>5. ASSUME NEW l \in Loops, LoopPanic(l) \/ LoopExit(l) PROVE LoopInv'
    BY <1>5, LoopEndKeepsLoopInv DEF LoopPanic, LoopExit, LiveLoop
<1>6. ASSUME NEW f \in Fires, FireNext(f) PROVE LoopInv'
    BY <1>1, <1>6 DEF FireNext, FireWork, AcquireSlot, AbortQueued, BeginFire,
       HostReturn, HostPanic, RecordOutcome, Notify, FireExit, runnerVars
<1>7. ASSUME NEW l \in Loops, LoopNext(l) PROVE LoopInv'
    BY <1>4, <1>5, <1>7 DEF LoopNext
<1>8. ASSUME NEW r \in Runners, Control(r) PROVE LoopInv'
    BY <1>1, <1>2, <1>3, <1>8 DEF Control, Add, ToggleOff, ToggleOn, RunNow,
       StopWatcher, Remove, Teardown, runnerVars
<1>9. CASE Start \/ Stop \/ StopReturn \/ TeardownCancel
    BY <1>1, <1>9 DEF Start, Stop, StopReturn, TeardownCancel, runnerVars
<1>10. ASSUME NEW s \in Sessions, RemoveAttachedForSession(s) PROVE LoopInv'
    BY <1>1, <1>10 DEF RemoveAttachedForSession, runnerVars
<1>11. CASE UNCHANGED vars
    BY <1>1, <1>11 DEF vars
<1> QED
    BY <1>6, <1>7, <1>8, <1>9, <1>10, <1>11 DEF Next

\* A loop that nobody told to end is the one its Runner can still end: a watcher
\* never runs on two schedules, and a disabled or removed one keeps none.
THEOREM OneSchedule == Spec => []OneArmedLoop
<1>1. Init => LoopInv
    BY GoroutineAssumption DEF Init, LoopInv, OneArmedLoop, LiveLoop, UnbornLoop
<1>2. LoopInv => OneArmedLoop
    BY DEF LoopInv
<1> QED
    BY <1>1, <1>2, LoopInvStep, TypeCorrect, PTL DEF Spec

-----------------------------------------------------------------------------
(* Nothing runs after Stop has returned.                                     *)

\* m.wg counts exactly the goroutines that run.
WgExact == wg = {l \in Loops : LiveLoop(l)} \cup {f \in Fires : LiveFire(f)}

\* StopQuiesces is inductive together with the meaning of m.wg and with the
\* order in which Stop and the launches exclude one another under m.mu.
QuiesceInv ==
    /\ WgExact
    /\ stopper # "none" => stopped
    /\ stopped => launching = {}
    /\ stopper = "returned" => wg = {}

\* startFire counts the goroutine it starts.
LEMMA StartFireKeepsWg ==
    ASSUME TypeOK, WgExact, NEW r \in Runners, StartFire(r),
           \A l \in Loops : LiveLoop(l)' <=> LiveLoop(l)
    PROVE  WgExact'
<1>1. CASE MayFire(r)
    BY <1>1, NewFireIsFree, GoroutineAssumption
    DEF StartFire, CountedFire, WgExact, LiveFire, TypeOK
<1>2. CASE ~MayFire(r)
    BY <1>2 DEF StartFire, WgExact, LiveFire
<1> QED
    BY <1>1, <1>2

\* Every step keeps QuiesceInv.
LEMMA QuiesceInvStep == TypeOK /\ QuiesceInv /\ [Next]_vars => QuiesceInv'
<1> SUFFICES ASSUME TypeOK, QuiesceInv, [Next]_vars PROVE QuiesceInv'
    OBVIOUS
<1> DEFINE SameLoops == \A l \in Loops : LiveLoop(l)' <=> LiveLoop(l)
           SameFires == \A f \in Fires : LiveFire(f)' <=> LiveFire(f)
<1>1. ASSUME SameLoops, SameFires, wg' = wg, stopper' = stopper,
             stopped => stopped' /\ launching' = {}, stopped' => stopped
      PROVE  QuiesceInv'
    BY <1>1 DEF QuiesceInv, WgExact
<1>2. ASSUME UNCHANGED <<loop, fire, wg>> PROVE SameLoops /\ SameFires /\ wg' = wg
    BY <1>2 DEF LiveLoop, LiveFire
<1>3. CASE Start
    BY <1>1, <1>2, <1>3 DEF Start
<1>4. CASE Stop
    BY <1>2, <1>4 DEF Stop, MuFree, muVars, QuiesceInv, WgExact
<1>5. CASE StopReturn
    BY <1>2, <1>5 DEF StopReturn, muVars, QuiesceInv, WgExact
<1>6. ASSUME NEW c, fire' = Cancel(c) PROVE SameFires
    BY <1>6 DEF Cancel, LiveFire, TypeOK, FireType
<1>7. CASE TeardownCancel
    <2>1. SameLoops /\ SameFires
        BY <1>6, <1>7 DEF TeardownCancel, LiveLoop
    <2> QED
        BY <1>1, <1>7, <2>1 DEF TeardownCancel, managerVars, QuiesceInv
<1>8. ASSUME NEW r \in Runners, Add(r) PROVE QuiesceInv'
    BY <1>1, <1>2, <1>8 DEF Add
<1>9. ASSUME NEW r \in Runners, LaunchLoop(r) PROVE QuiesceInv'
    <2>1. ~stopped /\ stopped' = stopped /\ stopper' = stopper /\ SameFires
        BY <1>9 DEF LaunchLoop, QuiesceInv, managerVars, LiveFire
    <2>2. CASE MayLaunch(r)
        <3>1. PICK n \in Loops : n = NewLoop /\ ~LiveLoop(n)
            BY <1>9, <2>2, NewLoopIsFree DEF LaunchLoop
        <3>2. /\ wg' = wg \cup {n}
              /\ LiveLoop(n)' /\ \A l \in Loops \ {n} : LiveLoop(l)' <=> LiveLoop(l)
            BY <1>9, <2>2, <3>1 DEF LaunchLoop, LiveLoop, TypeOK
        <3>3. WgExact'
            BY <2>1, <3>1, <3>2 DEF QuiesceInv, WgExact
        <3> QED
            BY <2>1, <3>3 DEF QuiesceInv
    <2>3. CASE ~MayLaunch(r)
        BY <1>9, <2>1, <2>3 DEF LaunchLoop, LiveLoop, QuiesceInv, WgExact
    <2> QED
        BY <2>2, <2>3
<1>10. ASSUME NEW r \in Runners, DisableLoop(r) PROVE SameLoops
    BY <1>10 DEF DisableLoop, CloseDone, LiveLoop, TypeOK, LoopType
<1>11. ASSUME NEW r \in Runners, NEW k \in Keys, ToggleOff(k, r) PROVE QuiesceInv'
    BY <1>1, <1>10, <1>11 DEF ToggleOff, managerVars, muVars, LiveFire, QuiesceInv
<1>12. ASSUME NEW r \in Runners, NEW k \in Keys, ToggleOn(k, r) PROVE QuiesceInv'
    BY <1>1, <1>2, <1>12 DEF ToggleOn, managerVars
<1>13. ASSUME NEW r \in Runners, NEW k \in Keys, RunNow(k, r) PROVE QuiesceInv'
    <2>1. WgExact'
        BY <1>13, StartFireKeepsWg DEF RunNow, QuiesceInv, LiveLoop
    <2> QED
        BY <1>13, <2>1 DEF RunNow, QuiesceInv
<1>14. ASSUME NEW r \in Runners, NEW k \in Keys, StopWatcher(k, r) PROVE QuiesceInv'
    BY <1>1, <1>6, <1>14 DEF StopWatcher, managerVars, muVars, LiveLoop, QuiesceInv
<1>15. ASSUME NEW r \in Runners, NEW k \in Keys, Remove(k, r) PROVE QuiesceInv'
    BY <1>1, <1>2, <1>15 DEF Remove, managerVars, QuiesceInv
<1>16. ASSUME NEW r \in Runners, Teardown(r) PROVE QuiesceInv'
    BY <1>1, <1>10, <1>16 DEF Teardown, LiveFire, QuiesceInv
<1>17. ASSUME NEW s \in Sessions, RemoveAttachedForSession(s) PROVE QuiesceInv'
    BY <1>1, <1>2, <1>17 DEF RemoveAttachedForSession, managerVars, QuiesceInv
<1>18. ASSUME NEW l \in Loops, NEW pc, pc # "unborn", LiveLoop(l), LoopStep(l, pc)
       PROVE  SameLoops
    BY <1>18 DEF LoopStep, LiveLoop, TypeOK, LoopType
<1>19. ASSUME NEW l \in Loops, LoopArm(l) \/ LoopTimer(l) PROVE QuiesceInv'
    <2>1. SameLoops /\ SameFires
        BY <1>18, <1>19 DEF LoopArm, LoopTimer, LiveLoop, LiveFire
    <2> QED
        BY <1>1, <1>19, <2>1 DEF LoopArm, LoopTimer, managerVars, muVars, QuiesceInv
<1>20. ASSUME NEW l \in Loops, LiveLoop(l), LoopEnd(l), fire' = fire,
              stopped' = stopped, stopper' = stopper, launching' = launching
       PROVE  QuiesceInv'
    <2>1. ~LiveLoop(l)' /\ \A m \in Loops \ {l} : LiveLoop(m)' <=> LiveLoop(m)
        BY <1>20 DEF LoopEnd, UnbornLoop, LiveLoop, TypeOK
    <2>2. WgExact'
        BY <1>20, <2>1, GoroutineAssumption DEF LoopEnd, QuiesceInv, WgExact, LiveFire
    <2> QED
        BY <1>20, <2>2 DEF LoopEnd, QuiesceInv
<1>21. ASSUME NEW l \in Loops, LoopPanic(l) \/ LoopExit(l) PROVE QuiesceInv'
    BY <1>20, <1>21 DEF LoopPanic, LoopExit, LiveLoop, managerVars, muVars
<1>22. ASSUME NEW l \in Loops, LoopFire(l) PROVE QuiesceInv'
    <2>1. SameLoops /\ loop[l].r \in Runners /\ wg # {}
        BY <1>18, <1>22 DEF LoopFire, LiveLoop, TypeOK, LoopType, QuiesceInv, WgExact
    <2>2. WgExact'
        BY <1>22, <2>1, StartFireKeepsWg DEF LoopFire, QuiesceInv
    <2> QED
        BY <1>22, <2>1, <2>2 DEF LoopFire, managerVars, muVars, QuiesceInv
<1>23. ASSUME NEW f \in Fires, FireExit(f) PROVE QuiesceInv'
    <2>1. ~LiveFire(f)' /\ \A g \in Fires \ {f} : LiveFire(g)' <=> LiveFire(g)
        BY <1>23 DEF FireExit, UnbornFire, LiveFire, TypeOK
    <2>2. WgExact'
        BY <1>23, <2>1, GoroutineAssumption DEF FireExit, QuiesceInv, WgExact, LiveLoop
    <2> QED
        BY <1>23, <2>2 DEF FireExit, QuiesceInv, managerVars, muVars
<1>24. ASSUME NEW f \in Fires, FireNext(f), ~FireExit(f) PROVE QuiesceInv'
    <2>1. SameFires
        <3>1. ASSUME NEW pc, pc # "unborn", LiveFire(f), FireStep(f, pc) PROVE SameFires
            BY <3>1 DEF FireStep, LiveFire, TypeOK, FireType
        <3>2. CASE AcquireSlot(f) \/ AbortQueued(f) \/ BeginFire(f) \/ Notify(f)
            BY <3>1, <3>2 DEF AcquireSlot, AbortQueued, BeginFire, Notify, LiveFire
        <3>3. CASE HostReturn(f)
            BY <3>3 DEF HostReturn, Executing, LiveFire, TypeOK, FireType
        <3>4. CASE HostPanic(f)
            BY <3>4 DEF HostPanic, Executing, LiveFire, TypeOK, FireType
        <3>5. CASE RecordOutcome(f)
            BY <3>5 DEF RecordOutcome, LiveFire, TypeOK, FireType
        <3> QED
            BY <1>24, <3>2, <3>3, <3>4, <3>5 DEF FireNext, FireWork
    <2>2. UNCHANGED <<loop, wg, stopped, stopper, launching>>
        BY <1>24 DEF FireNext, FireWork, AcquireSlot, AbortQueued, BeginFire,
           HostReturn, HostPanic, RecordOutcome, Notify, managerVars, muVars
    <2> QED
        BY <1>1, <2>1, <2>2 DEF LiveLoop, QuiesceInv
<1>25. CASE UNCHANGED vars
    BY <1>1, <1>2, <1>25 DEF vars, QuiesceInv
<1> QED
    BY <1>3, <1>4, <1>5, <1>7, <1>8, <1>9, <1>11, <1>12, <1>13, <1>14, <1>15,
       <1>16, <1>17, <1>19, <1>21, <1>22, <1>23, <1>24, <1>25
    DEF Next, Control, LoopNext

\* When Stop's m.wg.Wait has returned, no schedule loop and no fire runs, and
\* none is started afterwards.
THEOREM StopIsFinal == Spec => []StopQuiesces
<1>1. Init => QuiesceInv
    BY DEF Init, QuiesceInv, WgExact, LiveLoop, LiveFire, UnbornLoop, UnbornFire
<1>2. QuiesceInv => StopQuiesces
    BY DEF QuiesceInv, WgExact, StopQuiesces
<1> QED
    BY <1>1, <1>2, QuiesceInvStep, TypeCorrect, PTL DEF Spec

-----------------------------------------------------------------------------
(* Enabled is armed.                                                         *)

\* While m.mu is held, what is enabled without a loop is still to be launched.
ArmInv ==
    /\ \A r \in Runners : done[r] # NoLoop => enabled[r]
    /\ started => \A r \in registered : enabled[r] => r \in launching \/ done[r] # NoLoop

\* Control calls launch what they enable, and disable what they disarm.
LEMMA ControlKeepsArmInv ==
    ASSUME TypeOK, ArmInv, NEW r \in Runners, Control(r)
    PROVE  ArmInv'
<1>1. CASE Add(r)
    BY <1>1 DEF ArmInv, Add, LaunchedOnAdd, MuFree, runnerVars, TypeOK
<1>2. CASE LaunchLoop(r)
    <2>1. CASE MayLaunch(r)
        <3>1. NewLoop \in Loops /\ NewLoop # NoLoop
            BY <1>2, <2>1, NewLoopIsFree, GoroutineAssumption DEF LaunchLoop
        <3> QED
            BY <1>2, <2>1, <3>1 DEF ArmInv, LaunchLoop, TypeOK, managerVars
    <2>2. CASE ~MayLaunch(r)
        BY <1>2, <2>2 DEF ArmInv, LaunchLoop, MayLaunch, TypeOK, managerVars
    <2> QED
        BY <2>1, <2>2
<1>3. ASSUME NEW k \in Keys, ToggleOff(k, r) PROVE ArmInv'
    BY <1>3 DEF ArmInv, ToggleOff, DisableLoop, TypeOK, managerVars, muVars
<1>4. ASSUME NEW k \in Keys, ToggleOn(k, r) PROVE ArmInv'
    BY <1>4 DEF ArmInv, ToggleOn, MuFree, TypeOK, managerVars
<1>5. ASSUME NEW k \in Keys, RunNow(k, r) \/ StopWatcher(k, r) \/ Remove(k, r) PROVE ArmInv'
    BY <1>5 DEF ArmInv, RunNow, StopWatcher, Remove, managerVars, muVars, runnerVars
<1>6. CASE Teardown(r)
    BY <1>6 DEF ArmInv, Teardown, DisableLoop, TypeOK
<1> QED
    BY <1>1, <1>2, <1>3, <1>4, <1>5, <1>6 DEF Control

\* A loop that ends keeps r.done set, by its own channel or a closed one.
LEMMA LoopKeepsArmInv ==
    ASSUME TypeOK, ArmInv, NEW l \in Loops, LoopNext(l)
    PROVE  ArmInv'
<1>1. CASE LoopArm(l) \/ LoopTimer(l) \/ LoopFire(l)
    BY <1>1 DEF ArmInv, LoopArm, LoopTimer, LoopFire, managerVars, muVars, runnerVars
<1>2. CASE LoopPanic(l) \/ LoopExit(l)
    <2>1. LoopEnd(l) /\ UNCHANGED <<started, registered, launching, enabled>>
        BY <1>2 DEF LoopPanic, LoopExit, managerVars, muVars
    <2>2. l # NoLoop /\ DeadLoop # NoLoop /\ loop[l].r \in Runners
        BY GoroutineAssumption DEF TypeOK, LoopType
    <2>3. \A q \in Runners : done'[q] = NoLoop <=> done[q] = NoLoop
        BY <2>1, <2>2 DEF LoopEnd, TypeOK
    <2> QED
        BY <2>1, <2>3 DEF ArmInv, TypeOK
<1> QED
    BY <1>1, <1>2 DEF LoopNext

LEMMA ArmInvStep == TypeOK /\ ArmInv /\ [Next]_vars => ArmInv'
<1> SUFFICES ASSUME TypeOK, ArmInv, [Next]_vars PROVE ArmInv'
    OBVIOUS
<1>1. CASE Start
    BY <1>1 DEF ArmInv, Start, runnerVars
<1>2. CASE Stop \/ StopReturn \/ TeardownCancel
    BY <1>2 DEF ArmInv, Stop, StopReturn, TeardownCancel, managerVars, muVars, runnerVars
<1>3. ASSUME NEW s \in Sessions, RemoveAttachedForSession(s) PROVE ArmInv'
    BY <1>3 DEF ArmInv, RemoveAttachedForSession, managerVars, runnerVars
<1>4. ASSUME NEW f \in Fires, FireNext(f) PROVE ArmInv'
    BY <1>4 DEF ArmInv, FireNext, FireWork, AcquireSlot, AbortQueued, BeginFire,
       HostReturn, HostPanic, RecordOutcome, Notify, FireExit, managerVars, muVars, runnerVars
<1>5. CASE UNCHANGED vars
    BY <1>5 DEF ArmInv, vars
<1> QED
    BY <1>1, <1>2, <1>3, <1>4, <1>5, ControlKeepsArmInv, LoopKeepsArmInv DEF Next

\* In whatever order Add, Start and Toggle come, once the manager is started and
\* m.mu is free exactly the enabled registered watchers have a loop of their own.
THEOREM EnabledHaveLoops == Spec => []EnabledIsArmed
<1>1. Init => ArmInv
    BY DEF Init, ArmInv
<1>2. TypeOK /\ ArmInv => EnabledIsArmed
    BY DEF TypeOK, ArmInv, EnabledIsArmed, MuFree
<1> QED
    BY <1>1, <1>2, ArmInvStep, TypeCorrect, PTL DEF Spec

-----------------------------------------------------------------------------
(* Addressing a watcher.                                                     *)

\* m.runners is a map: two registered watchers have two ids.
IdsDiffer == \A r, q \in registered : Id[r] = Id[q] => r = q

LEMMA IdsDifferStep == IdsDiffer /\ [Next]_vars => IdsDiffer'
<1> SUFFICES ASSUME IdsDiffer, [Next]_vars PROVE IdsDiffer'
    OBVIOUS
<1>1. ASSUME registered' \subseteq registered PROVE IdsDiffer'
    BY <1>1 DEF IdsDiffer
<1>2. ASSUME NEW r \in Runners, Add(r) PROVE IdsDiffer'
    BY <1>2 DEF Add, ById, IdsDiffer
<1>3. ASSUME NEW r \in Runners, Control(r), ~Add(r) PROVE registered' \subseteq registered
    BY <1>3 DEF Control, LaunchLoop, ToggleOff, ToggleOn, RunNow, StopWatcher, Remove, Teardown,
       managerVars
<1>4. ASSUME NEW f \in Fires, FireNext(f) PROVE registered' = registered
    BY <1>4 DEF FireNext, FireWork, AcquireSlot, AbortQueued, BeginFire, HostReturn, HostPanic,
       RecordOutcome, Notify, FireExit, managerVars
<1>5. ASSUME NEW l \in Loops, LoopNext(l) PROVE registered' = registered
    BY <1>5 DEF LoopNext, LoopArm, LoopPanic, LoopTimer, LoopFire, LoopExit, managerVars
<1>6. CASE Start \/ Stop \/ StopReturn \/ TeardownCancel \/ UNCHANGED vars
           \/ \E s \in Sessions : RemoveAttachedForSession(s)
    BY <1>1, <1>6 DEF Start, Stop, StopReturn, TeardownCancel, vars, RemoveAttachedForSession,
       managerVars
<1> QED
    BY <1>1, <1>2, <1>3, <1>4, <1>5, <1>6 DEF Next

\* resolveLocked: whatever names the watchers carry, each is reached by its own id.
THEOREM IdsResolve == Spec => []ExactIdWins
<1>1. Init => IdsDiffer
    BY DEF Init, IdsDiffer
<1>2. IdsDiffer => ExactIdWins
    <2> SUFFICES ASSUME IdsDiffer, NEW r \in registered PROVE Resolves(Id[r], r)
        BY DEF ExactIdWins
    <2>1. ById(Id[r]) = {r}
        BY DEF ById, IdsDiffer
    <2> QED
        BY <2>1 DEF Resolves
<1> QED
    BY <1>1, <1>2, IdsDifferStep, PTL DEF Spec
=============================================================================
