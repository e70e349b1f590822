------------------------- MODULE RemoteTurnsProofs -------------------------
(***************************************************************************)
(* A daemon's busy gate and an attached window's queue, for every buffer,  *)
(* budget of nudges and number of messages, losses and workers.            *)
(***************************************************************************)
EXTENDS RemoteTurns, FiniteSetTheorems, TLAPS

-----------------------------------------------------------------------------
(* The gate is held by one turn, from its dispatch to its onDone.          *)

GateInv ==
  \/ gate = FALSE /\ turns = {}
  \/ gate = TRUE /\ \E t : turns = {t}

LEMMA GateInvHolds == GateInv => GateSpansTurn
<1> SUFFICES ASSUME GateInv
             PROVE  GateSpansTurn
  OBVIOUS
<1>1. CASE turns = {}
  <2>1. gate = (turns # {})
    BY <1>1, Zenon DEF GateInv
  <2>2. Cardinality(turns) = 0
    BY <1>1, FS_EmptySet
  <2> QED
    BY <2>1, <2>2 DEF GateSpansTurn
<1>2. ASSUME NEW t, turns = {t}, gate = TRUE
      PROVE  GateSpansTurn
  <2>1. gate = (turns # {})
    BY <1>2, Zenon
  <2>2. Cardinality(turns) = 1
    BY <1>2, FS_Singleton
  <2> QED
    BY <2>1, <2>2 DEF GateSpansTurn
<1> QED
  BY <1>1, <1>2 DEF GateInv

LEMMA StepGateInv == GateInv /\ [Next]_vars => GateInv'
<1> SUFFICES ASSUME GateInv, [Next]_vars
             PROVE  GateInv'
  OBVIOUS
<1>1. CASE TurnStep
  <2>1. PICK t \in turns : Begin(t) \/ Answer(t) \/ RecordPlan(t) \/ OnDone(t)
    BY <1>1 DEF TurnStep
  <2>2. turns = {t} /\ gate = TRUE
    BY DEF GateInv
  <2>3. CASE OnDone(t)
    BY <2>2, <2>3 DEF OnDone, GateInv
  <2>4. CASE Begin(t) \/ Answer(t) \/ RecordPlan(t)
    <3>1. gate' = gate /\ \E u : turns' = (turns \ {t}) \cup {u}
      BY <2>4 DEF Begin, Answer, RecordPlan, Step
    <3> QED
      BY <2>2, <3>1 DEF GateInv
  <2> QED
    BY <2>1, <2>3, <2>4
<1>2. CASE \E kind \in Kinds : Arrive(kind)
  <2>1. PICK kind \in Kinds : Arrive(kind)
    BY <1>2
  <2>2. CASE Refuses(kind)
    BY <2>1, <2>2 DEF Arrive, GateInv
  <2>3. CASE ~Refuses(kind)
    <3>1. turns = {}
      BY <2>3 DEF Refuses, GateInv
    <3> QED
      BY <2>1, <2>3, <3>1 DEF Arrive, Accept, GateInv
  <2> QED
    BY <2>2, <2>3
<1>3. CASE StopArrives
  <2>1. turns = {} => turns' = {}
    BY <1>3 DEF StopArrives
  <2>2. ASSUME NEW t, turns = {t}
        PROVE  turns' = {IF t.phase = "loop" THEN [t EXCEPT !.phase = "cancelled"] ELSE t}
    BY <1>3, <2>2, Zenon DEF StopArrives
  <2>3. gate' = gate
    BY <1>3 DEF StopArrives
  <2> QED
    BY <2>1, <2>2, <2>3 DEF GateInv
<1>4. CASE \/ Spawning \/ \E kind \in Kinds : RequestLost(kind) \/ \E st \in States : Reply(kind, st)
           \/ Background \/ Consume \/ LoseStream \/ Unsubscribe \/ Reconnect \/ Verdict \/ User \/ Others
           \/ UNCHANGED vars
  <2>1. UNCHANGED <<gate, turns>>
    BY <1>4 DEF Spawning, SpawnWorker, RequestLost, Reply, Background, WorkerEnds, AnnounceIdle, Consume, LoseStream,
                Unsubscribe, Reconnect, Reopen, NotifyRestored, Verdict, User, Submit, StopTurn, ApprovePlan,
                TogglePlanMode, Others, OtherPost, OtherRejectsPlan, vars, daemon
  <2> QED
    BY <2>1 DEF GateInv
<1> QED
  BY <1>1, <1>2, <1>3, <1>4 DEF Next, Request

\* The gate is held from the dispatch of a turn to its onDone and by that turn,
\* whatever the stream loses and whoever else sends (handleMessage).
THEOREM GateHeldByItsTurn == Spec => []GateSpansTurn
<1>1. Init => GateInv
  BY DEF Init, GateInv
<1> QED
  BY <1>1, StepGateInv, GateInvHolds, PTL DEF Spec

-----------------------------------------------------------------------------
(* The window.                                                             *)

\* The ways in which a step touches the window's queue and its two flags.
LEMMA ApplyEndKeepsQueue == ASSUME QueueNotStranded, NEW ps, ApplyEnd(ps) PROVE QueueNotStranded'
BY DEF QueueNotStranded, ApplyEnd, EnterIdle, DrainQueue, MaybeSupervise, Settle, SendOut

LEMMA ApplyKeepsQueue == ASSUME QueueNotStranded, NEW e, Apply(e) PROVE QueueNotStranded'
<1>1. CASE e = "off" /\ ApplyOff(posts)
  <2>1. CASE ~busy /\ background
    <3>1. EnterIdle(posts)
      BY <1>1, <2>1 DEF ApplyOff
    <3> QED
      BY <3>1 DEF EnterIdle, DrainQueue, MaybeSupervise, SendOut, QueueNotStranded
  <2>2. CASE ~(~busy /\ background)
    <3>1. UNCHANGED <<busy, pending>>
      BY <1>1, <2>2 DEF ApplyOff, Settle
    <3> QED
      BY <2>2, <3>1, Zenon DEF QueueNotStranded
  <2> QED
    BY <2>1, <2>2
<1> QED
  BY <1>1, ApplyEndKeepsQueue DEF Apply, QueueNotStranded, Settle

LEMMA StepQueue == QueueNotStranded /\ [Next]_vars => QueueNotStranded'
<1> SUFFICES ASSUME QueueNotStranded, [Next]_vars
             PROVE  QueueNotStranded'
  OBVIOUS
<1>1. CASE Consume
  BY <1>1, ApplyKeepsQueue DEF Consume
<1>2. ASSUME NEW kind \in Kinds, NEW st \in States, Reply(kind, st)
      PROVE  QueueNotStranded'
  BY <1>2, ApplyEndKeepsQueue DEF Reply, QueueNotStranded, window
<1>3. CASE User \/ Verdict
  BY <1>3 DEF User, Submit, StopTurn, ApprovePlan, TogglePlanMode, Verdict, SendOut, QueueNotStranded
<1>4. CASE \/ TurnStep \/ Spawning \/ \E kind \in Kinds : Arrive(kind) \/ RequestLost(kind)
           \/ StopArrives \/ Background \/ LoseStream \/ Unsubscribe \/ Reconnect \/ Others \/ UNCHANGED vars
  <2>1. UNCHANGED window
    BY <1>4 DEF TurnStep, Begin, Answer, RecordPlan, OnDone, Spawning, SpawnWorker, Arrive, RequestLost, StopArrives,
                Background, WorkerEnds, AnnounceIdle, LoseStream, Unsubscribe, Reconnect, Reopen, NotifyRestored,
                Others, OtherPost, OtherRejectsPlan, vars
  <2> QED
    BY <2>1 DEF QueueNotStranded, window
<1> QED
  BY <1>1, <1>2, <1>3, <1>4 DEF Next, Request

\* A message waits in the window's queue only while something is under way that
\* will look at the queue again (submit, applyThinking).
THEOREM QueuedMessageGoesOut == Spec => []QueueNotStranded
<1>1. Init => QueueNotStranded
  BY DEF Init, QueueNotStranded
<1> QED
  BY <1>1, StepQueue, PTL DEF Spec

\* The window's budget counts what was sent since the last user message.
BudgetInv == nudges = sinceUser /\ sinceUser \in 0..MaxNudges

LEMMA SendOutKeepsBudget ==
  ASSUME MaxNudges \in Nat, BudgetInv, NEW ps, NEW kind \in {"user", "queued", "approve"}, SendOut(ps, kind)
  PROVE  BudgetInv'
BY DEF BudgetInv, SendOut, BudgetAfter

LEMMA IdleKeepsBudget ==
  ASSUME MaxNudges \in Nat, BudgetInv, NEW ps, ApplyEnd(ps) \/ ApplyOff(ps)
  PROVE  BudgetInv'
<1>1. UNCHANGED <<nudges, sinceUser>> \/ SendOut(ps, "queued")
  BY DEF ApplyEnd, ApplyOff, EnterIdle, DrainQueue, MaybeSupervise, Settle
<1> QED
  BY <1>1, SendOutKeepsBudget DEF BudgetInv

LEMMA StepBudgetInv == MaxNudges \in Nat /\ BudgetInv /\ [Next]_vars => BudgetInv'
<1> SUFFICES ASSUME MaxNudges \in Nat, BudgetInv, [Next]_vars
             PROVE  BudgetInv'
  OBVIOUS
<1>1. CASE Consume
  <2>1. UNCHANGED <<nudges, sinceUser>> \/ ApplyEnd(posts) \/ ApplyOff(posts)
    BY <1>1 DEF Consume, Apply, Settle
  <2> QED
    BY <2>1, IdleKeepsBudget DEF BudgetInv
<1>2. ASSUME NEW kind \in Kinds, NEW st \in States, Reply(kind, st)
      PROVE  BudgetInv'
  BY <1>2, IdleKeepsBudget DEF Reply, BudgetInv, window
<1>3. CASE User
  BY <1>3, SendOutKeepsBudget DEF User, Submit, StopTurn, ApprovePlan, TogglePlanMode, BudgetInv, history
<1>4. CASE Verdict
  <2>1. CASE UNCHANGED <<nudges, sinceUser>> \/ (nudges' = 0 /\ sinceUser' = 0)
    BY <2>1 DEF BudgetInv
  <2>2. CASE nudges < MaxNudges /\ SendOut(posts, "nudge")
    BY <2>2 DEF BudgetInv, SendOut, BudgetAfter
  <2> QED
    BY <1>4, <2>1, <2>2 DEF Verdict
<1>5. CASE \/ TurnStep \/ Spawning \/ \E kind \in Kinds : Arrive(kind) \/ RequestLost(kind)
           \/ StopArrives \/ Background \/ LoseStream \/ Unsubscribe \/ Reconnect \/ Others \/ UNCHANGED vars
  <2>1. UNCHANGED <<nudges, sinceUser>>
    BY <1>5 DEF TurnStep, Begin, Answer, RecordPlan, OnDone, Spawning, SpawnWorker, Arrive, RequestLost, StopArrives,
                Background, WorkerEnds, AnnounceIdle, LoseStream, Unsubscribe, Reconnect, Reopen, NotifyRestored,
                Others, OtherPost, OtherRejectsPlan, vars, window, history
  <2> QED
    BY <2>1 DEF BudgetInv
<1> QED
  BY <1>1, <1>2, <1>3, <1>4, <1>5 DEF Next, Request

\* No more nudges go out in a row than the budget has, since each is counted
\* when it is sent and only a message of the user starts anew.
THEOREM NudgesWithinBudget == Spec => []NudgesBounded
<1>1. MaxNudges \in Nat
  BY BoundsAssumption
<1>2. Init => BudgetInv
  BY <1>1 DEF Init, BudgetInv
<1>3. BudgetInv => NudgesBounded
  BY <1>1 DEF BudgetInv, NudgesBounded
<1> QED
  BY <1>1, <1>2, <1>3, StepBudgetInv, PTL DEF Spec
=============================================================================
