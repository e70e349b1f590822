--------------------------- MODULE SubAgentsProofs ---------------------------
(***************************************************************************)
(* The places of the limiter and the reports of the ends of workers, for   *)
(* any number of workers, any limits and any capacity of the channel.      *)
(*                                                                         *)
(* The limiter: whoever works holds a place, and who ends or waits for a   *)
(* task has given it back.  The reports: the end of a worker lies in the   *)
(* channel or in what spilled over until the coordinator takes it from     *)
(* there, and a sequence of events has it as often as it was put in.       *)
(***************************************************************************)
EXTENDS SubAgents, FiniteSetTheorems, FunctionTheorems, TLAPS

\* The launch of a worker: it is new, and of the kind that was asked for.
LEMMA FreshIsUnborn ==
  ASSUME NEW kind, \E w \in kind : pc[w] = "unborn"
  PROVE  Fresh(kind) \in kind /\ pc[Fresh(kind)] = "unborn"
BY DEF Fresh

-----------------------------------------------------------------------------
(* The limiter.                                                            *)

WithoutPlace == {"unborn", "removing", "ended"}

\* What the limiter counts, and who holds what.
Counts == held \subseteq Workers /\ slots = Cardinality(held) /\ slots <= MaxConcurrent
Holders ==
  /\ pc \in [Workers -> PC]
  /\ \A w \in held : pc[w] \notin WithoutPlace
  /\ \A w \in Detached : pc[w] \notin WithoutPlace \cup {"idle"} => w \in held

SlotsInv == Counts /\ Holders

LEMMA SlotsInvHolds == SlotsInv => SlotsExact
BY DEF SlotsInv, Counts, Holders, SlotsExact, WithoutPlace

LEMMA InitSlotsInv == Init => SlotsInv
<1> SUFFICES ASSUME Init
             PROVE  SlotsInv
  OBVIOUS
<1>1. Counts
  BY FS_EmptySet, WorkersAssumption DEF Init, Counts
<1>2. Holders
  BY DEF Init, Holders, WithoutPlace, PC, Detached, Workers
<1> QED
  BY <1>1, <1>2 DEF SlotsInv

\* A place that is taken was free; one that is given back was held.
LEMMA AcquireCounts ==
  ASSUME Counts, NEW w \in Workers \ held, tryAcquire, Acquire(w)
  PROVE  Counts'
<1>1. IsFiniteSet(held)
  BY WorkersAssumption, FS_Subset DEF Counts
<1>2. Cardinality(held \cup {w}) = Cardinality(held) + 1
  BY <1>1, FS_AddElement
<1>3. Cardinality(held) \in Nat
  BY <1>1, FS_CardinalityType
<1> QED
  BY <1>2, <1>3, WorkersAssumption DEF Counts, tryAcquire, Acquire

LEMMA ReleaseCounts ==
  ASSUME Counts, NEW w \in Workers, Release(w)
  PROVE  Counts'
<1>1. IsFiniteSet(held)
  BY WorkersAssumption, FS_Subset DEF Counts
<1>2. Cardinality(held) \in Nat
  BY <1>1, FS_CardinalityType
<1>3. CASE w \in held
  <2>1. Cardinality(held \ {w}) = Cardinality(held) - 1
    BY <1>1, <1>3, FS_RemoveElement
  <2>2. Cardinality(held) # 0
    BY <1>1, <1>3, FS_EmptySet
  <2> QED
    BY <1>2, <1>3, <2>1, <2>2, WorkersAssumption DEF Counts, Release
<1>4. CASE w \notin held
  <2>1. held \ {w} = held
    BY <1>4
  <2> QED
    BY <1>4, <2>1 DEF Counts, Release
<1> QED
  BY <1>3, <1>4

\* A worker moves: what it holds fits where it is then.
LEMMA MovesHolders ==
  ASSUME Holders, held \subseteq Workers, NEW w \in Workers, NEW place \in PC, Goto(w, place),
         held' \ {w} = held \ {w},
         w \in held' => place \notin WithoutPlace,
         w \in Detached /\ place \notin WithoutPlace \cup {"idle"} => w \in held'
  PROVE  Holders'
BY DEF Holders, Goto, Workers, Detached

LEMMA LaunchingKeepsSlotsInv ==
  ASSUME SlotsInv, NEW a \in Agents,
         StartCall(a) \/ SpawnSubAgent(a) \/ \E kind \in {Interactive, Background} : Launch(a, kind)
  PROVE  SlotsInv'
<1>1. PICK w \in Workers :
         /\ pc[w] = "unborn" /\ Goto(w, "admitted")
         /\ \/ tryAcquire /\ Acquire(w)
            \/ w \in OneShot /\ UNCHANGED <<slots, held>>
  <2>1. CASE StartCall(a)
    BY <2>1, FreshIsUnborn DEF StartCall, Workers
  <2>2. CASE SpawnSubAgent(a)
    BY <2>2, FreshIsUnborn DEF SpawnSubAgent, Workers
  <2>3. ASSUME NEW kind \in {Interactive, Background}, Launch(a, kind)
        PROVE  pc[Fresh(kind)] = "unborn" /\ Goto(Fresh(kind), "admitted") /\ tryAcquire /\ Acquire(Fresh(kind))
                 /\ Fresh(kind) \in Workers
    BY <2>3, FreshIsUnborn DEF Launch, Workers
  <2> QED
    BY <2>1, <2>2, <2>3
<1>2. w \notin held
  BY <1>1 DEF SlotsInv, Holders, WithoutPlace
<1>3. Counts'
  BY <1>1, <1>2, AcquireCounts DEF SlotsInv, Counts
<1>4. Holders'
  BY <1>1, <1>2, MovesHolders, WorkersAssumption DEF SlotsInv, Counts, Acquire, WithoutPlace, PC
<1> QED
  BY <1>3, <1>4 DEF SlotsInv

\* Steps of a worker that leave the limiter alone.
Stays(w) ==
  \/ Count(w) \/ AddSubAgent(w) \/ Register(w) \/ EnterLoop(w) \/ TakeAnswer(w) \/ GiveUp(w)
  \/ Finish(w) \/ Spill(w) \/ LoopEnds(w) \/ Ask(w)

LEMMA StepSlotsInv == SlotsInv /\ [Next]_vars => SlotsInv'
<1> SUFFICES ASSUME SlotsInv, [Next]_vars
             PROVE  SlotsInv'
  OBVIOUS
<1>0. Counts /\ Holders /\ held \subseteq Workers
  BY DEF SlotsInv, Counts
<1>1. ASSUME NEW w \in Workers, Stays(w)
      PROVE  SlotsInv'
  <2>1. UNCHANGED <<slots, held>>
    BY <1>1 DEF Stays, Count, AddSubAgent, Register, EnterLoop, TakeAnswer, GiveUp, Finish, Spill, LoopEnds, Ask
  <2>2. \E place \in PC \ WithoutPlace :
          /\ Goto(w, place) /\ pc[w] \notin WithoutPlace /\ (place = "idle" => w \in OneShot)
          /\ (pc[w] = "idle" => w \in OneShot)
    BY <1>1 DEF Stays, Count, AddSubAgent, Register, EnterLoop, TakeAnswer, GiveUp, Finish, Spill, LoopEnds, Ask,
                OnFull, PC, WithoutPlace
  <2> QED
    BY <1>0, <2>1, <2>2, MovesHolders, WorkersAssumption DEF SlotsInv, Counts, Holders
<1>2. ASSUME NEW w \in Workers, Refuse(w) \/ GiveBack(w) \/ CallEnds(w)
      PROVE  SlotsInv'
  <2>1. CASE Refuse(w) /\ w \in OneShot
    <3>1. Goto(w, "idle") /\ UNCHANGED <<slots, held>> /\ pc[w] = "admitted"
      BY <2>1 DEF Refuse
    <3> QED
      BY <1>0, <2>1, <3>1, MovesHolders, WorkersAssumption DEF SlotsInv, Counts, PC, WithoutPlace
  <2>2. CASE ~(Refuse(w) /\ w \in OneShot)
    <3>1. Release(w) /\ \E place \in {"removing", "ended"} : Goto(w, place)
      BY <1>2, <2>2 DEF Refuse, GiveBack, CallEnds
    <3> QED
      BY <1>0, <3>1, MovesHolders, ReleaseCounts DEF SlotsInv, Release, PC, WithoutPlace
  <2> QED
    BY <2>1, <2>2
<1>3. ASSUME NEW w \in Workers, RemoveBackground(w)
      PROVE  SlotsInv'
  BY <1>0, <1>3, MovesHolders DEF RemoveBackground, SlotsInv, Counts, Holders, PC, WithoutPlace
<1>4. ASSUME NEW a \in Agents,
             StartCall(a) \/ SpawnSubAgent(a) \/ \E kind \in {Interactive, Background} : Launch(a, kind)
      PROVE  SlotsInv'
  BY <1>4, LaunchingKeepsSlotsInv
<1>5. CASE \/ \E a \in Agents : StopAgent(a) \/ \E n \in 1 .. BatchMax : StartBatch(a, n)
           \/ \E w \in Workers : Send(w) \/ TerminateInteractiveAgent(w)
           \/ Wait \/ Stop \/ UNCHANGED vars
  <2>1. UNCHANGED <<slots, held, pc>>
    BY <1>5 DEF StopAgent, StartBatch, Send, TerminateInteractiveAgent, Wait, Receive, LookPending, PopPending, TimeOut,
                Stop, tree, vars
  <2> QED
    BY <2>1 DEF SlotsInv, Counts, Holders
<1> QED
  BY <1>1, <1>2, <1>3, <1>4, <1>5 DEF Next, WorkerStep, Stays

\* The limiter's count is the number of workers that hold a place, never more
\* than the limit, and whoever works in the background or in a conversation
\* holds one (tryAcquire, release).
THEOREM LimiterCountsHolders == Spec => []SlotsExact
BY InitSlotsInv, StepSlotsInv, SlotsInvHolds, PTL DEF Spec

-----------------------------------------------------------------------------
(* The places of an element in a sequence.                                  *)

Occurs(x, seq) == {i \in DOMAIN seq : seq[i] = x}
One(b) == IF b THEN 1 ELSE 0

LEMMA OccursFinite ==
  ASSUME NEW S, NEW q \in Seq(S), NEW x
  PROVE  IsFiniteSet(Occurs(x, q)) /\ Cardinality(Occurs(x, q)) \in Nat
<1>1. Occurs(x, q) \subseteq 1 .. Len(q) /\ IsFiniteSet(1 .. Len(q))
  BY FS_Interval DEF Occurs
<1> QED
  BY <1>1, FS_Subset, FS_CardinalityType

LEMMA OccursAppend ==
  ASSUME NEW S, NEW q \in Seq(S), NEW y \in S, NEW x
  PROVE  Cardinality(Occurs(x, Append(q, y))) = Cardinality(Occurs(x, q)) + One(x = y)
<1> DEFINE n == Len(q) + 1
<1>1. /\ DOMAIN q = 1 .. Len(q) /\ DOMAIN Append(q, y) = 1 .. n /\ Append(q, y)[n] = y
      /\ \A i \in 1 .. Len(q) : Append(q, y)[i] = q[i]
      /\ n \in Nat
  OBVIOUS
<1>2. n \notin Occurs(x, q)
  BY <1>1 DEF Occurs
<1>3. CASE x = y
  <2>1. Occurs(x, Append(q, y)) = Occurs(x, q) \cup {n}
    BY <1>1, <1>3 DEF Occurs
  <2> QED
    BY <1>2, <1>3, <2>1, OccursFinite, FS_AddElement DEF One
<1>4. CASE x # y
  <2>1. Occurs(x, Append(q, y)) = Occurs(x, q)
    BY <1>1, <1>4 DEF Occurs
  <2> QED
    BY <1>4, <2>1, OccursFinite DEF One
<1> QED
  BY <1>3, <1>4

LEMMA OccursTail ==
  ASSUME NEW S, NEW q \in Seq(S), q # <<>>, NEW x
  PROVE  Cardinality(Occurs(x, q)) = Cardinality(Occurs(x, Tail(q))) + One(x = Head(q))
<1> DEFINE rest == Occurs(x, q) \ {1}
           f == [i \in rest |-> i - 1]
<1>1. /\ DOMAIN q = 1 .. Len(q) /\ DOMAIN Tail(q) = 1 .. (Len(q) - 1) /\ Len(q) \in Nat \ {0}
      /\ Head(q) = q[1] /\ \A i \in 1 .. (Len(q) - 1) : Tail(q)[i] = q[i + 1]
      /\ Tail(q) \in Seq(S)
  OBVIOUS
<1>2. \A i \in rest : i - 1 \in Occurs(x, Tail(q))
  BY <1>1 DEF Occurs
<1>3. \A j \in Occurs(x, Tail(q)) : j + 1 \in rest /\ j \in Nat
  BY <1>1 DEF Occurs
<1>4. \A i \in rest : i \in Nat
  BY <1>1 DEF Occurs
<1>5. ExistsBijection(rest, Occurs(x, Tail(q)))
  <2>1. f \in [rest -> Occurs(x, Tail(q))]
    BY <1>2
  <2>2. \A i, j \in rest : f[i] = f[j] => i = j
    BY <1>4
  <2>3. \A j \in Occurs(x, Tail(q)) : \E i \in rest : f[i] = j
    <3> SUFFICES ASSUME NEW j \in Occurs(x, Tail(q))
                 PROVE  \E i \in rest : f[i] = j
      OBVIOUS
    <3>1. j + 1 \in rest /\ f[j + 1] = j
      BY <1>3
    <3> QED
      BY <3>1
  <2> HIDE DEF f
  <2>4. f \in Bijection(rest, Occurs(x, Tail(q)))
    BY <2>1, <2>2, <2>3, Fun_IsBij
  <2> QED
    BY <2>4, Fun_ExistsBij
<1>6. IsFiniteSet(rest) /\ Cardinality(rest) = Cardinality(Occurs(x, Tail(q)))
  <2>1. IsFiniteSet(rest)
    BY OccursFinite, FS_Subset
  <2> QED
    BY <1>5, <2>1, FS_Bijection
<1>7. CASE x = Head(q)
  <2>1. 1 \in Occurs(x, q)
    BY <1>1, <1>7 DEF Occurs
  <2>2. Cardinality(rest) = Cardinality(Occurs(x, q)) - 1
    BY <2>1, OccursFinite, FS_RemoveElement
  <2> QED
    BY <1>6, <1>7, <2>2, OccursFinite DEF One
<1>8. CASE x # Head(q)
  <2>1. rest = Occurs(x, q)
    BY <1>1, <1>8 DEF Occurs
  <2>2. Cardinality(Occurs(x, Tail(q))) \in Nat
    BY <1>1, OccursFinite
  <2> HIDE DEF rest
  <2> QED
    BY <1>6, <1>8, <2>1, <2>2 DEF One
<1> QED
  BY <1>7, <1>8

-----------------------------------------------------------------------------
(* The ends of workers.                                                    *)

EventRec == [from : Workers, type : {"clarify", "terminal"}]
Reported(w) == Past(w) /\ parent[w] # None

EndType ==
  /\ events \in Seq(EventRec) /\ pending \in Seq(EventRec) /\ heard \in [Interactive -> Nat]
  /\ pc \in [Workers -> PC] /\ parent \in [Workers -> Agents \cup {None}]

\* A worker on its way has a parent; only a background worker has a result to remove,
\* only a one-shot worker is idle.
Kin ==
  \A w \in Workers :
    /\ pc[w] \notin {"unborn", "ended"} => parent[w] # None
    /\ pc[w] = "removing" => w \in Background
    /\ pc[w] = "idle" => w \in OneShot
    /\ pc[w] = "spill" => w \notin Background

EndInv == EndType /\ Kin /\ EndReportedOnce

LEMMA InitEndInv == Init => EndInv
<1> SUFFICES ASSUME Init
             PROVE  EndInv
  OBVIOUS
<1>1. EndType /\ Kin
  BY DEF Init, EndType, Kin, PC
<1>2. \A w \in Interactive : Ends(w, events) = 0 /\ Ends(w, pending) = 0 /\ heard[w] = 0 /\ ~Past(w)
  <2>1. \A x : {i \in DOMAIN <<>> : <<>>[i] = x} = {}
    OBVIOUS
  <2> QED
    BY <2>1, FS_EmptySet DEF Init, Ends, Past, Workers
<1>3. EndReportedOnce
  BY <1>2 DEF EndReportedOnce
<1> QED
  BY <1>1, <1>3 DEF EndInv

\* Events come and go.
LEMMA EventsIn ==
  ASSUME NEW q \in Seq(EventRec)
  PROVE  (\A e \in EventRec : Append(q, e) \in Seq(EventRec)) /\ (q # <<>> => Tail(q) \in Seq(EventRec))
OBVIOUS

LEMMA EventOf ==
  ASSUME NEW w \in Workers, NEW type \in {"clarify", "terminal"}
  PROVE  /\ Event(w, type) \in EventRec
         /\ \A v : Event(v, "terminal") = Event(w, type) <=> (v = w /\ type = "terminal")
BY DEF Event, EventRec

\* What an event does to the count of the ends of a worker, where it is put and where it
\* is taken away.
LEMMA EndsType ==
  ASSUME NEW q \in Seq(EventRec), NEW w
  PROVE  Ends(w, q) \in Nat
BY OccursFinite DEF Ends, Occurs

LEMMA EndsPut ==
  ASSUME NEW q \in Seq(EventRec), NEW e \in EventRec, NEW w
  PROVE  Ends(w, Append(q, e)) = Ends(w, q) + One(Event(w, "terminal") = e)
<1>1. \A r : Ends(w, r) = Cardinality(Occurs(Event(w, "terminal"), r))
  BY DEF Ends, Occurs
<1> QED
  BY <1>1, OccursAppend

LEMMA EndsTake ==
  ASSUME NEW q \in Seq(EventRec), q # <<>>, NEW w
  PROVE  Ends(w, q) = Ends(w, Tail(q)) + One(Event(w, "terminal") = Head(q))
<1>1. \A r : Ends(w, r) = Cardinality(Occurs(Event(w, "terminal"), r))
  BY DEF Ends, Occurs
<1> QED
  BY <1>1, OccursTail

\* A worker moves between places that are not an end, or between places that are.
LEMMA QuietMove ==
  ASSUME EndInv, NEW w \in Workers, NEW place \in PC, Goto(w, place), UNCHANGED <<parent, talk>>,
         pc[w] \notin {"unborn", "ended"},
         w \in Interactive => (pc[w] = "releasing" <=> place \in {"releasing", "ended"}),
         place = "removing" => w \in Background,
         place = "idle" => w \in OneShot,
         place = "spill" => w \notin Background
  PROVE  EndInv'
<1>1. EndType'
  BY DEF EndInv, EndType, Goto, talk
<1>2. Kin'
  BY DEF EndInv, EndType, Kin, Goto
<1>3. \A v \in Interactive : Reported(v)' <=> Reported(v)
  BY DEF EndInv, EndType, Goto, Reported, Past, Workers
<1>4. EndReportedOnce'
  BY <1>3, Zenon DEF EndInv, EndReportedOnce, Reported, talk
<1> QED
  BY <1>1, <1>2, <1>4 DEF EndInv

LEMMA LaunchQuiet ==
  ASSUME EndInv, NEW a \in Agents,
         StartCall(a) \/ SpawnSubAgent(a) \/ \E kind \in {Interactive, Background} : Launch(a, kind)
  PROVE  EndInv'
<1>1. PICK w \in Workers :
         /\ pc[w] = "unborn" /\ Goto(w, "admitted") /\ parent' = [parent EXCEPT ![w] = a] /\ UNCHANGED talk
  <2>1. CASE StartCall(a)
    BY <2>1, FreshIsUnborn DEF StartCall, Workers
  <2>2. CASE SpawnSubAgent(a)
    BY <2>2, FreshIsUnborn DEF SpawnSubAgent, Workers
  <2>3. ASSUME NEW kind \in {Interactive, Background}, Launch(a, kind)
        PROVE  pc[Fresh(kind)] = "unborn" /\ Goto(Fresh(kind), "admitted") /\ Fresh(kind) \in Workers
               /\ parent' = [parent EXCEPT ![Fresh(kind)] = a] /\ UNCHANGED talk
    BY <2>3, FreshIsUnborn DEF Launch, Workers
  <2> QED
    BY <2>1, <2>2, <2>3
<1>2. EndType'
  BY <1>1 DEF EndInv, EndType, Goto, talk, PC
<1>3. a # None
  BY WorkersAssumption
<1>4. Kin'
  BY <1>1, <1>3 DEF EndInv, EndType, Kin, Goto
<1>5. \A v \in Interactive : Reported(v)' <=> Reported(v)
  BY <1>1 DEF EndInv, EndType, Goto, Reported, Past, Workers
<1>6. EndReportedOnce'
  BY <1>1, <1>5, Zenon DEF EndInv, EndReportedOnce, Reported, talk
<1> QED
  BY <1>2, <1>4, <1>6 DEF EndInv

\* A worker ends: its event is put in the channel or, later, beside it.
LEMMA EndIsPut ==
  ASSUME EndInv, NEW w \in Workers \ Background, pc[w] \in {"finishing", "spill"}, Goto(w, "releasing"),
         UNCHANGED <<parent, heard>>,
         \/ events' = Append(events, Event(w, "terminal")) /\ pending' = pending
         \/ pending' = Append(pending, Event(w, "terminal")) /\ events' = events
  PROVE  EndInv'
<1> DEFINE e == Event(w, "terminal")
<1>0. EndType /\ Kin
  BY DEF EndInv
<1>9. (events' = Append(events, e) /\ pending' = pending) \/ (pending' = Append(pending, e) /\ events' = events)
  OBVIOUS
<1>1. e \in EventRec /\ \A v : One(Event(v, "terminal") = e) = IF v = w THEN 1 ELSE 0
  BY EventOf DEF One
<1>2. EndType' /\ Kin'
  <2>1. events' \in Seq(EventRec) /\ pending' \in Seq(EventRec)
    <3>1. events \in Seq(EventRec) /\ pending \in Seq(EventRec)
      BY <1>0 DEF EndType
    <3>2. Append(events, e) \in Seq(EventRec) /\ Append(pending, e) \in Seq(EventRec)
      BY <1>1, <3>1, EventsIn
    <3> HIDE DEF e
    <3> QED
      BY <3>1, <3>2, <1>9
  <2> QED
    BY <1>0, <2>1 DEF EndType, Kin, Goto, PC
<1>3. ASSUME NEW v \in Interactive
      PROVE  Ends(v, events') + Ends(v, pending') + heard'[v] = IF Past(v)' /\ parent'[v] # None THEN 1 ELSE 0
  <2>1. /\ Ends(v, events) \in Nat /\ Ends(v, pending) \in Nat /\ heard[v] \in Nat
        /\ Ends(v, events) + Ends(v, pending) + heard[v] = IF Past(v) /\ parent[v] # None THEN 1 ELSE 0
    BY <1>0, EndsType DEF EndInv, EndType, EndReportedOnce
  <2>2. Ends(v, events') + Ends(v, pending') = Ends(v, events) + Ends(v, pending) + (IF v = w THEN 1 ELSE 0)
    <3>1. Ends(v, Append(events, e)) = Ends(v, events) + (IF v = w THEN 1 ELSE 0)
      BY <1>0, <1>1, EndsPut DEF EndType
    <3>2. Ends(v, Append(pending, e)) = Ends(v, pending) + (IF v = w THEN 1 ELSE 0)
      BY <1>0, <1>1, EndsPut DEF EndType
    <3>3. CASE events' = Append(events, e) /\ pending' = pending
      <4>1. Ends(v, events') = Ends(v, Append(events, e)) /\ Ends(v, pending') = Ends(v, pending)
        BY <3>3
      <4> QED
        BY <2>1, <3>1, <4>1
    <3>4. CASE pending' = Append(pending, e) /\ events' = events
      <4>1. Ends(v, pending') = Ends(v, Append(pending, e)) /\ Ends(v, events') = Ends(v, events)
        BY <3>4
      <4> QED
        BY <2>1, <3>2, <4>1
    <3> QED
      BY <1>9, <3>3, <3>4
  <2>3. Past(w)' /\ parent'[w] # None /\ ~Past(w)
    BY <1>0 DEF EndType, Kin, Goto, Past
  <2>4. v # w => (Past(v)' <=> Past(v)) /\ parent'[v] = parent[v]
    BY <1>0 DEF EndType, Goto, Past, Workers
  <2> HIDE DEF e
  <2> QED
    BY <2>1, <2>2, <2>3, <2>4
<1>4. EndReportedOnce'
  BY <1>3 DEF EndReportedOnce
<1> QED
  BY <1>2, <1>4 DEF EndInv

\* The coordinator hears an event: it is not there any more.
LEMMA EndIsHeardOnce ==
  ASSUME EndInv, UNCHANGED <<pc, parent>>,
         \/ events # <<>> /\ heard' = Hear(Head(events)) /\ events' = Tail(events) /\ pending' = pending
         \/ pending # <<>> /\ heard' = Hear(Head(pending)) /\ pending' = Tail(pending) /\ events' = events
  PROVE  EndInv'
<1>0. EndType /\ Kin
  BY DEF EndInv
<1>9. events' \in Seq(EventRec) /\ pending' \in Seq(EventRec)
  <2>1. events \in Seq(EventRec) /\ pending \in Seq(EventRec)
    BY <1>0 DEF EndType
  <2>2. (events # <<>> => Tail(events) \in Seq(EventRec)) /\ (pending # <<>> => Tail(pending) \in Seq(EventRec))
    BY <2>1, EventsIn
  <2> QED
    BY <2>1, <2>2
<1>1. PICK q \in {events, pending} :
        q # <<>> /\ heard' = Hear(Head(q)) /\ \A v \in Interactive :
           Ends(v, events) + Ends(v, pending) = Ends(v, events') + Ends(v, pending') + One(Event(v, "terminal") = Head(q))
  <2>1. events # <<>> => \A v \in Interactive : Ends(v, events) = Ends(v, Tail(events)) + One(Event(v, "terminal") = Head(events))
    BY <1>0, EndsTake DEF EndType
  <2>2. pending # <<>> => \A v \in Interactive : Ends(v, pending) = Ends(v, Tail(pending)) + One(Event(v, "terminal") = Head(pending))
    BY <1>0, EndsTake DEF EndType
  <2>4. \A v \in Interactive : /\ Ends(v, events) \in Nat /\ Ends(v, pending) \in Nat
                               /\ Ends(v, events') \in Nat /\ Ends(v, pending') \in Nat
    BY <1>0, <1>9, EndsType DEF EndType
  <2>5. \A b : One(b) \in Nat
    BY DEF One
  <2>6. CASE events # <<>> /\ heard' = Hear(Head(events)) /\ events' = Tail(events) /\ pending' = pending
    BY <2>1, <2>4, <2>5, <2>6
  <2>7. CASE pending # <<>> /\ heard' = Hear(Head(pending)) /\ pending' = Tail(pending) /\ events' = events
    BY <2>2, <2>4, <2>5, <2>7
  <2> QED
    BY <2>6, <2>7
<1>2. \A v \in Interactive : heard'[v] = heard[v] + One(Event(v, "terminal") = Head(q))
  BY <1>1 DEF Hear, One
<1>3. EndType' /\ Kin'
  <2>2. heard' \in [Interactive -> Nat]
    BY <1>0, <1>1 DEF EndType, Hear
  <2> QED
    BY <1>0, <1>9, <2>2 DEF EndType, Kin
<1>4. ASSUME NEW v \in Interactive
      PROVE  Ends(v, events') + Ends(v, pending') + heard'[v] = Ends(v, events) + Ends(v, pending) + heard[v]
  <2>1. Ends(v, events') \in Nat /\ Ends(v, pending') \in Nat /\ heard[v] \in Nat
    BY <1>0, <1>3, EndsType DEF EndType
  <2>2. One(Event(v, "terminal") = Head(q)) \in Nat
    BY DEF One
  <2> QED
    BY <1>1, <1>2, <2>1, <2>2
<1>5. EndReportedOnce'
  BY <1>4 DEF EndInv, EndReportedOnce, Past
<1> QED
  BY <1>3, <1>5 DEF EndInv

LEMMA StepEndInv == EndInv /\ [Next]_vars => EndInv'
<1> SUFFICES ASSUME EndInv, [Next]_vars
             PROVE  EndInv'
  OBVIOUS
<1>0. EndType /\ Kin
  BY DEF EndInv
<1>1. ASSUME NEW w \in Workers,
             Count(w) \/ AddSubAgent(w) \/ Register(w) \/ EnterLoop(w) \/ GiveUp(w) \/ LoopEnds(w)
      PROVE  EndInv'
  <2>1. UNCHANGED <<parent, talk>>
    BY <1>1 DEF Count, AddSubAgent, Register, EnterLoop, GiveUp, LoopEnds
  <2>2. \E place \in PC \ {"releasing", "ended", "removing", "spill"} :
          Goto(w, place) /\ (place = "idle" => w \in OneShot) /\ pc[w] \notin {"unborn", "ended", "releasing"}
    BY <1>1 DEF Count, AddSubAgent, Register, EnterLoop, GiveUp, LoopEnds, PC
  <2> QED
    BY <2>1, <2>2, QuietMove
<1>2. ASSUME NEW w \in Workers, GiveBack(w) \/ RemoveBackground(w) \/ CallEnds(w)
      PROVE  EndInv'
  <2>1. CASE GiveBack(w)
    BY <2>1, QuietMove, WorkersAssumption DEF GiveBack, PC
  <2>2. CASE RemoveBackground(w)
    BY <1>0, <2>2, QuietMove, WorkersAssumption DEF RemoveBackground, PC, Kin
  <2>3. CASE CallEnds(w)
    BY <2>3, QuietMove, WorkersAssumption DEF CallEnds, PC, Detached
  <2> QED
    BY <1>2, <2>1, <2>2, <2>3
<1>3. ASSUME NEW w \in Workers, Refuse(w)
      PROVE  EndInv'
  <2>1. CASE w \in OneShot
    <3>1. parent' = parent
      BY <1>0, <1>3, <2>1 DEF Refuse, EndType
    <3> QED
      BY <1>3, <2>1, <3>1, QuietMove, WorkersAssumption DEF Refuse, PC, Detached
  <2>2. CASE w \notin OneShot
    <3>1. pc[w] = "admitted" /\ Goto(w, "ended") /\ parent' = [parent EXCEPT ![w] = None] /\ UNCHANGED talk
      BY <1>3, <2>2 DEF Refuse
    <3>2. EndType' /\ Kin'
      BY <1>0, <3>1 DEF EndType, Kin, Goto, talk, PC
    <3>3. \A v \in Interactive : Reported(v)' <=> Reported(v)
      BY <1>0, <3>1 DEF EndType, Goto, Reported, Past, Workers
    <3>4. EndReportedOnce'
      BY <3>1, <3>3, Zenon DEF EndInv, EndReportedOnce, Reported, talk
    <3> QED
      BY <3>2, <3>4 DEF EndInv
  <2> QED
    BY <2>1, <2>2
<1>4. ASSUME NEW w \in Workers, Finish(w) \/ Spill(w)
      PROVE  EndInv'
  <2>1. CASE w \in Background
    <3>1. Finish(w)
      BY <1>0, <1>4, <2>1 DEF Spill, Kin
    <3> QED
      BY <2>1, <3>1, QuietMove, WorkersAssumption DEF Finish, PC, talk, Detached
  <2>2. CASE w \notin Background
    <3>1. CASE Goto(w, "spill")
      <4>1. Finish(w) /\ UNCHANGED talk
        BY <1>0, <1>4, <3>1, <2>2 DEF Finish, Spill, Goto, talk, EndType
      <4> QED
        BY <2>2, <3>1, <4>1, QuietMove, WorkersAssumption DEF Finish, PC
    <3>2. CASE Goto(w, "releasing")
      <4>1. \/ UNCHANGED events /\ pending' = Append(pending, Event(w, "terminal"))
            \/ UNCHANGED pending /\ events' = Append(events, Event(w, "terminal"))
        BY <1>0, <1>4, <2>2, <3>2 DEF Finish, Spill, Push, OnFull, Goto, EndType
      <4> QED
        BY <1>4, <2>2, <3>2, <4>1, EndIsPut DEF Finish, Spill
    <3> QED
      BY <1>4, <2>2, <3>1, <3>2 DEF Finish, Spill, OnFull
  <2> QED
    BY <2>1, <2>2
<1>5. ASSUME NEW w \in Workers, Ask(w) \/ TakeAnswer(w)
      PROVE  EndInv'
  <2>1. /\ UNCHANGED <<parent, pending, heard>>
        /\ \E place \in {"waiting", "answered"} : Goto(w, place) /\ pc[w] \in {"running", "waiting"}
        /\ events' \in {events, Append(events, Event(w, "clarify"))}
    BY <1>5 DEF Ask, TakeAnswer, Push
  <2>2. Event(w, "clarify") \in EventRec /\ \A v : Event(v, "terminal") # Event(w, "clarify")
    BY EventOf
  <2>3. EndType' /\ Kin'
    <3>1. events' \in Seq(EventRec)
      BY <1>0, <2>1, <2>2, EventsIn DEF EndType
    <3> QED
      BY <1>0, <2>1, <3>1 DEF EndType, Kin, Goto, PC
  <2>4. \A v \in Interactive : Ends(v, events') = Ends(v, events)
    <3>1. \A v \in Interactive : One(Event(v, "terminal") = Event(w, "clarify")) = 0
      BY <2>2 DEF One
    <3>2. \A v \in Interactive : Ends(v, events) \in Nat
      BY <1>0, EndsType DEF EndType
    <3>3. \A v \in Interactive : Ends(v, Append(events, Event(w, "clarify"))) = Ends(v, events)
      BY <1>0, <2>2, <3>1, <3>2, EndsPut DEF EndType
    <3> QED
      BY <2>1, <3>3
  <2>5. \A v \in Interactive : Reported(v)' <=> Reported(v)
    BY <1>0, <2>1 DEF EndType, Goto, Reported, Past, Workers
  <2>6. EndReportedOnce'
    BY <2>1, <2>4, <2>5, Zenon DEF EndInv, EndReportedOnce, Reported
  <2> QED
    BY <2>3, <2>6 DEF EndInv
<1>6. CASE Receive \/ PopPending
  <2>1. CASE UNCHANGED <<events, pending, heard>>
    <3>1. UNCHANGED <<pc, parent>>
      BY <1>6 DEF Receive, PopPending, tree
    <3> QED
      BY <2>1, <3>1 DEF EndInv, EndType, Kin, EndReportedOnce, Past
  <2>2. CASE ~UNCHANGED <<events, pending, heard>>
    <3>1. \/ events # <<>> /\ heard' = Hear(Head(events)) /\ events' = Tail(events) /\ pending' = pending
          \/ pending # <<>> /\ heard' = Hear(Head(pending)) /\ pending' = Tail(pending) /\ events' = events
      BY <1>6, <2>2 DEF Receive, PopPending, Spilled
    <3>2. UNCHANGED <<pc, parent>>
      BY <1>6 DEF Receive, PopPending, tree
    <3> QED
      BY <3>1, <3>2, EndIsHeardOnce
  <2> QED
    BY <2>1, <2>2
<1>7. ASSUME NEW a \in Agents,
             StartCall(a) \/ SpawnSubAgent(a) \/ \E kind \in {Interactive, Background} : Launch(a, kind)
      PROVE  EndInv'
  BY <1>7, LaunchQuiet
<1>8. CASE \/ \E a \in Agents : StopAgent(a) \/ \E n \in 1 .. BatchMax : StartBatch(a, n)
           \/ \E w \in Workers : Send(w) \/ TerminateInteractiveAgent(w)
           \/ LookPending \/ TimeOut \/ Stop \/ UNCHANGED vars
  <2>1. UNCHANGED <<pc, parent, events, pending, heard>>
    BY <1>8 DEF StopAgent, StartBatch, Send, TerminateInteractiveAgent, LookPending, TimeOut,
                Stop, tree, talk, vars
  <2> QED
    BY <2>1 DEF EndInv, EndType, Kin, EndReportedOnce, Past
<1> QED
  BY <1>1, <1>2, <1>3, <1>4, <1>5, <1>6, <1>7, <1>8 DEF Next, WorkerStep, Wait

\* The end of an interactive worker is reported once, however full the channel
\* is: it is neither lost nor told twice (pushAgentEvent, pendingTerminal).
THEOREM EndsReportedOnce == Spec => []EndReportedOnce
<1>1. EndInv => EndReportedOnce
  BY DEF EndInv
<1> QED
  BY <1>1, InitEndInv, StepEndInv, PTL DEF Spec
=============================================================================
