----------------------- MODULE ApprovalBridgeProofs -----------------------
(* Safety of the approval bridge for any number of approvals and clients,    *)
(* any bounds and any size of the recall ring.                               *)
EXTENDS ApprovalBridge, FiniteSetTheorems, SequenceTheorems, TLAPS

-----------------------------------------------------------------------------
(* Type correctness.                                                         *)

\* An answer that a handler posts is an answer, and no answer is NoAnswer.
LEMMA PostedIsAnswer ==
    ASSUME TypeOK, NEW c \in Clients
    PROVE  /\ Posted(c) \in Answer
           /\ Posted(c) # NoAnswer
           /\ handler[c].ap \in Approvals
BY ClientAssumption DEF TypeOK, Posted, Answer, NoAnswer, HandlerType

\* An idle handler and a waiter not yet born are well typed.
LEMMA InitialTypes ==
    /\ Idle \in HandlerType
    /\ Unborn \in WaiterType
<1>1. AnyApproval \in Approvals
    BY ApprovalAssumption DEF AnyApproval
<1> QED
    BY <1>1, ApprovalAssumption
    DEF Idle, Unborn, HandlerType, HandlerPC, WaiterType, WaiterPC

\* The waiter keeps its type when only its pc moves.
LEMMA WaiterStepType ==
    ASSUME TypeOK, NEW a \in Approvals, NEW pc \in WaiterPC, WaiterStep(a, pc)
    PROVE  waiter' \in [Approvals -> WaiterType]
<1>1. [waiter[a] EXCEPT !.pc = pc] \in WaiterType
    BY ZenonT(60) DEF TypeOK, WaiterType
<1> QED
    BY <1>1 DEF WaiterStep, TypeOK

\* The same of a handler.
LEMMA HandlerStepType ==
    ASSUME TypeOK, NEW c \in Clients, NEW pc \in HandlerPC, HandlerStep(c, pc)
    PROVE  handler' \in [Clients -> HandlerType]
<1>1. [handler[c] EXCEPT !.pc = pc] \in HandlerType
    BY ZenonT(60) DEF TypeOK, HandlerType
<1> QED
    BY <1>1 DEF HandlerStep, TypeOK

\* The reply keeps the types of what it changes.
LEMMA ReplyType ==
    ASSUME TypeOK, NEW c \in Clients, Reply(c)
    PROVE  /\ handler' \in [Clients -> HandlerType]
           /\ acked' \in [Approvals -> SUBSET Answer]
<1>1. handler' \in [Clients -> HandlerType]
    BY InitialTypes DEF Reply, TypeOK
<1>2. acked' \in [Approvals -> SUBSET Answer]
    BY PostedIsAnswer DEF Reply, TypeOK
<1> QED
    BY <1>1, <1>2

\* Charging a clock gives a waiter again and keeps its answer.
LEMMA ChargeType ==
    ASSUME NEW w \in WaiterType, NEW attended
    PROVE  /\ Charge(w, attended) \in WaiterType
           /\ Charge(w, attended).result = w.result
<1>1. w.connectedFor + 1 \in Nat /\ w.unattendedFor + 1 \in Nat
    BY DEF WaiterType
<1>2. /\ [w EXCEPT !.connectedFor = w.connectedFor + 1, !.unattendedFor = 0] \in WaiterType
      /\ [w EXCEPT !.connectedFor = w.connectedFor + 1, !.unattendedFor = 0].result = w.result
    BY <1>1 DEF WaiterType
<1>3. /\ [w EXCEPT !.unattendedFor = w.unattendedFor + 1, !.connectedFor = 0] \in WaiterType
      /\ [w EXCEPT !.unattendedFor = w.unattendedFor + 1, !.connectedFor = 0].result = w.result
    BY <1>1 DEF WaiterType
<1> QED
    BY <1>2, <1>3 DEF Charge

\* What a tick does to the waiter: one of the two clocks grows, the answer stays.
LEMMA ChargedWaiter ==
    ASSUME TypeOK, NEW a \in Approvals, ChargeTick(a)
    PROVE  /\ waiter' \in [Approvals -> WaiterType]
           /\ waiter'[a].pc \in {"expired", "waiting"}
           /\ waiter'[a].result = waiter[a].result
           /\ \A b \in Approvals : b # a => waiter'[b] = waiter[b]
<1> DEFINE w == Charge(waiter[a], Attended(a))
<1>1. waiter[a] \in WaiterType
    BY DEF TypeOK
<1>2. w \in WaiterType /\ w.result = waiter[a].result
    BY <1>1, ChargeType DEF w
<1> HIDE DEF w
<1>3. Relevant(w) \in WaiterType /\ Relevant(w).result = w.result
    BY <1>2 DEF Relevant, WaiterType
<1>4. PICK pc \in {"expired", "waiting"} :
        waiter' = [waiter EXCEPT ![a] = [Relevant(w) EXCEPT !.pc = pc]]
    BY DEF ChargeTick, w
<1>5. /\ [Relevant(w) EXCEPT !.pc = pc] \in WaiterType
      /\ [Relevant(w) EXCEPT !.pc = pc].pc = pc
      /\ [Relevant(w) EXCEPT !.pc = pc].result = waiter[a].result
    BY <1>2, <1>3 DEF WaiterType, WaiterPC
<1> HIDE DEF w
<1> QED
    BY <1>4, <1>5 DEF TypeOK

\* The histories that are cut from the front stay sequences.
LEMMA SlidingType ==
    ASSUME NEW S, NEW s \in Seq(S), NEW x \in S, NEW n \in Nat, n > 0
    PROVE  (IF Len(s) < n THEN Append(s, x) ELSE Append(Tail(s), x)) \in Seq(S)
<1>1. CASE Len(s) < n
    BY <1>1
<1>2. CASE ~(Len(s) < n)
    <2>1. s # <<>>
        BY <1>2
    <2> QED
        BY <1>2, <2>1
<1> QED
    BY <1>1, <1>2

\* Every step keeps the types.
LEMMA TypeStep == TypeOK /\ [Next]_vars => TypeOK'
<1> SUFFICES ASSUME TypeOK, [Next]_vars PROVE TypeOK'
    OBVIOUS
<1> USE DEF TypeOK
<1>1. CASE List
    BY <1>1 DEF List
<1>2. ASSUME NEW c \in Clients, Connect(c) \/ Disconnect(c) PROVE TypeOK'
    BY <1>2 DEF Connect, Disconnect
<1>3. ASSUME NEW a \in Approvals, Alloc(a) PROVE TypeOK'
    BY <1>3, WaiterStepType DEF Alloc, WaiterPC
<1>4. ASSUME NEW a \in Approvals, Tick(a) PROVE TypeOK'
    BY <1>4, WaiterStepType DEF Tick, WaiterPC
<1>5. ASSUME NEW a \in Approvals, Receive(a) PROVE TypeOK'
    <2>1. waiter[a] \in WaiterType /\ decided[a] \in Answer \cup {NoAnswer}
        OBVIOUS
    <2>2. \A w \in WaiterType : \A x \in Answer \cup {NoAnswer} :
            [w EXCEPT !.pc = "answered", !.result = x] \in WaiterType
        BY DEF WaiterType, WaiterPC
    <2>3. [waiter[a] EXCEPT !.pc = "answered", !.result = decided[a]] \in WaiterType
        BY <2>1, <2>2
    <2> QED
        BY <1>5, <2>3 DEF Receive
<1>6. ASSUME NEW a \in Approvals, ChargeTick(a) PROVE TypeOK'
    <2>1. Attended(a) \in BOOLEAN
        BY DEF Attended
    <2>2. Memory \in Nat /\ Memory > 0
        BY ApprovalAssumption DEF Memory
    <2>3. trail[a] \in Seq(BOOLEAN)
        OBVIOUS
    <2>4. Remember(trail[a], Attended(a)) \in Seq(BOOLEAN)
        BY <2>1, <2>2, <2>3, SlidingType, Zenon DEF Remember
    <2>5. trail' \in [Approvals -> Seq(BOOLEAN)]
        BY <1>6, <2>4, Zenon DEF ChargeTick
    <2> QED
        BY <1>6, <2>5, ChargedWaiter DEF ChargeTick
<1>7. ASSUME NEW a \in Approvals, Remove(a) PROVE TypeOK'
    <2>1. RecentCap \in Nat /\ RecentCap > 0
        BY ApprovalAssumption
    <2>2. Remembered(a) \in Seq(Approvals)
        BY <2>1, SlidingType, Zenon DEF Remembered
    <2>3. concluded' \in Seq(Approvals)
        BY <1>7 DEF Remove
    <2> QED
        BY <1>7, <2>2, <2>3, WaiterStepType DEF Remove, WaiterPC
<1>8. ASSUME NEW a \in Approvals, Return(a) PROVE TypeOK'
    <2>1. PersistedInTime(a) \in SUBSET Answer
        <3>1. CASE waiter[a].result = NoAnswer
            BY <3>1, ApprovalAssumption
            DEF PersistedInTime, Persisted, StickyAnswer, NoAnswer
        <3>2. CASE waiter[a].result # NoAnswer
            BY <3>2 DEF PersistedInTime, Persisted, WaiterType
        <3> QED
            BY <3>1, <3>2
    <2> QED
        BY <1>8, <2>1, WaiterStepType DEF Return, WaiterPC
<1>9. ASSUME NEW c \in Clients, NEW a \in Approvals, NEW d \in Decisions,
             Decide(c, a, d)
      PROVE TypeOK'
    <2>1. \A pc \in HandlerPC : [pc |-> pc, ap |-> a, d |-> d] \in HandlerType
        BY DEF HandlerType
    <2> QED
        BY <1>9, <2>1 DEF Decide, HandlerPC
<1>10. ASSUME NEW c \in Clients, Lookup(c) PROVE TypeOK'
    BY <1>10, HandlerStepType DEF Lookup, HandlerPC
<1>11. ASSUME NEW c \in Clients, Send(c) PROVE TypeOK'
    <2> DEFINE a == handler[c].ap
    <2>1. Posted(c) \in Answer /\ a \in Approvals
        BY PostedIsAnswer
    <2>2. CASE BufferFree(a)
        <3>1. Append(accepted[a], Posted(c)) \in Seq(Answer)
            BY <2>1
        <3>3. accepted' \in [Approvals -> Seq(Answer)]
            BY <1>11, <2>2, <3>1, Zenon DEF Send
        <3>2. decided' \in [Approvals -> Answer \cup {NoAnswer}]
            BY <1>11, <2>1, <2>2, ZenonT(60) DEF Send
        <3> QED
            BY <1>11, <2>2, <3>2, <3>3, ReplyType DEF Send
    <2>3. CASE ~BufferFree(a)
        BY <1>11, <2>3, HandlerStepType DEF Send, HandlerPC
    <2> QED
        BY <2>2, <2>3
<1>12. ASSUME NEW c \in Clients, NEW a \in Approvals
       PROVE Persisted(a, Posted(c)) \in SUBSET Answer
    BY PostedIsAnswer DEF Persisted
<1>13. ASSUME NEW c \in Clients, Refused(c) PROVE TypeOK'
    BY <1>12, <1>13, PostedIsAnswer, ReplyType DEF Refused, LoserPersisted
<1>14. ASSUME NEW c \in Clients, Late(c) PROVE TypeOK'
    BY <1>12, <1>14, PostedIsAnswer, ReplyType DEF Late
<1>15. ASSUME NEW c \in Clients, NotFound(c) PROVE TypeOK'
    BY <1>15, InitialTypes, PostedIsAnswer DEF NotFound
<1>16. CASE UNCHANGED vars
    BY <1>16 DEF vars
<1> QED
    BY <1>1, <1>2, <1>3, <1>4, <1>5, <1>6, <1>7, <1>8, <1>9, <1>10, <1>11,
       <1>13, <1>14, <1>15, <1>16 DEF Next, HandlerWork, WaiterWork

\* The bridge is type correct.
THEOREM TypeCorrect == Spec => []TypeOK
<1>1. Init => TypeOK
    BY InitialTypes, ApprovalAssumption DEF Init, TypeOK
<1> QED
    BY <1>1, TypeStep, PTL DEF Spec

-----------------------------------------------------------------------------
(* Where an answer can be.                                                   *)

\* The flow of the answers to a: until one is received the channel holds the
\* only one it accepted; the received one is the first accepted; and a sticky
\* answer that was acknowledged is saved, received or still in the channel.
AnswerFlow(a) ==
    /\ waiter[a].pc \in {"unborn", "waiting", "online", "offline", "expired"}
         => waiter[a].result = NoAnswer
    /\ waiter[a].result = NoAnswer
         => accepted[a] = IF decided[a] = NoAnswer THEN <<>> ELSE <<decided[a]>>
    /\ waiter[a].result # NoAnswer
         => accepted[a] # <<>> /\ waiter[a].result = Head(accepted[a])
    /\ \A x \in acked[a] : /\ StickyAnswer(a, x)
                           /\ x \in saved[a] \cup {decided[a], waiter[a].result}
    /\ waiter[a].pc = "done" /\ StickyAnswer(a, waiter[a].result)
         => waiter[a].result \in saved[a]

IInv == TypeOK /\ \A a \in Approvals : AnswerFlow(a)

\* The flow depends on nothing but the answers, and on the pc's being early.
LEMMA FlowFrame ==
    ASSUME NEW a \in Approvals, AnswerFlow(a),
           decided'[a] = decided[a], accepted'[a] = accepted[a],
           acked'[a] = acked[a], saved'[a] = saved[a],
           waiter'[a].result = waiter[a].result,
           \/ waiter'[a].pc = waiter[a].pc
           \/ /\ waiter[a].pc \in {"unborn", "waiting", "online", "offline", "expired"}
              /\ waiter'[a].pc # "done"
           \/ waiter'[a].pc = "removed"
    PROVE  AnswerFlow(a)'
<1>1. waiter'[a].pc \in {"unborn", "waiting", "online", "offline", "expired"}
        => waiter'[a].result = NoAnswer
    <2>1. CASE waiter'[a].pc = waiter[a].pc
        BY <2>1 DEF AnswerFlow
    <2>2. CASE waiter'[a].pc = "removed"
        BY <2>2
    <2>3. CASE waiter[a].pc \in {"unborn", "waiting", "online", "offline", "expired"}
        BY <2>3 DEF AnswerFlow
    <2> QED
        BY <2>1, <2>2, <2>3
<1>2. waiter'[a].pc = "done" => waiter[a].pc = "done"
    OBVIOUS
<1>3. /\ waiter[a].result = NoAnswer
           => accepted'[a] = IF decided'[a] = NoAnswer THEN <<>> ELSE <<decided'[a]>>
      /\ waiter[a].result # NoAnswer
           => accepted'[a] # <<>> /\ waiter[a].result = Head(accepted'[a])
    BY DEF AnswerFlow
<1>4. \A x \in acked'[a] : /\ StickyAnswer(a, x)
                          /\ x \in saved'[a] \cup {decided'[a], waiter'[a].result}
    BY DEF AnswerFlow
<1>5. waiter'[a].pc = "done" /\ StickyAnswer(a, waiter'[a].result)
        => waiter'[a].result \in saved'[a]
    BY <1>2 DEF AnswerFlow
<1> QED
    BY <1>1, <1>3, <1>4, <1>5 DEF AnswerFlow, StickyAnswer

\* NoAnswer is neither an answer nor sticky.
LEMMA NoAnswerPlain ==
    /\ NoAnswer \notin Answer
    /\ \A a : ~StickyAnswer(a, NoAnswer)
BY ApprovalAssumption, ClientAssumption DEF NoAnswer, Answer, StickyAnswer

\* A step of a's waiter that only moves its pc.
LEMMA WaiterStepEffect ==
    ASSUME TypeOK, NEW a \in Approvals, NEW pc, WaiterStep(a, pc), NEW b \in Approvals
    PROVE  /\ waiter'[b].result = waiter[b].result
           /\ waiter'[b].pc = IF b = a THEN pc ELSE waiter[b].pc
<1>1. waiter[a] \in WaiterType
    BY DEF TypeOK
<1>2. /\ [waiter[a] EXCEPT !.pc = pc].result = waiter[a].result
      /\ [waiter[a] EXCEPT !.pc = pc].pc = pc
    BY <1>1 DEF WaiterType
<1> QED
    BY <1>2 DEF WaiterStep, TypeOK

\* The wait receives the answer in the channel.
LEMMA ReceiveFlow ==
    ASSUME IInv, NEW a \in Approvals, Receive(a), NEW b \in Approvals
    PROVE  AnswerFlow(b)'
<1>1. AnswerFlow(a) /\ AnswerFlow(b)
    BY DEF IInv
<1>2. CASE b = a
    <2>1. /\ waiter'[a].result = decided[a]
          /\ waiter'[a].pc = "answered"
          /\ decided'[a] = NoAnswer
          /\ UNCHANGED <<accepted, acked, saved>>
        BY DEF Receive, IInv, TypeOK, WaiterType
    <2>2. waiter[a].result = NoAnswer /\ decided[a] # NoAnswer
        BY <1>1 DEF Receive, Taken, AnswerFlow
    <2>3. accepted[a] = <<decided[a]>>
        BY <1>1, <2>2 DEF AnswerFlow
    <2>4. \A x \in acked[a] : x # NoAnswer
        BY <1>1, NoAnswerPlain DEF AnswerFlow
    <2> QED
        BY <1>1, <1>2, <2>1, <2>2, <2>3, <2>4 DEF AnswerFlow, StickyAnswer
<1>3. CASE b # a
    <2>1. waiter'[b] = waiter[b] /\ decided'[b] = decided[b]
        BY <1>3 DEF Receive, IInv, TypeOK
    <2> QED
        BY <1>1, <2>1, FlowFrame DEF Receive
<1> QED
    BY <1>2, <1>3

\* The gate returns, having persisted the answer it received if it is sticky.
LEMMA ReturnFlow ==
    ASSUME IInv, NEW a \in Approvals, Return(a), NEW b \in Approvals
    PROVE  AnswerFlow(b)'
<1>1. AnswerFlow(a) /\ AnswerFlow(b) /\ TypeOK
    BY DEF IInv
<1>2. /\ waiter'[b].result = waiter[b].result
      /\ waiter'[b].pc = IF b = a THEN "done" ELSE waiter[b].pc
    BY <1>1, WaiterStepEffect DEF Return
<1>3. UNCHANGED <<decided, accepted, acked>>
    BY DEF Return
<1>4. CASE b = a
    <2>1. saved'[a] = Persisted(a, waiter[a].result)
        BY <1>1 DEF Return, PersistedInTime, TypeOK
    <2>2. /\ saved[a] \subseteq saved'[a]
          /\ StickyAnswer(a, waiter[a].result) => waiter[a].result \in saved'[a]
        BY <2>1 DEF Persisted
    <2> QED
        BY <1>1, <1>2, <1>3, <1>4, <2>2 DEF AnswerFlow, StickyAnswer
<1>5. CASE b # a
    <2>1. saved'[b] = saved[b]
        BY <1>1, <1>5 DEF Return, TypeOK
    <2> QED
        BY <1>1, <1>2, <1>3, <1>5, <2>1, FlowFrame
<1> QED
    BY <1>4, <1>5

\* What the reply records.
LEMMA ReplyEffect ==
    ASSUME TypeOK, NEW c \in Clients, Reply(c), NEW b \in Approvals
    PROVE  /\ acked'[b] \subseteq acked[b] \cup {Posted(c)}
           /\ b # handler[c].ap => acked'[b] = acked[b]
           /\ Posted(c) \in acked'[b] \ acked[b] => StickyAnswer(b, Posted(c))
BY PostedIsAnswer DEF Reply, TypeOK

\* The handler sends its answer, or finds the buffer full.
LEMMA SendFlow ==
    ASSUME IInv, NEW c \in Clients, Send(c), NEW b \in Approvals
    PROVE  AnswerFlow(b)'
<1> DEFINE a == handler[c].ap
<1>1. AnswerFlow(b) /\ TypeOK
    BY DEF IInv
<1>2. Posted(c) \in Answer /\ Posted(c) # NoAnswer /\ a \in Approvals
    BY <1>1, PostedIsAnswer
<1>3. UNCHANGED <<waiter, saved>>
    BY DEF Send
<1>4. CASE BufferFree(a) /\ b = a
    <2>1. decided[a] = NoAnswer /\ decided'[a] = Posted(c)
        BY <1>1, <1>2, <1>4 DEF Send, BufferFree, TypeOK
    <2>2. accepted'[a] = Append(accepted[a], Posted(c)) /\ accepted[a] \in Seq(Answer)
        BY <1>1, <1>2, <1>4 DEF Send, TypeOK
    <2>3. Reply(c)
        BY <1>4 DEF Send
    <2>4. \A x \in acked'[a] : /\ StickyAnswer(a, x)
                              /\ x \in saved'[a] \cup {decided'[a], waiter'[a].result}
        <3> SUFFICES ASSUME NEW x \in acked'[a]
                     PROVE  /\ StickyAnswer(a, x)
                            /\ x \in saved'[a] \cup {decided'[a], waiter'[a].result}
            OBVIOUS
        <3>1. CASE x \in acked[a]
            BY <1>1, <1>3, <1>4, <2>1, <3>1, NoAnswerPlain DEF AnswerFlow
        <3>2. CASE x \notin acked[a]
            BY <1>1, <1>2, <2>1, <2>3, <3>2, ReplyEffect
        <3> QED
            BY <3>1, <3>2
    <2>5. waiter[a].result = NoAnswer => accepted'[a] = <<Posted(c)>>
        <3>1. waiter[a].result = NoAnswer => accepted[a] = <<>>
            BY <1>1, <1>4, <2>1 DEF AnswerFlow
        <3>2. Append(<<>>, Posted(c)) = <<Posted(c)>>
            OBVIOUS
        <3> QED
            BY <2>2, <3>1, <3>2
    <2>6. waiter[a].result # NoAnswer
            => accepted'[a] # <<>> /\ waiter[a].result = Head(accepted'[a])
        <3> SUFFICES ASSUME waiter[a].result # NoAnswer
                     PROVE  accepted'[a] # <<>> /\ waiter[a].result = Head(accepted'[a])
            OBVIOUS
        <3>1. accepted[a] # <<>> /\ waiter[a].result = Head(accepted[a])
            BY <1>1, <1>4 DEF AnswerFlow
        <3>2. Append(accepted[a], Posted(c)) # <<>>
              /\ Head(Append(accepted[a], Posted(c))) = Head(accepted[a])
            BY <1>2, <2>2, <3>1
        <3> QED
            BY <2>2, <3>1, <3>2
    <2> QED
        BY <1>1, <1>2, <1>3, <1>4, <2>1, <2>4, <2>5, <2>6 DEF AnswerFlow, StickyAnswer
<1>5. CASE BufferFree(a) /\ b # a
    <2>1. decided'[b] = decided[b] /\ accepted'[b] = accepted[b] /\ acked'[b] = acked[b]
        BY <1>1, <1>2, <1>5, ReplyEffect DEF Send, TypeOK
    <2> QED
        BY <1>1, <1>3, <2>1, FlowFrame
<1>6. CASE ~BufferFree(a)
    BY <1>1, <1>3, <1>6, FlowFrame DEF Send
<1> QED
    BY <1>4, <1>5, <1>6

\* A handler whose answer was not taken persists it if sticky, and replies.
LEMMA PersistFlow ==
    ASSUME IInv, NEW c \in Clients, Reply(c),
           UNCHANGED <<waiter, decided, accepted>>,
           saved' = [saved EXCEPT ![handler[c].ap] = Persisted(handler[c].ap, Posted(c))],
           NEW b \in Approvals
    PROVE  AnswerFlow(b)'
<1> DEFINE a == handler[c].ap
<1>1. AnswerFlow(b) /\ TypeOK
    BY DEF IInv
<1>2. a \in Approvals
    BY <1>1, PostedIsAnswer
<1>3. CASE b = a
    <2>1. saved'[a] = Persisted(a, Posted(c))
        BY <1>1, <1>2 DEF TypeOK
    <2>2. /\ saved[a] \subseteq saved'[a]
          /\ StickyAnswer(a, Posted(c)) => Posted(c) \in saved'[a]
        BY <2>1 DEF Persisted
    <2>3. \A x \in acked'[a] : x \notin acked[a] => x = Posted(c) /\ StickyAnswer(a, x)
        BY <1>1, <1>2, ReplyEffect
    <2> QED
        BY <1>1, <1>3, <2>2, <2>3 DEF AnswerFlow, StickyAnswer
<1>4. CASE b # a
    <2>1. saved'[b] = saved[b] /\ acked'[b] = acked[b]
        BY <1>1, <1>4, ReplyEffect DEF TypeOK
    <2> QED
        BY <1>1, <2>1, FlowFrame
<1> QED
    BY <1>3, <1>4

\* Every step keeps the flow of the answers.
LEMMA FlowStep == IInv /\ [Next]_vars => IInv'
<1> SUFFICES ASSUME IInv, [Next]_vars PROVE IInv'
    OBVIOUS
<1>1. TypeOK /\ TypeOK'
    BY TypeStep DEF IInv
<1> SUFFICES ASSUME NEW b \in Approvals PROVE AnswerFlow(b)'
    BY <1>1 DEF IInv
<1>2. AnswerFlow(b)
    BY DEF IInv
<1>3. CASE List
    BY <1>2, <1>3, FlowFrame DEF List
<1>4. ASSUME NEW c \in Clients, Connect(c) \/ Disconnect(c) PROVE AnswerFlow(b)'
    BY <1>2, <1>4, FlowFrame DEF Connect, Disconnect
<1>5. ASSUME NEW a \in Approvals, Alloc(a) PROVE AnswerFlow(b)'
    BY <1>1, <1>2, <1>5, FlowFrame, WaiterStepEffect DEF Alloc
<1>6. ASSUME NEW a \in Approvals, Tick(a) PROVE AnswerFlow(b)'
    <2>1. PICK pc \in {"online", "offline"} : WaiterStep(a, pc)
        BY <1>6 DEF Tick
    <2> QED
        BY <1>1, <1>2, <1>6, <2>1, FlowFrame, WaiterStepEffect DEF Tick
<1>7. ASSUME NEW a \in Approvals, Receive(a) PROVE AnswerFlow(b)'
    BY <1>7, ReceiveFlow
<1>8. ASSUME NEW a \in Approvals, ChargeTick(a) PROVE AnswerFlow(b)'
    <2>1. \/ waiter'[b] = waiter[b]
          \/ /\ waiter[b].pc \in {"online", "offline"}
             /\ waiter'[b].pc \in {"expired", "waiting"}
             /\ waiter'[b].result = waiter[b].result
        BY <1>1, <1>8, ChargedWaiter DEF ChargeTick
    <2>2. UNCHANGED <<decided, accepted, acked, saved>>
        BY <1>8 DEF ChargeTick
    <2> QED
        BY <1>2, <2>1, <2>2, FlowFrame
<1>9. ASSUME NEW a \in Approvals, Remove(a) PROVE AnswerFlow(b)'
    BY <1>1, <1>2, <1>9, FlowFrame, WaiterStepEffect DEF Remove
<1>10. ASSUME NEW a \in Approvals, Return(a) PROVE AnswerFlow(b)'
    BY <1>10, ReturnFlow
<1>11. ASSUME NEW c \in Clients, NEW a \in Approvals, NEW d \in Decisions,
              Decide(c, a, d)
       PROVE AnswerFlow(b)'
    BY <1>2, <1>11, FlowFrame DEF Decide
<1>12. ASSUME NEW c \in Clients, Lookup(c) PROVE AnswerFlow(b)'
    BY <1>2, <1>12, FlowFrame DEF Lookup
<1>13. ASSUME NEW c \in Clients, Send(c) PROVE AnswerFlow(b)'
    BY <1>13, SendFlow
<1>14. ASSUME NEW c \in Clients, Refused(c) PROVE AnswerFlow(b)'
    BY <1>14, PersistFlow DEF Refused, LoserPersisted
<1>15. ASSUME NEW c \in Clients, Late(c) PROVE AnswerFlow(b)'
    BY <1>15, PersistFlow DEF Late
<1>16. ASSUME NEW c \in Clients, NotFound(c) PROVE AnswerFlow(b)'
    BY <1>2, <1>16, FlowFrame DEF NotFound
<1>17. CASE UNCHANGED vars
    BY <1>2, <1>17, FlowFrame DEF vars
<1> QED
    BY <1>3, <1>4, <1>5, <1>6, <1>7, <1>8, <1>9, <1>10, <1>11, <1>12, <1>13,
       <1>14, <1>15, <1>16, <1>17 DEF Next, HandlerWork, WaiterWork

\* The invariant holds of every behaviour.
LEMMA FlowInvariant == Spec => []IInv
<1>1. Init => IInv
    <2>1. Init => TypeOK
        BY InitialTypes, ApprovalAssumption DEF Init, TypeOK
    <2>2. Init => \A a \in Approvals : AnswerFlow(a)
        BY NoAnswerPlain DEF Init, AnswerFlow, Unborn
    <2> QED
        BY <2>1, <2>2 DEF IInv
<1> QED
    BY <1>1, FlowStep, PTL DEF Spec

\* resolve: the tool gets the answer the channel took first.
THEOREM FirstWins == Spec => []FirstAnswerWins
<1>1. IInv => FirstAnswerWins
    BY DEF IInv, AnswerFlow, FirstAnswerWins
<1> QED
    BY <1>1, FlowInvariant, PTL

\* Decide: no more than one acknowledged sticky answer of a prompt is lost.
THEOREM GrantLossBounded == Spec => []AtMostOneGrantLost
<1>1. IInv => AtMostOneGrantLost
    <2> SUFFICES ASSUME IInv, NEW a \in Approvals, waiter[a].pc = "done"
                 PROVE  Cardinality(acked[a] \ saved[a]) <= 1
        BY DEF AtMostOneGrantLost
    <2>1. AnswerFlow(a)
        BY DEF IInv
    <2>2. acked[a] \ saved[a] \subseteq {decided[a]}
        BY <2>1 DEF AnswerFlow
    <2>3. IsFiniteSet({decided[a]}) /\ Cardinality({decided[a]}) = 1
        BY FS_Singleton
    <2> QED
        BY <2>2, <2>3, FS_Subset, FS_CardinalityType
<1> QED
    BY <1>1, FlowInvariant, PTL

-----------------------------------------------------------------------------
(* Prompts nobody has fetched.                                               *)

\* The clock of an unattended prompt counts no more ticks than it has waited,
\* as far back as the history goes.
ClockPaid(a) ==
    Len(trail[a]) >= UnattendedTimeout \/ waiter[a].unattendedFor <= Len(trail[a])

KeptUnpresented(a) ==
    waiter[a].pc = "expired" /\ a \notin observed =>
        UnattendedTimeout > 0 /\ Len(trail[a]) >= UnattendedTimeout

ClockInv == TypeOK /\ \A a \in Approvals : ClockPaid(a) /\ KeptUnpresented(a)

\* Nothing but a tick moves the clock or ends the wait for want of an answer.
LEMMA ClockFrame ==
    ASSUME NEW a \in Approvals, ClockPaid(a), KeptUnpresented(a), observed \subseteq observed',
           trail' = trail, waiter'[a].unattendedFor = waiter[a].unattendedFor,
           waiter'[a].pc = "expired" => waiter[a].pc = "expired"
    PROVE  ClockPaid(a)' /\ KeptUnpresented(a)'
BY DEF ClockPaid, KeptUnpresented

\* A step of the waiter that is no tick leaves both clocks alone.
LEMMA WaiterStepClock ==
    ASSUME TypeOK, NEW a \in Approvals, NEW pc \in WaiterPC, WaiterStep(a, pc)
    PROVE  \A b \in Approvals :
             /\ waiter'[b].unattendedFor = waiter[b].unattendedFor
             /\ waiter'[b].pc = IF b = a THEN pc ELSE waiter[b].pc
<1>1. /\ [waiter[a] EXCEPT !.pc = pc].unattendedFor = waiter[a].unattendedFor
      /\ [waiter[a] EXCEPT !.pc = pc].pc = pc
    BY DEF TypeOK, WaiterType
<1> QED
    BY <1>1 DEF WaiterStep, TypeOK

\* Setting both clocks of a waiter, in either order.
LEMMA BothClocks ==
    ASSUME NEW w \in WaiterType, NEW m \in Nat, NEW n \in Nat
    PROVE  /\ [w EXCEPT !.connectedFor = m, !.unattendedFor = n] \in WaiterType
           /\ [w EXCEPT !.connectedFor = m, !.unattendedFor = n].unattendedFor = n
           /\ [w EXCEPT !.unattendedFor = n, !.connectedFor = m] \in WaiterType
           /\ [w EXCEPT !.unattendedFor = n, !.connectedFor = m].unattendedFor = n
BY DEF WaiterType

\* A clock that nothing bounds is forgotten, the other is kept.
LEMMA RelevantClock ==
    ASSUME NEW w \in WaiterType
    PROVE  Relevant(w) \in WaiterType /\ Relevant(w).unattendedFor <= w.unattendedFor
<1>1. Relevant(w) \in WaiterType
    BY DEF Relevant, WaiterType
<1>2. Relevant(w).unattendedFor = w.unattendedFor \/ Relevant(w).unattendedFor = 0
    BY DEF Relevant, WaiterType
<1>3. w.unattendedFor \in Nat /\ Relevant(w).unattendedFor \in Nat
    BY <1>1 DEF WaiterType
<1> HIDE DEF Relevant
<1> QED
    BY <1>1, <1>2, <1>3

\* What a tick charges: the unattended clock, up to its bound, or nothing of it.
LEMMA TickCharges ==
    ASSUME TypeOK, NEW a \in Approvals, ChargeTick(a), a \notin observed
    PROVE  /\ waiter'[a].unattendedFor <= waiter[a].unattendedFor + 1
           /\ waiter'[a].pc = "expired" =>
                UnattendedBound > 0 /\ waiter[a].unattendedFor + 1 >= UnattendedBound
<1> DEFINE w == [waiter[a] EXCEPT !.unattendedFor = waiter[a].unattendedFor + 1, !.connectedFor = 0]
<1>1. waiter[a] \in WaiterType /\ ~Attended(a)
    BY DEF TypeOK, Attended
<1>2. Charge(waiter[a], Attended(a)) = w
    BY <1>1 DEF Charge
<1>3. w \in WaiterType /\ w.unattendedFor = waiter[a].unattendedFor + 1
    <2>1. waiter[a].unattendedFor + 1 \in Nat
        BY <1>1 DEF WaiterType
    <2>2. w \in WaiterType
        BY <1>1, <2>1 DEF WaiterType
    <2>3. w.unattendedFor = waiter[a].unattendedFor + 1
        BY <1>1, <2>1 DEF WaiterType
    <2> QED
        BY <2>2, <2>3
<1> HIDE DEF w
<1>4. Relevant(w) \in WaiterType /\ Relevant(w).unattendedFor <= w.unattendedFor
    BY <1>3, RelevantClock
<1>5. PICK pc \in {"expired", "waiting"} :
        /\ waiter' = [waiter EXCEPT ![a] = [Relevant(w) EXCEPT !.pc = pc]]
        /\ pc = "expired" => Reached(w.unattendedFor, UnattendedBound)
    BY <1>1, <1>2 DEF ChargeTick
<1>6. /\ [Relevant(w) EXCEPT !.pc = pc].pc = pc
      /\ [Relevant(w) EXCEPT !.pc = pc].unattendedFor = Relevant(w).unattendedFor
    BY <1>4 DEF WaiterType
<1> QED
    BY <1>3, <1>4, <1>5, <1>6 DEF TypeOK, Reached

\* A fetched prompt is charged at most one tick as well.
LEMMA TickChargesOnce ==
    ASSUME TypeOK, NEW a \in Approvals, ChargeTick(a)
    PROVE  waiter'[a].unattendedFor <= waiter[a].unattendedFor + 1
<1> DEFINE w == Charge(waiter[a], Attended(a))
<1>1. waiter[a] \in WaiterType
    BY DEF TypeOK
<1>2. w \in WaiterType /\ w.unattendedFor <= waiter[a].unattendedFor + 1
    <2>1. /\ [waiter[a] EXCEPT !.connectedFor = waiter[a].connectedFor + 1, !.unattendedFor = 0].unattendedFor = 0
          /\ [waiter[a] EXCEPT !.unattendedFor = waiter[a].unattendedFor + 1, !.connectedFor = 0].unattendedFor
               = waiter[a].unattendedFor + 1
        <3>1. waiter[a].connectedFor + 1 \in Nat /\ waiter[a].unattendedFor + 1 \in Nat
            BY <1>1 DEF WaiterType
        <3>2. /\ [waiter[a] EXCEPT !.connectedFor = waiter[a].connectedFor + 1,
                                   !.unattendedFor = 0].unattendedFor = 0
            BY <1>1, <3>1 DEF WaiterType
        <3>3. [waiter[a] EXCEPT !.unattendedFor = waiter[a].unattendedFor + 1,
                                !.connectedFor = 0].unattendedFor
                = waiter[a].unattendedFor + 1
            BY <1>1, <3>1 DEF WaiterType
        <3> QED
            BY <3>2, <3>3
    <2>2. w \in WaiterType
        BY <1>1, ChargeType
    <2>3. waiter[a].unattendedFor \in Nat
        BY <1>1 DEF WaiterType
    <2> QED
        BY <2>1, <2>2, <2>3 DEF Charge
<1>3. PICK pc \in {"expired", "waiting"} :
        waiter' = [waiter EXCEPT ![a] = [Relevant(w) EXCEPT !.pc = pc]]
    BY DEF ChargeTick
<1> HIDE DEF w
<1>4. Relevant(w) \in WaiterType /\ Relevant(w).unattendedFor <= w.unattendedFor
    BY <1>2, RelevantClock
<1>5. [Relevant(w) EXCEPT !.pc = pc].unattendedFor = Relevant(w).unattendedFor
    BY <1>4 DEF WaiterType
<1> QED
    BY <1>1, <1>2, <1>3, <1>4, <1>5 DEF TypeOK, WaiterType

\* The length of what a history keeps and takes.
LEMMA TailShorter ==
    ASSUME NEW s \in Seq(BOOLEAN), Len(s) > 0
    PROVE  Tail(s) \in Seq(BOOLEAN) /\ Len(Tail(s)) = Len(s) - 1
OBVIOUS

LEMMA AppendLonger ==
    ASSUME NEW s \in Seq(BOOLEAN), NEW x \in BOOLEAN
    PROVE  Append(s, x) \in Seq(BOOLEAN) /\ Len(Append(s, x)) = Len(s) + 1
OBVIOUS

\* A clock that gains at most a tick is covered by a history that gains one,
\* unless the history is already as long as it gets.
LEMMA PaidArithmetic ==
    ASSUME NEW n \in Nat, NEW m \in Nat, NEW f \in Nat, NEW g \in Nat,
           NEW bound \in Nat, NEW cap \in Nat,
           cap >= bound, m = n + 1 \/ (n >= cap /\ m = n),
           n >= bound \/ f <= n, g <= f + 1
    PROVE  /\ m >= bound \/ g <= m
           /\ f + 1 >= bound => m >= bound
OBVIOUS

\* A tick is charged and remembered together.
LEMMA TickKeepsClock ==
    ASSUME ClockInv, NEW a \in Approvals, ChargeTick(a), NEW b \in Approvals
    PROVE  ClockPaid(b)' /\ KeptUnpresented(b)'
<1> DEFINE n == Len(trail[a])
<1>1. TypeOK /\ trail[a] \in Seq(BOOLEAN) /\ Attended(a) \in BOOLEAN
    BY DEF ClockInv, TypeOK, Attended
<1>2. /\ UnattendedTimeout \in Nat /\ ConnectedTimeout \in Nat
      /\ Memory \in Nat /\ Memory >= UnattendedTimeout /\ Memory > 0
    BY ApprovalAssumption DEF Memory
<1>3. n \in Nat /\ Len(trail'[a]) \in Nat
      /\ (Len(trail'[a]) = n + 1 \/ (n >= Memory /\ Len(trail'[a]) = n))
    <2>1. trail'[a] = Remember(trail[a], Attended(a))
        BY DEF ChargeTick, ClockInv, TypeOK
    <2>2. CASE n < Memory
        BY <1>1, <2>1, <2>2 DEF Remember
    <2>3. CASE ~(n < Memory)
        <3>1. Len(trail[a]) > 0
            BY <1>1, <1>2, <2>3
        <3>2. Tail(trail[a]) \in Seq(BOOLEAN) /\ Len(Tail(trail[a])) = Len(trail[a]) - 1
            BY <1>1, <3>1, TailShorter
        <3>3. Append(Tail(trail[a]), Attended(a)) \in Seq(BOOLEAN)
              /\ Len(Append(Tail(trail[a]), Attended(a))) = Len(Tail(trail[a])) + 1
            BY <1>1, <3>2, AppendLonger
        <3>4. trail'[a] = Append(Tail(trail[a]), Attended(a))
            BY <2>1, <2>3 DEF Remember
        <3>5. n \in Nat
            BY <1>1
        <3> QED
            BY <1>2, <2>3, <3>2, <3>3, <3>4, <3>5
    <2> QED
        BY <2>2, <2>3
<1>4. CASE b # a
    <2>1. waiter'[b] = waiter[b] /\ trail'[b] = trail[b] /\ observed' = observed
        BY <1>1, <1>4, ChargedWaiter DEF ChargeTick, TypeOK
    <2> QED
        BY <2>1 DEF ClockInv, ClockPaid, KeptUnpresented
<1>5. CASE b = a
    <2>1. waiter[a].unattendedFor \in Nat /\ waiter'[a].unattendedFor \in Nat
        BY <1>1, ChargedWaiter DEF TypeOK, WaiterType
    <2>2. n >= UnattendedTimeout \/ waiter[a].unattendedFor <= n
        BY DEF ClockInv, ClockPaid
    <2>3. waiter'[a].unattendedFor <= waiter[a].unattendedFor + 1
        BY <1>1, TickChargesOnce
    <2>4. ClockPaid(a)'
        <3>1. Len(trail'[a]) >= UnattendedTimeout \/ waiter'[a].unattendedFor <= Len(trail'[a])
            BY <1>2, <1>3, <2>1, <2>2, <2>3, PaidArithmetic
        <3> QED
            BY <3>1 DEF ClockPaid
    <2>5. KeptUnpresented(a)'
        <3> SUFFICES ASSUME waiter'[a].pc = "expired", a \notin observed
                     PROVE  UnattendedTimeout > 0 /\ Len(trail'[a]) >= UnattendedTimeout
            BY DEF KeptUnpresented, ChargeTick
        <3>1. UnattendedBound > 0 /\ waiter[a].unattendedFor + 1 >= UnattendedBound
            BY <1>1, TickCharges
        <3>2. UnattendedTimeout > 0 /\ UnattendedBound >= UnattendedTimeout /\ UnattendedBound \in Nat
            BY <1>2, <3>1 DEF UnattendedBound
        <3>3. waiter[a].unattendedFor + 1 >= UnattendedTimeout
            BY <1>2, <2>1, <3>1, <3>2
        <3>4. Len(trail'[a]) >= UnattendedTimeout
            BY <1>2, <1>3, <2>1, <2>2, <2>3, <3>3, PaidArithmetic
        <3> QED
            BY <3>2, <3>4
    <2> QED
        BY <1>5, <2>4, <2>5
<1> QED
    BY <1>4, <1>5

LEMMA ClockStep == ClockInv /\ [Next]_vars => ClockInv'
<1> SUFFICES ASSUME ClockInv, [Next]_vars, NEW b \in Approvals
             PROVE  ClockPaid(b)' /\ KeptUnpresented(b)'
    BY TypeStep DEF ClockInv
<1>1. TypeOK /\ ClockPaid(b) /\ KeptUnpresented(b)
    BY DEF ClockInv
<1>2. ASSUME UNCHANGED <<trail, waiter>>, observed \subseteq observed'
      PROVE  ClockPaid(b)' /\ KeptUnpresented(b)'
    BY <1>1, <1>2, ClockFrame
<1>3. ASSUME NEW a \in Approvals, NEW pc \in WaiterPC \ {"expired"}, WaiterStep(a, pc), UNCHANGED <<trail, observed>>
      PROVE  ClockPaid(b)' /\ KeptUnpresented(b)'
    BY <1>1, <1>3, WaiterStepClock, ClockFrame
<1>4. CASE List \/ UNCHANGED vars
    BY <1>2, <1>4 DEF List, vars
<1>5. ASSUME NEW c \in Clients, Connect(c) \/ Disconnect(c) \/ HandlerWork(c)
      PROVE  ClockPaid(b)' /\ KeptUnpresented(b)'
    BY <1>2, <1>5 DEF Connect, Disconnect, HandlerWork, Lookup, Send, Refused, Late, NotFound
<1>6. ASSUME NEW a \in Approvals, Alloc(a) \/ Tick(a) \/ Remove(a) \/ Return(a)
      PROVE  ClockPaid(b)' /\ KeptUnpresented(b)'
    BY <1>3, <1>6 DEF Alloc, Tick, Remove, Return, WaiterPC
<1>7. ASSUME NEW a \in Approvals, Receive(a) PROVE ClockPaid(b)' /\ KeptUnpresented(b)'
    <2>1. /\ waiter'[b].unattendedFor = waiter[b].unattendedFor
          /\ waiter'[b].pc = "expired" => waiter[b].pc = "expired"
        <3>1. /\ [waiter[a] EXCEPT !.pc = "answered", !.result = decided[a]].unattendedFor = waiter[a].unattendedFor
              /\ [waiter[a] EXCEPT !.pc = "answered", !.result = decided[a]].pc = "answered"
            BY <1>1 DEF TypeOK, WaiterType
        <3> QED
            BY <1>1, <1>7, <3>1 DEF Receive, TypeOK
    <2>2. UNCHANGED <<trail, observed>>
        BY <1>7 DEF Receive
    <2> QED
        BY <1>1, <2>1, <2>2, ClockFrame
<1>8. ASSUME NEW a \in Approvals, ChargeTick(a) PROVE ClockPaid(b)' /\ KeptUnpresented(b)'
    BY <1>8, TickKeepsClock
<1>9. ASSUME NEW c \in Clients, NEW a \in Approvals, NEW d \in Decisions, Decide(c, a, d)
      PROVE  ClockPaid(b)' /\ KeptUnpresented(b)'
    BY <1>2, <1>9 DEF Decide
<1> QED
    BY <1>4, <1>5, <1>6, <1>7, <1>8, <1>9 DEF Next, WaiterWork

\* wait: however long clients are connected, a prompt none has fetched is denied
\* by the unattended bound only, and after as many ticks.
THEOREM UnfetchedWaits == Spec => []UnpresentedKept
<1>1. Init => ClockInv
    <2>1. Init => TypeOK
        BY InitialTypes, ApprovalAssumption DEF Init, TypeOK
    <2>2. Init => \A a \in Approvals : ClockPaid(a) /\ KeptUnpresented(a)
        BY ApprovalAssumption DEF Init, ClockPaid, KeptUnpresented, Unborn
    <2> QED
        BY <2>1, <2>2 DEF ClockInv
<1>2. ClockInv => UnpresentedKept
    BY DEF ClockInv, KeptUnpresented, UnpresentedKept
<1> QED
    BY <1>1, <1>2, ClockStep, PTL DEF Spec

-----------------------------------------------------------------------------
(* The map, the ring and what clients are told.                              *)

\* The last conclusions, as many as the ring holds.
RingSize == IF Len(concluded) < RecentCap THEN Len(concluded) ELSE RecentCap

RingHolds ==
    /\ Len(recent) = RingSize
    /\ \A j \in 1 .. RingSize :
          recent[j] = concluded[Len(concluded) - RingSize + j]

Concluded(a) == \E i \in 1 .. Len(concluded) : concluded[i] = a

\* Where an approval is: shown prompts are pending or concluded, and never both.
PlaceKnown ==
    /\ \A a \in Approvals :
          a \in pending => waiter[a].pc \notin {"unborn", "removed", "done"}
    /\ \A a \in Approvals : Concluded(a) => waiter[a].pc \in {"removed", "done"}
    /\ \A a \in observed : a \in pending \/ Concluded(a)
    /\ \A c \in Clients : handler[c].pc = "missing" => Concluded(handler[c].ap)

RingInv == TypeOK /\ RingHolds /\ PlaceKnown /\ KnownUntilEvicted

\* Two conclusions of the same approval are still found after a third.
LEMMA ConcludedMore ==
    ASSUME concluded \in Seq(Approvals), NEW a \in Approvals,
           concluded' = Append(concluded, a)
    PROVE  /\ Len(concluded') = Len(concluded) + 1
           /\ \A i \in 1 .. Len(concluded) : concluded'[i] = concluded[i]
           /\ concluded'[Len(concluded) + 1] = a
           /\ \A b : Concluded(b)' <=> Concluded(b) \/ b = a
<1>1. /\ Len(concluded') = Len(concluded) + 1
      /\ \A i \in 1 .. Len(concluded) : concluded'[i] = concluded[i]
      /\ concluded'[Len(concluded) + 1] = a
    OBVIOUS
<1>2. Len(concluded) \in Nat
    OBVIOUS
<1>3. ASSUME NEW b PROVE Concluded(b)' <=> Concluded(b) \/ b = a
    <2>1. 1 .. Len(concluded') = (1 .. Len(concluded)) \cup {Len(concluded) + 1}
        BY <1>1, <1>2
    <2> QED
        BY <1>1, <2>1 DEF Concluded
<1> QED
    BY <1>1, <1>3

\* What was concluded stays so, whoever is concluded next.
LEMMA MoreConcluded ==
    ASSUME concluded \in Seq(Approvals), NEW a \in Approvals,
           concluded' = Append(concluded, a), UNCHANGED handler
    PROVE  \A c \in Clients : Concluded(handler[c].ap) => Concluded(handler[c].ap)'
<1>1. /\ Len(concluded') = Len(concluded) + 1 /\ Len(concluded) \in Nat
      /\ \A i \in 1 .. Len(concluded) : concluded'[i] = concluded[i]
    OBVIOUS
<1> QED
    BY <1>1 DEF Concluded

\* The last entries of a sequence.
LEMMA LastOnes ==
    ASSUME NEW S, NEW s \in Seq(S), NEW k \in Nat, k <= Len(s)
    PROVE  /\ SubSeq(s, Len(s) - k + 1, Len(s)) \in Seq(S)
           /\ Len(SubSeq(s, Len(s) - k + 1, Len(s))) = k
           /\ \A j \in 1 .. k : SubSeq(s, Len(s) - k + 1, Len(s))[j] = s[Len(s) - k + j]
<1> DEFINE n == Len(s)
           m == n - k + 1
           t == SubSeq(s, m, n)
<1>1. n \in Nat /\ m \in Int /\ n \in Int /\ m >= 1 /\ m <= n + 1
    OBVIOUS
<1>2. \A i \in m .. n : s[i] \in S
    BY <1>1
<1>3. n - m + 1 = k /\ (m <= n <=> k > 0)
    BY <1>1
<1> HIDE DEF n, m
<1>4. /\ t \in Seq(S) /\ Len(t) = IF m <= n THEN n - m + 1 ELSE 0
      /\ \A i \in 1 .. n - m + 1 : t[i] = s[m + i - 1]
    BY <1>1, <1>2, SubSeqProperties
<1>5. Len(t) = k
    BY <1>1, <1>3, <1>4
<1>6. \A j \in 1 .. k : t[j] = s[n - k + j]
    <2> SUFFICES ASSUME NEW j \in 1 .. k PROVE t[j] = s[n - k + j]
        OBVIOUS
    <2>1. m + j - 1 = n - k + j
        BY <1>1 DEF m
    <2> HIDE DEF t
    <2> QED
        BY <1>3, <1>4, <2>1
<1> QED
    BY <1>4, <1>5, <1>6 DEF n, m

\* A ring that takes one more holds the latest conclusions again.
LEMMA RingTakes ==
    ASSUME TypeOK, RingHolds, NEW a \in Approvals,
           recent' = Remembered(a), concluded' = Append(concluded, a)
    PROVE  RingHolds'
<1> DEFINE n == Len(concluded)
           k == RingSize
<1>1. /\ n \in Nat /\ RecentCap \in Nat /\ RecentCap > 0
      /\ recent \in Seq(Approvals) /\ concluded \in Seq(Approvals)
    BY ApprovalAssumption DEF TypeOK
<1>2. /\ Len(concluded') = n + 1
      /\ \A i \in 1 .. n : concluded'[i] = concluded[i]
      /\ concluded'[n + 1] = a
    BY <1>1, ConcludedMore
<1>3. /\ k \in Nat /\ k <= n /\ k <= RecentCap /\ Len(recent) = k
      /\ \A j \in 1 .. k : recent[j] = concluded[n - k + j]
    <2>1. k \in Nat /\ k <= n /\ k <= RecentCap
        BY <1>1 DEF RingSize
    <2> QED
        BY <2>1 DEF RingHolds
<1>4. CASE n < RecentCap
    <2>1. k = n /\ RingSize' = n + 1
        BY <1>1, <1>2, <1>4 DEF RingSize
    <2>2. recent' = Append(recent, a)
        BY <1>3, <1>4, <2>1 DEF Remembered
    <2>3. /\ Len(recent') = n + 1
          /\ \A j \in 1 .. n : recent'[j] = recent[j]
          /\ recent'[n + 1] = a
        BY <1>1, <1>3, <2>1, <2>2
    <2>4. ASSUME NEW j \in 1 .. (n + 1)
          PROVE  recent'[j] = concluded'[(n + 1) - (n + 1) + j]
        <3>1. (n + 1) - (n + 1) + j = j /\ (j \in 1 .. n \/ j = n + 1)
            BY <1>1
        <3>2. ASSUME j \in 1 .. n PROVE recent[j] = concluded[j]
            BY <1>1, <1>3, <2>1, <3>2
        <3> QED
            BY <1>2, <2>3, <3>1, <3>2
    <2> QED
        BY <1>2, <2>1, <2>3, <2>4 DEF RingHolds
<1>5. CASE ~(n < RecentCap)
    <2>1. k = RecentCap /\ RingSize' = k
        BY <1>1, <1>2, <1>5 DEF RingSize
    <2>2. recent' = Append(Tail(recent), a) /\ recent # <<>>
        BY <1>1, <1>3, <2>1 DEF Remembered
    <2>3. /\ Tail(recent) \in Seq(Approvals) /\ Len(Tail(recent)) = k - 1
          /\ \A j \in 1 .. (k - 1) : Tail(recent)[j] = recent[j + 1]
        BY <1>1, <1>3, <2>2
    <2>4. /\ Len(recent') = k
          /\ \A j \in 1 .. (k - 1) : recent'[j] = recent[j + 1]
          /\ recent'[k] = a
        <3>1. k \in Nat /\ k > 0
            BY <1>1, <2>1
        <3> HIDE DEF k
        <3> QED
            BY <2>2, <2>3, <3>1
    <2>5. ASSUME NEW j \in 1 .. k PROVE recent'[j] = concluded'[(n + 1) - k + j]
        <3>1. CASE j = k
            <4>1. (n + 1) - k + j = n + 1
                BY <1>1, <1>3, <3>1
            <4> QED
                BY <1>2, <2>4, <3>1, <4>1
        <3>2. CASE j # k
            <4>1. /\ j \in 1 .. (k - 1) /\ j + 1 \in 1 .. k
                  /\ (n + 1) - k + j = n - k + (j + 1)
                  /\ n - k + (j + 1) \in 1 .. n
                BY <1>1, <1>3, <3>2
            <4>2. recent[j + 1] = concluded[n - k + (j + 1)]
                BY <1>3, <4>1
            <4> QED
                BY <1>2, <2>4, <4>1, <4>2
        <3> QED
            BY <3>1, <3>2
    <2> QED
        BY <1>2, <2>1, <2>4, <2>5 DEF RingHolds
<1> QED
    BY <1>4, <1>5

\* What the ring does not hold has been followed by as many conclusions as it can.
LEMMA ForgottenIsOld ==
    ASSUME TypeOK, RingHolds, NEW i \in 1 .. Len(concluded),
           \A j \in DOMAIN recent : recent[j] # concluded[i]
    PROVE  Len(concluded) - i >= RecentCap
<1> DEFINE n == Len(concluded)
           k == RingSize
<1>1. n \in Nat /\ RecentCap \in Nat /\ recent \in Seq(Approvals) /\ i \in Nat /\ i >= 1
    BY ApprovalAssumption DEF TypeOK
<1>2. /\ k \in Nat /\ (k = n \/ k = RecentCap) /\ DOMAIN recent = 1 .. k
      /\ \A j \in 1 .. k : recent[j] = concluded[n - k + j]
    <2>1. k \in Nat /\ (k = n \/ k = RecentCap)
        BY <1>1 DEF RingSize
    <2>2. Len(recent) = k /\ \A j \in 1 .. k : recent[j] = concluded[n - k + j]
        BY DEF RingHolds
    <2>3. DOMAIN recent = 1 .. k
        BY <1>1, <2>2
    <2> QED
        BY <2>1, <2>2, <2>3
<1>3. i <= n - k
    <2> SUFFICES ASSUME ~(i <= n - k) PROVE FALSE
        OBVIOUS
    <2>1. i - (n - k) \in 1 .. k /\ n - k + (i - (n - k)) = i
        BY <1>1, <1>2
    <2> QED
        BY <1>2, <2>1
<1> QED
    BY <1>1, <1>2, <1>3

\* Steps that leave the ring and its history alone.
LEMMA RingFrame ==
    ASSUME RingHolds, UNCHANGED <<recent, concluded>> PROVE RingHolds'
BY DEF RingHolds, RingSize

LEMMA KnownFrame ==
    ASSUME KnownUntilEvicted, UNCHANGED <<unknown, concluded>> PROVE KnownUntilEvicted'
BY DEF KnownUntilEvicted

LEMMA ConcludedFrame ==
    ASSUME UNCHANGED concluded PROVE \A a : Concluded(a)' <=> Concluded(a)
BY DEF Concluded

\* A waiter moves from a place it may be in to one that means the same.
SamePlace(p, q) ==
    /\ p \in {"unborn", "removed", "done"} <=> q \in {"unborn", "removed", "done"}
    /\ p \in {"removed", "done"} => q \in {"removed", "done"}

LEMMA PlaceFrame ==
    ASSUME PlaceKnown, UNCHANGED <<pending, observed, concluded, handler>>,
           \A b \in Approvals : SamePlace(waiter[b].pc, waiter'[b].pc)
    PROVE  PlaceKnown'
<1>1. \A b : Concluded(b)' <=> Concluded(b)
    BY ConcludedFrame
<1>2. \A b \in Approvals :
         /\ waiter'[b].pc \in {"unborn", "removed", "done"}
              => waiter[b].pc \in {"unborn", "removed", "done"}
         /\ waiter[b].pc \in {"removed", "done"} => waiter'[b].pc \in {"removed", "done"}
    BY DEF SamePlace
<1> QED
    BY <1>1, <1>2 DEF PlaceKnown

\* Handlers only leave "missing", Decide excepted.
LEMMA HandlerFrame ==
    ASSUME TypeOK, PlaceKnown, UNCHANGED <<pending, observed, concluded, waiter>>,
           \A c \in Clients : handler'[c].pc = "missing" =>
              handler[c].pc = "missing" /\ handler'[c].ap = handler[c].ap
    PROVE  PlaceKnown'
BY ConcludedFrame DEF PlaceKnown

LEMMA HandlerStepPlace ==
    ASSUME TypeOK, NEW c \in Clients, NEW pc \in {"sending", "refused"},
           HandlerStep(c, pc) \/ handler' = [handler EXCEPT ![c] = Idle]
    PROVE  \A d \in Clients : handler'[d].pc = "missing" =>
              handler[d].pc = "missing" /\ handler'[d].ap = handler[d].ap
<1>1. [handler[c] EXCEPT !.pc = pc].pc = pc
    BY DEF TypeOK, HandlerType
<1>2. Idle.pc = "idle"
    BY DEF Idle
<1>3. handler \in [Clients -> HandlerType]
    BY DEF TypeOK
<1>4. \/ handler' = [handler EXCEPT ![c] = [handler[c] EXCEPT !.pc = pc]]
      \/ handler' = [handler EXCEPT ![c] = Idle]
    BY DEF HandlerStep
<1> QED
    BY <1>1, <1>2, <1>3, <1>4

\* The waiter's own steps, the removal excepted.
LEMMA WaiterMoves ==
    ASSUME TypeOK, NEW a \in Approvals, waiter[a].pc \notin {"unborn", "removed", "done"},
           Receive(a) \/ Tick(a) \/ ChargeTick(a)
    PROVE  \A b \in Approvals : SamePlace(waiter[b].pc, waiter'[b].pc)
<1>1. CASE Tick(a)
    <2>1. PICK pc \in {"online", "offline"} : WaiterStep(a, pc)
        BY <1>1 DEF Tick
    <2>2. \A b \in Approvals : waiter'[b].pc = IF b = a THEN pc ELSE waiter[b].pc
        BY <2>1, WaiterStepClock DEF WaiterPC
    <2> QED
        BY <2>1, <2>2 DEF SamePlace
<1>2. CASE Receive(a)
    <2>1. [waiter[a] EXCEPT !.pc = "answered", !.result = decided[a]].pc = "answered"
        BY DEF TypeOK, WaiterType
    <2>2. \A b \in Approvals :
            waiter'[b].pc = IF b = a THEN "answered" ELSE waiter[b].pc
        BY <1>2, <2>1 DEF Receive, TypeOK
    <2> QED
        BY <2>2 DEF SamePlace
<1>3. CASE ChargeTick(a)
    <2>1. /\ waiter'[a].pc \in {"expired", "waiting"}
          /\ \A b \in Approvals \ {a} : waiter'[b] = waiter[b]
        <3>1. Relevant(Charge(waiter[a], Attended(a))) \in WaiterType
            BY ChargeType, RelevantClock DEF TypeOK
        <3>2. PICK pc \in {"expired", "waiting"} :
                waiter' = [waiter EXCEPT ![a] =
                             [Relevant(Charge(waiter[a], Attended(a))) EXCEPT !.pc = pc]]
            BY <1>3 DEF ChargeTick
        <3> HIDE DEF Relevant, Charge
        <3>3. [Relevant(Charge(waiter[a], Attended(a))) EXCEPT !.pc = pc].pc = pc
            BY <3>1 DEF WaiterType
        <3> QED
            BY <3>2, <3>3 DEF TypeOK
    <2> QED
        BY <2>1 DEF SamePlace
<1> QED
    BY <1>1, <1>2, <1>3

\* remove takes an approval out of the map and puts it in the ring.
LEMMA RemovePlace ==
    ASSUME RingInv, NEW a \in Approvals, Remove(a)
    PROVE  RingHolds' /\ PlaceKnown' /\ KnownUntilEvicted'
<1>1. TypeOK /\ RingHolds /\ PlaceKnown /\ KnownUntilEvicted
    BY DEF RingInv
<1>2. /\ pending' = pending \ {a} /\ recent' = Remembered(a)
      /\ concluded' = Append(concluded, a) /\ WaiterStep(a, "removed")
      /\ UNCHANGED <<observed, handler, unknown>>
    BY DEF Remove
<1>3. /\ Len(concluded') = Len(concluded) + 1
      /\ \A i \in 1 .. Len(concluded) : concluded'[i] = concluded[i]
      /\ \A b : Concluded(b)' <=> Concluded(b) \/ b = a
    BY <1>1, <1>2, ConcludedMore DEF TypeOK
<1>4. \A b \in Approvals : waiter'[b].pc = IF b = a THEN "removed" ELSE waiter[b].pc
    BY <1>1, <1>2, WaiterStepClock DEF WaiterPC
<1>5. RingHolds'
    BY <1>1, <1>2, RingTakes
<1>6. PlaceKnown'
    <2>1. \A b \in Approvals :
             b \in pending' => waiter'[b].pc \notin {"unborn", "removed", "done"}
        BY <1>1, <1>2, <1>4 DEF PlaceKnown
    <2>2. \A b \in Approvals : Concluded(b)' => waiter'[b].pc \in {"removed", "done"}
        BY <1>1, <1>3, <1>4 DEF PlaceKnown
    <2>3. \A b \in observed' : b \in pending' \/ Concluded(b)'
        BY <1>1, <1>2, <1>3 DEF PlaceKnown
    <2>4. \A c \in Clients : handler[c].pc = "missing" => Concluded(handler[c].ap)'
        <3> SUFFICES ASSUME NEW c \in Clients, handler[c].pc = "missing"
                     PROVE  Concluded(handler[c].ap)'
            OBVIOUS
        <3>1. handler' = handler
            BY <1>2
        <3>2. Concluded(handler[c].ap)
            BY <1>1 DEF PlaceKnown
        <3> QED
            BY <1>1, <1>2, <3>1, <3>2, MoreConcluded DEF TypeOK
    <2> QED
        BY <1>2, <2>1, <2>2, <2>3, <2>4 DEF PlaceKnown
<1>7. KnownUntilEvicted'
    <2> SUFFICES ASSUME NEW b \in unknown
                 PROVE  \E i \in DOMAIN concluded' :
                            concluded'[i] = b /\ Len(concluded') - i >= RecentCap
        BY <1>2 DEF KnownUntilEvicted
    <2>1. PICK i \in DOMAIN concluded :
             concluded[i] = b /\ Len(concluded) - i >= RecentCap
        BY <1>1 DEF KnownUntilEvicted
    <2>2. /\ DOMAIN concluded = 1 .. Len(concluded) /\ Len(concluded) \in Nat
          /\ DOMAIN concluded' = 1 .. Len(concluded') /\ RecentCap \in Nat
        BY <1>1, <1>2, ApprovalAssumption DEF TypeOK
    <2>3. i \in DOMAIN concluded' /\ Len(concluded') - i >= RecentCap
        BY <1>3, <2>1, <2>2
    <2> QED
        BY <1>3, <2>1, <2>2, <2>3
<1> QED
    BY <1>5, <1>6, <1>7

\* A client is sent away only by a ring that has let the approval go.
LEMMA NotFoundKnown ==
    ASSUME RingInv, NEW c \in Clients, NotFound(c)
    PROVE  KnownUntilEvicted'
<1> DEFINE a == handler[c].ap
<1>1. TypeOK /\ RingHolds /\ PlaceKnown /\ KnownUntilEvicted
    BY DEF RingInv
<1>2. PICK i \in 1 .. Len(concluded) : concluded[i] = a
    BY <1>1 DEF NotFound, PlaceKnown, Concluded
<1>3. Len(concluded) - i >= RecentCap
    BY <1>1, <1>2, ForgottenIsOld DEF NotFound
<1>4. unknown' = unknown \cup {a} /\ concluded' = concluded
    BY DEF NotFound
<1>5. DOMAIN concluded = 1 .. Len(concluded)
    BY <1>1 DEF TypeOK
<1> QED
    BY <1>1, <1>2, <1>3, <1>4, <1>5 DEF KnownUntilEvicted

\* Every step keeps the map, the ring and the clients' knowledge in agreement.
LEMMA RingStep == RingInv /\ [Next]_vars => RingInv'
<1> SUFFICES ASSUME RingInv, [Next]_vars
             PROVE  RingHolds' /\ PlaceKnown' /\ KnownUntilEvicted'
    BY TypeStep DEF RingInv
<1> DEFINE Goal == RingHolds' /\ PlaceKnown' /\ KnownUntilEvicted'
<1>1. TypeOK /\ RingHolds /\ PlaceKnown /\ KnownUntilEvicted
    BY DEF RingInv
<1>2. ASSUME UNCHANGED <<recent, concluded, unknown>>, PlaceKnown' PROVE Goal
    BY <1>1, <1>2, RingFrame, KnownFrame
<1>3. ASSUME UNCHANGED <<pending, observed, concluded, waiter, handler>> PROVE PlaceKnown'
    BY <1>1, <1>3, PlaceFrame DEF SamePlace
<1>4. ASSUME NEW c \in Clients, Connect(c) \/ Disconnect(c) PROVE Goal
    BY <1>2, <1>3, <1>4 DEF Connect, Disconnect
<1>5. CASE UNCHANGED vars
    BY <1>2, <1>3, <1>5 DEF vars
<1>6. CASE List
    <2>1. PlaceKnown'
        BY <1>1, <1>6, ConcludedFrame DEF List, PlaceKnown
    <2> QED
        BY <1>2, <1>6, <2>1 DEF List
<1>7. ASSUME NEW a \in Approvals, Alloc(a) PROVE Goal
    <2>1. \A b \in Approvals : waiter'[b].pc = IF b = a THEN "waiting" ELSE waiter[b].pc
        BY <1>1, <1>7, WaiterStepClock DEF Alloc, WaiterPC
    <2>2. pending' = pending \cup {a} /\ UNCHANGED <<observed, concluded, handler>>
          /\ waiter[a].pc = "unborn"
        BY <1>7 DEF Alloc
    <2>3. PlaceKnown'
        BY <1>1, <2>1, <2>2, ConcludedFrame DEF PlaceKnown
    <2> QED
        BY <1>2, <1>7, <2>3 DEF Alloc
<1>8. ASSUME NEW a \in Approvals, Receive(a) \/ Tick(a) \/ ChargeTick(a) PROVE Goal
    <2>1. waiter[a].pc \notin {"unborn", "removed", "done"}
        BY <1>8 DEF Receive, Tick, ChargeTick
    <2>2. \A b \in Approvals : SamePlace(waiter[b].pc, waiter'[b].pc)
        BY <1>1, <1>8, <2>1, WaiterMoves
    <2>3. UNCHANGED <<recent, unknown, pending, observed, concluded, handler>>
        BY <1>8 DEF Receive, Tick, ChargeTick
    <2> QED
        BY <1>1, <1>2, <2>2, <2>3, PlaceFrame
<1>9. ASSUME NEW a \in Approvals, Remove(a) PROVE Goal
    BY <1>9, RemovePlace
<1>10. ASSUME NEW a \in Approvals, Return(a) PROVE Goal
    <2>1. \A b \in Approvals : waiter'[b].pc = IF b = a THEN "done" ELSE waiter[b].pc
        BY <1>1, <1>10, WaiterStepClock DEF Return, WaiterPC
    <2>2. waiter[a].pc = "removed" /\ UNCHANGED <<recent, unknown, pending, observed, concluded, handler>>
        BY <1>10 DEF Return
    <2>3. \A b \in Approvals : SamePlace(waiter[b].pc, waiter'[b].pc)
        BY <2>1, <2>2 DEF SamePlace
    <2> QED
        BY <1>1, <1>2, <2>2, <2>3, PlaceFrame
<1>11. ASSUME NEW c \in Clients, NEW a \in Approvals, NEW d \in Decisions, Decide(c, a, d)
       PROVE  Goal
    <2>1. /\ a \in observed /\ UNCHANGED <<recent, unknown, pending, observed, concluded, waiter>>
          /\ handler' = [handler EXCEPT ![c] =
                [pc |-> IF a \in pending THEN "found" ELSE "missing", ap |-> a, d |-> d]]
        BY <1>11 DEF Decide
    <2>2. \A b \in Clients \ {c} : handler'[b] = handler[b]
        BY <1>1, <2>1 DEF TypeOK
    <2>3. handler'[c].ap = a /\ (handler'[c].pc = "missing" => a \notin pending)
        BY <1>1, <2>1 DEF TypeOK
    <2>4. \A b \in Clients : handler'[b].pc = "missing" => Concluded(handler'[b].ap)
        BY <1>1, <2>1, <2>2, <2>3 DEF PlaceKnown
    <2>5. PlaceKnown'
        BY <1>1, <2>1, <2>4, ConcludedFrame DEF PlaceKnown
    <2> QED
        BY <1>2, <2>1, <2>5
<1>12. ASSUME NEW c \in Clients, Lookup(c) \/ Send(c) \/ Refused(c) \/ Late(c) PROVE Goal
    <2>1. UNCHANGED <<recent, unknown, pending, observed, concluded, waiter>>
        BY <1>12 DEF Lookup, Send, Refused, Late
    <2>2. \/ \E pc \in {"sending", "refused"} : HandlerStep(c, pc)
          \/ handler' = [handler EXCEPT ![c] = Idle]
        BY <1>12 DEF Lookup, Send, Refused, Late, Reply
    <2>3. \A d \in Clients : handler'[d].pc = "missing" =>
             handler[d].pc = "missing" /\ handler'[d].ap = handler[d].ap
        BY <1>1, <2>2, HandlerStepPlace
    <2> QED
        BY <1>1, <1>2, <2>1, <2>3, HandlerFrame
<1>13. ASSUME NEW c \in Clients, NotFound(c) PROVE Goal
    <2>1. UNCHANGED <<recent, pending, observed, concluded, waiter>>
          /\ handler' = [handler EXCEPT ![c] = Idle]
        BY <1>13 DEF NotFound
    <2>2. \A d \in Clients : handler'[d].pc = "missing" =>
             handler[d].pc = "missing" /\ handler'[d].ap = handler[d].ap
        BY <1>1, <2>1, HandlerStepPlace
    <2> QED
        BY <1>1, <1>13, <2>1, <2>2, HandlerFrame, RingFrame, NotFoundKnown
<1> QED
    BY <1>4, <1>5, <1>6, <1>7, <1>8, <1>9, <1>10, <1>11, <1>12, <1>13
    DEF Next, HandlerWork, WaiterWork

LEMMA RingInvariant == Spec => []RingInv
<1>1. Init => RingInv
    <2> SUFFICES ASSUME Init PROVE RingInv
        OBVIOUS
    <2>1. TypeOK
        BY InitialTypes, ApprovalAssumption DEF Init, TypeOK
    <2>2. Len(concluded) = 0 /\ Len(recent) = 0
        BY DEF Init
    <2>3. RingHolds
        BY <2>2, ApprovalAssumption DEF RingHolds, RingSize
    <2>4. PlaceKnown
        BY <2>2 DEF Init, PlaceKnown, Concluded, Idle
    <2>5. KnownUntilEvicted
        BY DEF Init, KnownUntilEvicted
    <2> QED
        BY <2>1, <2>3, <2>4, <2>5 DEF RingInv
<1> QED
    BY <1>1, RingStep, PTL DEF Spec

\* remove: an approval is never in the map and in the ring, and the ring holds the
\* latest recentCap conclusions in the order in which they were made.
THEOREM RingFollows == Spec => []RingIsRecent
<1>1. RingInv => RingIsRecent
    <2> SUFFICES ASSUME RingInv PROVE RingIsRecent
        OBVIOUS
    <2> DEFINE n == Len(concluded)
               k == RingSize
    <2>1. TypeOK /\ RingHolds /\ PlaceKnown
        BY DEF RingInv
    <2>2. /\ n \in Nat /\ RecentCap \in Nat
          /\ recent \in Seq(Approvals) /\ concluded \in Seq(Approvals)
        BY <2>1, ApprovalAssumption DEF TypeOK
    <2>3. k \in Nat /\ k <= n /\ k = (IF n < RecentCap THEN n ELSE RecentCap)
        BY <2>2 DEF RingSize
    <2>4. Len(recent) = k /\ \A j \in 1 .. k : recent[j] = concluded[n - k + j]
        BY <2>1 DEF RingHolds
    <2>5. \A i \in DOMAIN recent : recent[i] \notin pending
        <3> SUFFICES ASSUME NEW i \in DOMAIN recent PROVE recent[i] \notin pending
            OBVIOUS
        <3>1. i \in 1 .. k /\ n - k + i \in 1 .. n
            BY <2>2, <2>3, <2>4
        <3>2. Concluded(recent[i]) /\ recent[i] \in Approvals
            BY <2>2, <2>4, <3>1 DEF Concluded
        <3> QED
            BY <2>1, <3>2 DEF PlaceKnown
    <2>6. recent = SubSeq(concluded, n - k + 1, n)
        <3> DEFINE s == SubSeq(concluded, n - k + 1, n)
        <3>1. /\ s \in Seq(Approvals) /\ Len(s) = k
              /\ \A j \in 1 .. k : s[j] = concluded[n - k + j]
            BY <2>2, <2>3, LastOnes
        <3> HIDE DEF s
        <3>2. \A j \in 1 .. Len(recent) : recent[j] = s[j]
            BY <2>4, <3>1
        <3>3. recent = s
            BY <2>2, <2>4, <3>1, <3>2, SeqEqual
        <3> QED
            BY <3>3 DEF s
    <2> QED
        BY <2>3, <2>5, <2>6 DEF RingIsRecent
<1> QED
    BY <1>1, RingInvariant, PTL

\* recall: a client that answers a prompt it was shown is told 404 only after
\* recentCap other prompts were concluded; no moment between the map and the ring
\* loses it.
THEOREM ShownIsKnown == Spec => []KnownUntilEvicted
BY RingInvariant, PTL DEF RingInv

-----------------------------------------------------------------------------
(* The clock of a prompt and what its ticks saw.                             *)

\* A clock is the length of the run of like ticks that ends the history.
Run(t, x, c) ==
    /\ c <= Len(t)
    /\ \A i \in 1 .. Len(t) : i > Len(t) - c => t[i] = x

\* A prompt that still waits has not reached the bound of either clock.
Below(clock, bound) == IF bound > 0 THEN clock < bound ELSE clock = 0

Ticking(a) ==
    /\ Len(trail[a]) <= Memory
    /\ Run(trail[a], TRUE, waiter[a].connectedFor)
    /\ Run(trail[a], FALSE, waiter[a].unattendedFor)
    /\ waiter[a].pc \in {"unborn", "waiting", "online", "offline"} =>
          /\ Below(waiter[a].connectedFor, ConnectedTimeout)
          /\ Below(waiter[a].unattendedFor, UnattendedBound)
    /\ waiter[a].pc = "expired" =>
          \/ Reached(waiter[a].connectedFor, ConnectedTimeout)
          \/ Reached(waiter[a].unattendedFor, UnattendedBound)

TickInv == TypeOK /\ \A a \in Approvals : Ticking(a)

\* What a tick does to the two clocks, the history and the wait.
LEMMA ClocksCharged ==
    ASSUME TypeOK, NEW a \in Approvals, ChargeTick(a)
    PROVE  LET x == Attended(a)
               c == IF x THEN waiter[a].connectedFor + 1 ELSE 0
               u == IF x THEN 0 ELSE waiter[a].unattendedFor + 1
           IN /\ waiter'[a].connectedFor = IF ConnectedTimeout > 0 THEN c ELSE 0
              /\ waiter'[a].unattendedFor = IF UnattendedTimeout > 0 THEN u ELSE 0
              /\ waiter'[a].pc = IF \/ x /\ Reached(c, ConnectedTimeout)
                                    \/ ~x /\ Reached(u, UnattendedBound)
                                 THEN "expired" ELSE "waiting"
              /\ trail'[a] = Remember(trail[a], x)
<1> DEFINE x == Attended(a)
           v == Charge(waiter[a], x)
           r == Relevant(v)
<1>1. waiter[a] \in WaiterType /\ x \in BOOLEAN
    BY DEF TypeOK, Attended
<1>2. v \in WaiterType /\ r \in WaiterType
    BY <1>1, ChargeType, RelevantClock
<1>3. waiter[a].connectedFor + 1 \in Nat /\ waiter[a].unattendedFor + 1 \in Nat
    BY <1>1 DEF WaiterType
<1>4. /\ v.connectedFor = IF x THEN waiter[a].connectedFor + 1 ELSE 0
      /\ v.unattendedFor = IF x THEN 0 ELSE waiter[a].unattendedFor + 1
    <2>1. CASE x
        <3>1. v = [waiter[a] EXCEPT !.connectedFor = waiter[a].connectedFor + 1,
                                    !.unattendedFor = 0]
            BY <2>1 DEF Charge
        <3> HIDE DEF v
        <3> QED
            BY <1>1, <1>3, <2>1, <3>1 DEF WaiterType
    <2>2. CASE ~x
        <3>1. v = [waiter[a] EXCEPT !.unattendedFor = waiter[a].unattendedFor + 1,
                                    !.connectedFor = 0]
            BY <2>2 DEF Charge
        <3> HIDE DEF v
        <3> QED
            BY <1>1, <1>3, <2>2, <3>1 DEF WaiterType
    <2> QED
        BY <2>1, <2>2
<1>5. \E pc \in {"expired", "waiting"} :
        /\ waiter' = [waiter EXCEPT ![a] = [r EXCEPT !.pc = pc]]
        /\ pc = "expired" <=> \/ x /\ Reached(v.connectedFor, ConnectedTimeout)
                              \/ ~x /\ Reached(v.unattendedFor, UnattendedBound)
    BY <1>1 DEF ChargeTick
<1>6. PICK pc \in {"expired", "waiting"} :
        /\ waiter' = [waiter EXCEPT ![a] = [r EXCEPT !.pc = pc]]
        /\ pc = "expired" <=> \/ x /\ Reached(v.connectedFor, ConnectedTimeout)
                              \/ ~x /\ Reached(v.unattendedFor, UnattendedBound)
    BY <1>5
<1>7. trail'[a] = Remember(trail[a], x)
    BY DEF ChargeTick, TypeOK
<1> HIDE DEF v
<1>8. /\ r.connectedFor = IF ConnectedTimeout > 0 THEN v.connectedFor ELSE 0
      /\ r.unattendedFor = IF UnattendedTimeout > 0 THEN v.unattendedFor ELSE 0
    BY <1>2 DEF Relevant, WaiterType
<1> HIDE DEF r
<1>9. /\ [r EXCEPT !.pc = pc].pc = pc
      /\ [r EXCEPT !.pc = pc].connectedFor = r.connectedFor
      /\ [r EXCEPT !.pc = pc].unattendedFor = r.unattendedFor
    BY <1>2 DEF WaiterType
<1>10. waiter'[a] = [r EXCEPT !.pc = pc]
    BY <1>6 DEF TypeOK
<1> HIDE DEF x
<1> QED
    BY <1>4, <1>6, <1>7, <1>8, <1>9, <1>10 DEF x

\* A tick like the last ones makes the run longer, one that differs ends it.
LEMMA RunGrows ==
    ASSUME NEW t \in Seq(BOOLEAN), NEW x \in BOOLEAN, NEW c \in Nat,
           Len(t) <= Memory, c < Memory, Run(t, x, c)
    PROVE  /\ Remember(t, x) \in Seq(BOOLEAN)
           /\ Len(Remember(t, x)) <= Memory
           /\ Run(Remember(t, x), x, c + 1)
<1> DEFINE n == Len(t)
           r == Remember(t, x)
<1>1. n \in Nat /\ Memory \in Nat /\ Memory > 0
    BY ApprovalAssumption DEF Memory
<1>2. \A i \in 1 .. n : i > n - c => t[i] = x
    BY DEF Run
<1>3. c <= n
    BY DEF Run
<1>4. CASE n < Memory
    <2>1. r = Append(t, x)
        BY <1>4 DEF Remember
    <2>2. /\ r \in Seq(BOOLEAN) /\ Len(r) = n + 1 /\ r[n + 1] = x
          /\ \A i \in 1 .. n : r[i] = t[i]
        BY <2>1
    <2> HIDE DEF r, n
    <2>3. \A i \in 1 .. n + 1 : i > (n + 1) - (c + 1) => r[i] = x
        BY <1>1, <1>2, <2>2
    <2>4. Len(r) <= Memory /\ c + 1 <= Len(r)
        BY <1>1, <1>3, <1>4, <2>2
    <2> QED
        BY <2>2, <2>3, <2>4 DEF Run, r
<1>5. CASE ~(n < Memory)
    <2>1. n > 0 /\ n = Memory
        BY <1>1, <1>5
    <2>2. r = Append(Tail(t), x)
        BY <1>5 DEF Remember
    <2>3. /\ Tail(t) \in Seq(BOOLEAN) /\ Len(Tail(t)) = n - 1
          /\ \A i \in 1 .. n - 1 : Tail(t)[i] = t[i + 1]
        BY <2>1
    <2>4. /\ r \in Seq(BOOLEAN) /\ Len(r) = n /\ r[n] = x
          /\ \A i \in 1 .. n - 1 : r[i] = t[i + 1]
        <3> HIDE DEF n
        <3>1. n - 1 \in Nat /\ (n - 1) + 1 = n
            BY <1>1, <2>1
        <3> QED
            BY <2>2, <2>3, <3>1
    <2> HIDE DEF r, n
    <2>5. \A i \in 1 .. n : i > n - (c + 1) => r[i] = x
        <3> SUFFICES ASSUME NEW i \in 1 .. n, i > n - (c + 1) PROVE r[i] = x
            OBVIOUS
        <3>1. CASE i = n
            BY <2>4, <3>1
        <3>2. CASE i # n
            <4>1. i \in 1 .. n - 1 /\ i + 1 \in 1 .. n /\ i + 1 > n - c
                BY <1>1, <3>2
            <4> QED
                BY <1>2, <2>4, <4>1
        <3> QED
            BY <3>1, <3>2
    <2>6. Len(r) <= Memory /\ c + 1 <= Len(r)
        BY <1>1, <2>1, <2>4
    <2> QED
        BY <2>4, <2>5, <2>6 DEF Run, r
<1> QED
    BY <1>4, <1>5

LEMMA RunEmpty ==
    ASSUME NEW t \in Seq(BOOLEAN), NEW x \in BOOLEAN
    PROVE  Run(t, x, 0)
BY DEF Run

\* The bounds are remembered in full.
LEMMA BoundsRemembered ==
    /\ Memory \in Nat /\ Memory > 0
    /\ ConnectedTimeout \in Nat /\ UnattendedTimeout \in Nat /\ UnattendedBound \in Nat
    /\ ConnectedTimeout <= Memory /\ UnattendedBound <= Memory
    /\ UnattendedBound >= UnattendedTimeout
    /\ UnattendedBound > 0 <=> UnattendedTimeout > 0
    /\ UnattendedBound > 0 => UnattendedBound >= ConnectedTimeout
BY ApprovalAssumption DEF Memory, UnattendedBound

\* A tick charges one clock for what it sees and forgets the other.
LEMMA TickTicks ==
    ASSUME TypeOK, NEW a \in Approvals, ChargeTick(a), Ticking(a)
    PROVE  Ticking(a)'
<1> DEFINE x == Attended(a)
           t == trail[a]
           m == waiter[a].connectedFor
           k == waiter[a].unattendedFor
           c == IF x THEN m + 1 ELSE 0
           u == IF x THEN 0 ELSE k + 1
           r == Remember(t, x)
<1>1. x \in BOOLEAN /\ t \in Seq(BOOLEAN) /\ m \in Nat /\ k \in Nat
    BY DEF TypeOK, WaiterType, Attended
<1>2. /\ Len(t) <= Memory /\ Run(t, TRUE, m) /\ Run(t, FALSE, k)
      /\ Below(m, ConnectedTimeout) /\ Below(k, UnattendedBound)
    BY DEF Ticking, ChargeTick
<1>3. m < Memory /\ k < Memory
    BY <1>1, <1>2, BoundsRemembered DEF Below
<1>4. /\ waiter'[a].connectedFor = IF ConnectedTimeout > 0 THEN c ELSE 0
      /\ waiter'[a].unattendedFor = IF UnattendedTimeout > 0 THEN u ELSE 0
      /\ waiter'[a].pc = IF \/ x /\ Reached(c, ConnectedTimeout)
                            \/ ~x /\ Reached(u, UnattendedBound)
                         THEN "expired" ELSE "waiting"
      /\ trail'[a] = r
    BY ClocksCharged
<1> HIDE DEF x, t, m, k, r
<1>5. r \in Seq(BOOLEAN) /\ Len(r) <= Memory /\ Run(r, TRUE, c) /\ Run(r, FALSE, u)
    <2>1. CASE x
        <3>1. x = TRUE /\ c = m + 1 /\ u = 0
            BY <1>1, <2>1
        <3>2. r \in Seq(BOOLEAN) /\ Len(r) <= Memory /\ Run(r, TRUE, m + 1)
            BY <1>1, <1>2, <1>3, <3>1, RunGrows DEF r
        <3> QED
            BY <3>1, <3>2, RunEmpty
    <2>2. CASE ~x
        <3>1. x = FALSE /\ c = 0 /\ u = k + 1
            BY <1>1, <2>2
        <3>2. r \in Seq(BOOLEAN) /\ Len(r) <= Memory /\ Run(r, FALSE, k + 1)
            BY <1>1, <1>2, <1>3, <3>1, RunGrows DEF r
        <3> QED
            BY <3>1, <3>2, RunEmpty
    <2> QED
        BY <2>1, <2>2
<1>6. Run(r, TRUE, waiter'[a].connectedFor) /\ Run(r, FALSE, waiter'[a].unattendedFor)
    BY <1>4, <1>5, RunEmpty
<1>7. c \in Nat /\ u \in Nat /\ (x => u = 0) /\ (~x => c = 0)
    BY <1>1
<1> HIDE DEF c, u
<1>8. CASE waiter'[a].pc = "expired"
    <2>1. \/ x /\ Reached(c, ConnectedTimeout)
          \/ ~x /\ Reached(u, UnattendedBound)
        BY <1>4, <1>8
    <2>2. \/ Reached(waiter'[a].connectedFor, ConnectedTimeout)
          \/ Reached(waiter'[a].unattendedFor, UnattendedBound)
        BY <1>4, <2>1, BoundsRemembered DEF Reached
    <2> QED
        BY <1>4, <1>5, <1>6, <1>8, <2>2 DEF Ticking
<1>9. CASE waiter'[a].pc # "expired"
    <2>1. ~(x /\ Reached(c, ConnectedTimeout)) /\ ~(~x /\ Reached(u, UnattendedBound))
        BY <1>4, <1>9
    <2>2. (ConnectedTimeout > 0 => c < ConnectedTimeout) /\ (UnattendedBound > 0 => u < UnattendedBound)
        BY <1>7, <2>1, BoundsRemembered DEF Reached
    <2>3. Below(waiter'[a].connectedFor, ConnectedTimeout)
        BY <1>4, <2>2 DEF Below
    <2>4. Below(waiter'[a].unattendedFor, UnattendedBound)
        BY <1>4, <2>2, BoundsRemembered DEF Below
    <2> QED
        BY <1>4, <1>5, <1>6, <1>9, <2>3, <2>4 DEF Ticking
<1> QED
    BY <1>8, <1>9

\* A step that leaves the clocks and the history alone.
LEMMA TickFrame ==
    ASSUME NEW a \in Approvals, Ticking(a), trail'[a] = trail[a],
           waiter'[a].connectedFor = waiter[a].connectedFor,
           waiter'[a].unattendedFor = waiter[a].unattendedFor,
           waiter'[a].pc = "expired" => waiter[a].pc = "expired",
           waiter'[a].pc \in {"unborn", "waiting", "online", "offline"}
             => waiter[a].pc \in {"unborn", "waiting", "online", "offline"}
    PROVE  Ticking(a)'
BY DEF Ticking

LEMMA WaiterStepTicks ==
    ASSUME TypeOK, NEW a \in Approvals, NEW pc \in WaiterPC, WaiterStep(a, pc),
           UNCHANGED trail, pc # "expired",
           pc \in {"unborn", "waiting", "online", "offline"}
             => waiter[a].pc \in {"unborn", "waiting"},
           NEW b \in Approvals, Ticking(b)
    PROVE  Ticking(b)'
<1>1. /\ [waiter[a] EXCEPT !.pc = pc].unattendedFor = waiter[a].unattendedFor
      /\ [waiter[a] EXCEPT !.pc = pc].connectedFor = waiter[a].connectedFor
      /\ [waiter[a] EXCEPT !.pc = pc].pc = pc
    BY DEF TypeOK, WaiterType
<1>2. /\ waiter'[b].unattendedFor = waiter[b].unattendedFor
      /\ waiter'[b].connectedFor = waiter[b].connectedFor
      /\ waiter'[b].pc = IF b = a THEN pc ELSE waiter[b].pc
    BY <1>1 DEF WaiterStep, TypeOK
<1> QED
    BY <1>2, TickFrame

LEMMA TickStep == TickInv /\ [Next]_vars => TickInv'
<1> SUFFICES ASSUME TickInv, [Next]_vars, NEW b \in Approvals
             PROVE  Ticking(b)'
    BY TypeStep DEF TickInv
<1>1. TypeOK /\ Ticking(b)
    BY DEF TickInv
<1>2. ASSUME UNCHANGED <<trail, waiter>> PROVE Ticking(b)'
    BY <1>1, <1>2, TickFrame
<1>3. CASE List \/ UNCHANGED vars
    BY <1>2, <1>3 DEF List, vars
<1>4. ASSUME NEW c \in Clients, Connect(c) \/ Disconnect(c) \/ HandlerWork(c)
      PROVE  Ticking(b)'
    BY <1>2, <1>4 DEF Connect, Disconnect, HandlerWork, Lookup, Send, Refused, Late, NotFound
<1>5. ASSUME NEW a \in Approvals, Alloc(a) \/ Remove(a) \/ Return(a) PROVE Ticking(b)'
    BY <1>1, <1>5, WaiterStepTicks DEF Alloc, Remove, Return, WaiterPC
<1>6. ASSUME NEW a \in Approvals, Tick(a) PROVE Ticking(b)'
    <2>1. PICK pc \in {"online", "offline"} : WaiterStep(a, pc)
        BY <1>6 DEF Tick
    <2>2. waiter[a].pc = "waiting" /\ UNCHANGED trail
        BY <1>6 DEF Tick
    <2> QED
        BY <1>1, <2>1, <2>2, WaiterStepTicks DEF WaiterPC
<1>7. ASSUME NEW a \in Approvals, Receive(a) PROVE Ticking(b)'
    <2>1. LET w == [waiter[a] EXCEPT !.pc = "answered", !.result = decided[a]]
          IN  /\ w.unattendedFor = waiter[a].unattendedFor
              /\ w.connectedFor = waiter[a].connectedFor /\ w.pc = "answered"
        BY <1>1 DEF TypeOK, WaiterType
    <2>2. /\ waiter'[b].unattendedFor = waiter[b].unattendedFor
          /\ waiter'[b].connectedFor = waiter[b].connectedFor
          /\ waiter'[b].pc = IF b = a THEN "answered" ELSE waiter[b].pc
        BY <1>1, <1>7, <2>1 DEF Receive, TypeOK
    <2>3. UNCHANGED trail
        BY <1>7 DEF Receive
    <2> QED
        BY <1>1, <2>2, <2>3, TickFrame
<1>8. ASSUME NEW a \in Approvals, ChargeTick(a) PROVE Ticking(b)'
    <2>1. CASE b = a
        BY <1>1, <1>8, <2>1, TickTicks
    <2>2. CASE b # a
        <3>1. waiter'[b] = waiter[b] /\ trail'[b] = trail[b]
            BY <1>1, <1>8, <2>2, ChargedWaiter DEF ChargeTick, TypeOK
        <3> QED
            BY <1>1, <3>1, TickFrame
    <2> QED
        BY <2>1, <2>2
<1>9. ASSUME NEW c \in Clients, NEW a \in Approvals, NEW d \in Decisions, Decide(c, a, d)
      PROVE  Ticking(b)'
    BY <1>2, <1>9 DEF Decide
<1> QED
    BY <1>3, <1>4, <1>5, <1>6, <1>7, <1>8, <1>9 DEF Next, WaiterWork

LEMMA TickInvariant == Spec => []TickInv
<1>1. Init => TickInv
    <2> SUFFICES ASSUME Init PROVE TickInv
        OBVIOUS
    <2>1. TypeOK
        BY InitialTypes, ApprovalAssumption DEF Init, TypeOK
    <2>2. ASSUME NEW a \in Approvals PROVE Ticking(a)
        <3>1. /\ trail[a] = <<>> /\ waiter[a].connectedFor = 0
              /\ waiter[a].unattendedFor = 0 /\ waiter[a].pc = "unborn"
            BY DEF Init, Unborn
        <3>2. trail[a] \in Seq(BOOLEAN) /\ Len(trail[a]) = 0
            BY <3>1
        <3>3. Run(trail[a], TRUE, 0) /\ Run(trail[a], FALSE, 0)
            BY <3>2, RunEmpty
        <3>4. Below(0, ConnectedTimeout) /\ Below(0, UnattendedBound)
            BY BoundsRemembered DEF Below
        <3>5. Len(trail[a]) <= Memory
            BY <3>2, BoundsRemembered
        <3> QED
            BY <3>1, <3>3, <3>4, <3>5 DEF Ticking
    <2> QED
        BY <2>1, <2>2 DEF TickInv
<1> QED
    BY <1>1, TickStep, PTL DEF Spec

\* A clock that reached its bound shows as many like ticks at the end of the history.
LEMMA ReachedRun ==
    ASSUME NEW t \in Seq(BOOLEAN), NEW x \in BOOLEAN, NEW c \in Nat, NEW bound \in Nat,
           Run(t, x, c), bound > 0, c >= bound
    PROVE  /\ Len(t) >= bound /\ t[Len(t)] = x
           /\ \A i \in (Len(t) - bound + 1) .. Len(t) : t[i] = x
<1>1. Len(t) \in Nat /\ c <= Len(t) /\ \A i \in 1 .. Len(t) : i > Len(t) - c => t[i] = x
    BY DEF Run
<1>2. Len(t) >= bound
    BY <1>1
<1>3. \A i \in (Len(t) - bound + 1) .. Len(t) : i \in 1 .. Len(t) /\ i > Len(t) - c
    BY <1>1, <1>2
<1>4. Len(t) \in (Len(t) - bound + 1) .. Len(t)
    BY <1>1
<1> QED
    BY <1>1, <1>2, <1>3, <1>4

\* wait: a prompt is denied by the clock only after its bound's worth of ticks that
\* all saw the same: a client that had fetched it, or none.
THEOREM ExpiryEarned == Spec => []ExpiryJustified
<1>1. TickInv => ExpiryJustified
    <2> SUFFICES ASSUME TickInv, NEW a \in Approvals, waiter[a].pc = "expired"
                 PROVE  LET n == Len(trail[a])
                            bound == IF trail[a][n] THEN ConnectedTimeout ELSE UnattendedTimeout
                        IN /\ bound > 0
                           /\ n >= bound
                           /\ \A i \in (n - bound + 1) .. n : trail[a][i] = trail[a][n]
        BY Zenon DEF ExpiryJustified
    <2>1. /\ trail[a] \in Seq(BOOLEAN)
          /\ waiter[a].connectedFor \in Nat /\ waiter[a].unattendedFor \in Nat
        BY DEF TickInv, TypeOK, WaiterType
    <2>2. Ticking(a)
        BY DEF TickInv
    <2>3. CASE Reached(waiter[a].connectedFor, ConnectedTimeout)
        <3>1. /\ Len(trail[a]) >= ConnectedTimeout /\ trail[a][Len(trail[a])] = TRUE
              /\ ConnectedTimeout > 0
              /\ \A i \in (Len(trail[a]) - ConnectedTimeout + 1) .. Len(trail[a]) : trail[a][i] = TRUE
            BY <2>1, <2>2, <2>3, BoundsRemembered, ReachedRun DEF Ticking, Reached
        <3> QED
            BY <3>1
    <2>4. CASE Reached(waiter[a].unattendedFor, UnattendedBound)
        <3>1. UnattendedTimeout > 0 /\ waiter[a].unattendedFor >= UnattendedTimeout
            BY <2>1, <2>4, BoundsRemembered DEF Reached
        <3>2. /\ Len(trail[a]) >= UnattendedTimeout /\ trail[a][Len(trail[a])] = FALSE
              /\ \A i \in (Len(trail[a]) - UnattendedTimeout + 1) .. Len(trail[a]) : trail[a][i] = FALSE
            BY <2>1, <2>2, <3>1, BoundsRemembered, ReachedRun DEF Ticking
        <3> QED
            BY <3>1, <3>2
    <2> QED
        BY <2>2, <2>3, <2>4 DEF Ticking
<1> QED
    BY <1>1, TickInvariant, PTL

\* newApprovalBridge: whatever bounds are configured, no prompt is denied sooner
\* than one that a connected client had fetched would be.
THEOREM NoneDiesEarly == Spec => []NeverDiesEarly
<1>1. TickInv => NeverDiesEarly
    <2> SUFFICES ASSUME TickInv, NEW a \in Approvals, waiter[a].pc = "expired"
                 PROVE  Len(trail[a]) >= ConnectedTimeout
        BY DEF NeverDiesEarly
    <2>1. /\ trail[a] \in Seq(BOOLEAN) /\ Len(trail[a]) \in Nat
          /\ waiter[a].connectedFor \in Nat /\ waiter[a].unattendedFor \in Nat
        BY DEF TickInv, TypeOK, WaiterType
    <2>2. Ticking(a)
        BY DEF TickInv
    <2>3. waiter[a].connectedFor <= Len(trail[a]) /\ waiter[a].unattendedFor <= Len(trail[a])
        BY <2>2 DEF Ticking, Run
    <2> QED
        BY <2>1, <2>2, <2>3, BoundsRemembered DEF Ticking, Reached
<1> QED
    BY <1>1, TickInvariant, PTL

=============================================================================
