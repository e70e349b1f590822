--------------------------- MODULE AgentLoopProofs ---------------------------
(* Safety of the task loop for any replies, budgets, step cap, notes and     *)
(* background results.                                                       *)
EXTENDS AgentLoop, TLAPS

-----------------------------------------------------------------------------
(* Replies.                                                                  *)

\* A reply with native calls that is not a salvaged final is run call by call.
LEMMA CollectedCalls ==
    ASSUME NEW r \in ResponseType
    PROVE  /\ Collected(r) # <<>> => DOMAIN r.calls \subseteq DOMAIN Collected(r)
           /\ Collected(r) = <<>> /\ ~ExplicitFinal(r) => DOMAIN r.calls = {}
<1>1. r.calls \in Seq(CallKind)
    BY DEF ResponseType
<1>2. CASE ExplicitFinal(r)
    BY <1>2 DEF Collected
<1>3. CASE ~ExplicitFinal(r) /\ r.calls # <<>>
    <2>1. Collected(r) = [i \in DOMAIN r.calls |-> AsRun(r, i)]
        BY <1>3 DEF Collected
    <2>2. DOMAIN Collected(r) = DOMAIN r.calls
        BY <2>1
    <2>3. DOMAIN r.calls # {}
        <3>1. DOMAIN r.calls = 1 .. Len(r.calls) /\ Len(r.calls) \in Nat
            BY <1>1
        <3>2. Len(r.calls) # 0
            BY <1>1, <1>3
        <3> QED
            BY <3>1, <3>2
    <2>4. Collected(r) # <<>>
        BY <2>2, <2>3
    <2> QED
        BY <2>2, <2>4, <1>3
<1>4. CASE r.calls = <<>>
    BY <1>4
<1> QED
    BY <1>2, <1>3, <1>4

-----------------------------------------------------------------------------
(* The recovery budgets.                                                     *)

\* The round-trips of a stretch are paid for by its nudges and retries.
StretchPaid ==
    /\ {nudges, retries, stretch} \subseteq Nat
    /\ nudges <= MaxNudges /\ retries <= MaxRetries
    /\ pc \in {"pacing", "model"} => stretch <= nudges + retries
    /\ pc = "top" => stretch <= nudges + retries + 1
    /\ pc = "tools" => stretch = 0 /\ nudges = 0 /\ retries = 0
    /\ StretchBounded

\* Recovering from preambles and truncated replies cannot go on for ever without
\* a tool round: both budgets of runLoop together bound a stretch of it.
THEOREM BoundedStretches == Spec => []StretchBounded
<1>0. /\ MaxNudges \in Nat
      /\ MaxRetries \in Nat
    BY LoopAssumption
<1>1. Init => StretchPaid
    BY <1>0 DEF Init, StretchPaid, StretchBounded
<1>2. StretchPaid /\ [Next]_vars => StretchPaid'
    <2> SUFFICES ASSUME StretchPaid, [Next]_vars PROVE StretchPaid'
        OBVIOUS
    <2> USE <1>0 DEF StretchPaid, StretchBounded
    <2>1. CASE Interrupt
        BY <2>1 DEF Interrupt, budgets
    <2>2. CASE StartTurn
        BY <2>2 DEF StartTurn
    <2>3. CASE \E n \in Notes : InjectUserNote(n)
        BY <2>3 DEF InjectUserNote, budgets
    <2>4. CASE \E b \in Results : EnqueueBackgroundResult(b)
        BY <2>4 DEF EnqueueBackgroundResult, budgets
    <2>5. CASE RoundTrip
        <3>1. CASE WaitCancelled
            BY <3>1 DEF WaitCancelled, EndTurn, budgets
        <3>2. CASE Request
            BY <3>2 DEF Request, budgets
        <3>3. CASE ModelError
            BY <3>3 DEF ModelError, EndTurn, budgets
        <3>4. CASE \E r \in Responses : Respond(r)
            BY <3>4 DEF Respond
        <3> QED
            BY <2>5, <3>1, <3>2, <3>3, <3>4 DEF RoundTrip
    <2>6. CASE Decision
        <3>1. CASE Bail \/ StopForBudget \/ CapFinal \/ CapStop \/ CapPlain
                     \/ StopForTruncation \/ Answer
            BY <3>1 DEF Bail, StopForBudget, CapFinal, CapStop, CapPlain,
                        StopForTruncation, Answer, EndTurn, budgets
        <3>2. CASE Reissue
            BY <3>2 DEF Reissue, Proceeds, MustReissue, Advance
        <3>3. CASE RetryVisible \/ RetryRaised
            BY <3>3 DEF RetryVisible, RetryRaised, RetryWith, CutShort, Proceeds,
                        NudgesAfterRetry, Advance
        <3>4. CASE Nudge
            BY <3>4 DEF Nudge, ShouldNudge, Proceeds, Advance
        <3>5. CASE BeginTools
            BY <3>5 DEF BeginTools
        <3> QED
            BY <2>6, <3>1, <3>2, <3>3, <3>4, <3>5 DEF Decision
    <2>7. CASE ToolRound
        <3>1. CASE FoldFinal
            BY <3>1 DEF FoldFinal, EndTurn, budgets
        <3>2. CASE ToolRoundDone
            BY <3>2 DEF ToolRoundDone, Advance, budgets
        <3>3. CASE \E i \in DOMAIN calls : RunCall(i)
            BY <3>3 DEF RunCall, budgets
        <3> QED
            BY <2>7, <3>1, <3>2, <3>3 DEF ToolRound
    <2>8. CASE UNCHANGED vars
        BY <2>8 DEF vars, budgets
    <2> QED
        BY <2>1, <2>2, <2>3, <2>4, <2>5, <2>6, <2>7, <2>8 DEF Next
<1>3. StretchPaid => StretchBounded
    BY DEF StretchPaid
<1> QED
    BY <1>1, <1>2, <1>3, PTL DEF Spec

-----------------------------------------------------------------------------
(* The calls of a reply and their results.                                   *)

\* Where the loop may be while calls of the last reply have no result.
OpenCalls ==
    /\ resp \in ResponseType
    /\ {broken, orphaned, over} \subseteq BOOLEAN
    /\ AnsweredOneToOne
    /\ over => kind = "sub"
    /\ outcome = "budget" => kind = "sub"
    /\ pc = "model" => unanswered = {}
    /\ pc \in {"top", "tools"} => unanswered = DOMAIN resp.calls
    /\ pc = "tools" => calls # <<>>
    /\ pc = "pacing" => unanswered = {} \/ orphaned
    /\ pc = "idle" => unanswered = {} \/ orphaned \/ outcome = "budget"
    /\ EndsBalanced

\* The reply a loop starts with is a reply.
LEMMA NoResponseType == NoResponse \in ResponseType
<1>1. <<>> \in Seq(CallKind)
    OBVIOUS
<1> QED
    BY <1>1 DEF NoResponse, ResponseType, Finish, Text

\* No reply, no open calls: the invariant holds before the first turn.
LEMMA OpenCallsInit == Init => OpenCalls
BY NoResponseType DEF Init, OpenCalls, AnsweredOneToOne, EndsBalanced

\* The steps beside the loop leave the transcript alone.
LEMMA OpenCallsBeside ==
    ASSUME OpenCalls,
           \/ Interrupt \/ StartTurn \/ UNCHANGED vars
           \/ \E n \in Notes : InjectUserNote(n)
           \/ \E b \in Results : EnqueueBackgroundResult(b)
    PROVE  OpenCalls'
<1> USE DEF OpenCalls, AnsweredOneToOne, EndsBalanced, calls, transcript, ending
<1>1. CASE Interrupt
    BY <1>1 DEF Interrupt
<1>2. CASE StartTurn
    BY <1>2 DEF StartTurn
<1>3. CASE \E n \in Notes : InjectUserNote(n)
    BY <1>3 DEF InjectUserNote
<1>4. CASE \E b \in Results : EnqueueBackgroundResult(b)
    BY <1>4 DEF EnqueueBackgroundResult
<1>5. CASE UNCHANGED vars
    BY <1>5 DEF vars
<1> QED
    BY <1>1, <1>2, <1>3, <1>4, <1>5

\* A reply opens its calls; an earlier reply's are open only after an interruption.
LEMMA OpenCallsRoundTrip ==
    ASSUME OpenCalls, RoundTrip
    PROVE  OpenCalls'
<1> USE DEF OpenCalls, AnsweredOneToOne, EndsBalanced, calls, transcript, ending
<1>1. CASE WaitCancelled
    BY <1>1 DEF WaitCancelled, EndTurn
<1>2. CASE Request
    BY <1>2 DEF Request
<1>3. CASE ModelError
    BY <1>3 DEF ModelError, EndTurn
<1>4. CASE \E r \in Responses : Respond(r)
    <2>1. PICK r \in Responses : Respond(r)
        BY <1>4
    <2>2. r \in ResponseType
        BY ResponseAssumption
    <2>3. over' \in BOOLEAN /\ (over' => kind' = "sub")
        BY <2>1 DEF Respond
    <2>4. /\ pc' = "top" /\ resp' = r /\ unanswered' = DOMAIN r.calls
          /\ UNCHANGED <<kind, broken, orphaned, outcome>>
        BY <2>1 DEF Respond
    <2> QED
        BY <2>2, <2>3, <2>4
<1> QED
    BY <1>1, <1>2, <1>3, <1>4 DEF RoundTrip

\* A decision closes the reply's calls, hands them to the tools, or interrupts.
LEMMA OpenCallsDecision ==
    ASSUME OpenCalls, Decision
    PROVE  OpenCalls'
<1> USE DEF OpenCalls, AnsweredOneToOne, EndsBalanced, transcript, ending
<1>0. calls = <<>> /\ ~explicit => DOMAIN resp.calls = {}
    BY CollectedCalls DEF calls, explicit
<1>1. CASE Bail
    BY <1>1 DEF Bail, EndTurn, calls
<1>2. CASE StopForBudget
    BY <1>2 DEF StopForBudget, EndTurn, calls
<1>3. CASE CapFinal
    BY <1>3 DEF CapFinal, EndTurn, AppendToolResults, Unexecuted
<1>4. CASE CapStop
    BY <1>4 DEF CapStop, EndTurn, AppendToolResults, CapAnswers, Unexecuted
<1>5. CASE CapPlain
    BY <1>0, <1>5 DEF CapPlain, EndTurn
<1>6. CASE Reissue
    BY <1>6 DEF Reissue, Proceeds, Advance, AppendToolResults
<1>7. CASE RetryVisible \/ RetryRaised
    BY <1>0, <1>7 DEF RetryVisible, RetryRaised, RetryWith, CutShort, Proceeds, Advance
<1>8. CASE StopForTruncation
    BY <1>0, <1>8 DEF StopForTruncation, CutShort, Proceeds, EndTurn
<1>9. CASE Nudge
    BY <1>0, <1>9 DEF Nudge, ShouldNudge, Proceeds, Advance
<1>10. CASE Answer
    BY <1>10 DEF Answer, Proceeds, EndTurn, AppendToolResults, Unexecuted
<1>11. CASE BeginTools
    BY <1>11 DEF BeginTools, Proceeds, calls
<1> QED
    BY <1>1, <1>2, <1>3, <1>4, <1>5, <1>6, <1>7, <1>8, <1>9, <1>10, <1>11 DEF Decision

\* A round answers the calls it ran, a folded final the calls it did not run too.
LEMMA OpenCallsToolRound ==
    ASSUME OpenCalls, ToolRound
    PROVE  OpenCalls'
<1> USE DEF OpenCalls, AnsweredOneToOne, EndsBalanced, transcript, ending
<1>1. CASE FoldFinal
    BY <1>1 DEF FoldFinal, EndTurn, AppendToolResults, Native, Unexecuted
<1>2. CASE ToolRoundDone
    <2>1. DOMAIN resp.calls \subseteq SetOf(ran)
        BY <1>2, CollectedCalls DEF ToolRoundDone, calls
    <2>2. Native(SetOf(ran)) = DOMAIN resp.calls
        BY <2>1 DEF Native
    <2> QED
        BY <1>2, <2>2 DEF ToolRoundDone, Advance, AppendToolResults
<1>3. CASE \E i \in DOMAIN calls : RunCall(i)
    BY <1>3 DEF RunCall, calls
<1> QED
    BY <1>1, <1>2, <1>3 DEF ToolRound

\* Every step of the session keeps the account of open calls.
LEMMA OpenCallsStep == OpenCalls /\ [Next]_vars => OpenCalls'
BY OpenCallsBeside, OpenCallsRoundTrip, OpenCallsDecision, OpenCallsToolRound DEF Next

\* sendCtx never sends a transcript whose calls are not answered one-to-one,
\* unless an interruption ended an earlier turn between a reply and its check.
THEOREM ResultsOneToOne == Spec => []AnsweredOneToOne
<1>1. OpenCalls => AnsweredOneToOne
    BY DEF OpenCalls
<1> QED
    BY <1>1, OpenCallsInit, OpenCallsStep, PTL DEF Spec

\* finalizeTranscriptToolCalls: an answered, capped or truncated turn leaves no
\* call open for the session's next turn.
THEOREM TurnsEndBalanced == Spec => []EndsBalanced
<1>1. OpenCalls => EndsBalanced
    BY DEF OpenCalls
<1> QED
    BY <1>1, OpenCallsInit, OpenCallsStep, PTL DEF Spec

-----------------------------------------------------------------------------
(* Type correctness.                                                         *)

FlagTypeOK ==
    /\ cancelled \in BOOLEAN /\ over \in BOOLEAN
    /\ retained \in BOOLEAN /\ said \in BOOLEAN
    /\ broken \in BOOLEAN /\ orphaned \in BOOLEAN /\ held \in BOOLEAN

NumberTypeOK ==
    /\ turns \in Nat /\ step \in Nat
    /\ nudges \in Nat /\ retries \in Nat /\ raises \in Nat /\ stretch \in Nat

PlaceTypeOK ==
    /\ kind \in AgentKinds
    /\ pc \in PC
    /\ resp \in ResponseType
    /\ ran \in Seq(Nat)
    /\ unanswered \subseteq Nat
    /\ outcome \in Outcome
    /\ shown \in {"none", "text", "notice", "empty"}

MailTypeOK ==
    /\ slot \in Notes \cup {NoNote}
    /\ queue \in Seq(Results) /\ arrived \in Seq(Results)
    /\ outbox \in Seq(Notes \cup Results)
    /\ delivered \in Seq(Notes \cup Results)
    /\ dropped \subseteq Notes \cup Results
    /\ replaced \subseteq Notes

\* The elements of a sequence over S are in S.
LEMMA SetOfType ==
    ASSUME NEW S, NEW s \in Seq(S)
    PROVE  SetOf(s) \subseteq S
BY DEF SetOf

\* The empty sequence is a sequence over every set.
LEMMA EmptySeq ==
    ASSUME NEW S
    PROVE  <<>> \in Seq(S)
OBVIOUS

\* A sequence of results is one of notes and results.
LEMMA WiderSeq ==
    ASSUME NEW S, NEW T, NEW s \in Seq(S)
    PROVE  s \in Seq(T \cup S)
OBVIOUS

\* Every step keeps the types of the notes and results under way.
LEMMA MailTypeStep ==
    ASSUME MailTypeOK, [Next]_vars
    PROVE  MailTypeOK'
<1> USE DEF MailTypeOK
<1>0. /\ ResultsTaken \in Seq(Results)
      /\ QueueTaken \in Seq(Results)
    BY DEF ResultsTaken, QueueTaken
<1>00. ResultsTaken \in Seq(Notes \cup Results)
    BY <1>0, WiderSeq
<1>1. CASE UNCHANGED mail
    BY <1>1 DEF mail
<1>2. CASE \E n \in Notes : InjectUserNote(n)
    BY <1>2 DEF InjectUserNote
<1>3. CASE \E b \in Results : EnqueueBackgroundResult(b)
    BY <1>3 DEF EnqueueBackgroundResult
<1>4. CASE StartTurn
    BY <1>0, <1>00, <1>4 DEF StartTurn
<1>5. CASE WaitCancelled
    BY <1>5, SetOfType DEF WaitCancelled
<1>6. CASE Request
    BY <1>6 DEF Request
<1>7. CASE Reissue \/ RetryVisible \/ RetryRaised \/ Nudge
    <2>1. outbox' = <<>> /\ UNCHANGED <<slot, queue, arrived, delivered, dropped, replaced>>
        BY <1>7 DEF Reissue, RetryVisible, RetryRaised, RetryWith, Nudge
    <2> QED
        BY <2>1, EmptySeq
<1>8. CASE ToolRoundDone
    <2>1. Taken \in Seq(Notes \cup Results)
        <3>1. CASE Taken = <<>>
            BY <3>1
        <3>2. CASE Taken = <<slot>> /\ slot # NoNote
            BY <3>2
        <3> QED
            BY <3>1, <3>2 DEF Taken
    <2>2. (Taken \o ResultsTaken) \in Seq(Notes \cup Results)
        BY <2>1, <1>00
    <2> QED
        BY <1>0, <1>8, <2>2 DEF ToolRoundDone
<1> QED
  <2>1. CASE RoundTrip
    BY <2>1, <1>1, <1>5, <1>6 DEF RoundTrip, ModelError, Respond
  <2>2. CASE Decision
    BY <2>2, <1>1, <1>7 DEF Decision, Bail, StopForBudget, CapFinal, CapStop,
       CapPlain, StopForTruncation, Answer, BeginTools
  <2>3. CASE ToolRound
    BY <2>3, <1>1, <1>8 DEF ToolRound, FoldFinal, RunCall
  <2>4. CASE Interrupt \/ UNCHANGED vars
    BY <2>4, <1>1 DEF Interrupt, vars
  <2> QED
    BY <2>1, <2>2, <2>3, <2>4, <1>2, <1>3, <1>4 DEF Next

\* The flags stay Booleans.
LEMMA FlagTypeStep ==
    ASSUME FlagTypeOK, [Next]_vars
    PROVE  FlagTypeOK'
<1> USE DEF FlagTypeOK, transcript, budgets, mail
<1>1. CASE Interrupt
    BY <1>1 DEF Interrupt
<1>2. CASE StartTurn
    BY <1>2 DEF StartTurn
<1>3. CASE \E n \in Notes : InjectUserNote(n)
    BY <1>3 DEF InjectUserNote
<1>4. CASE \E b \in Results : EnqueueBackgroundResult(b)
    BY <1>4 DEF EnqueueBackgroundResult
<1>5. CASE WaitCancelled
    BY <1>5 DEF WaitCancelled
<1>6. CASE Request
    BY <1>6 DEF Request
<1>7. CASE ModelError
    BY <1>7 DEF ModelError
<1>8. CASE \E r \in Responses : Respond(r)
    BY <1>8 DEF Respond
<1>9. CASE Bail
    BY <1>9 DEF Bail
<1>10. CASE StopForBudget
    BY <1>10 DEF StopForBudget
<1>11. CASE CapFinal
    BY <1>11 DEF CapFinal, AppendToolResults, Says, HasText
<1>12. CASE CapStop
    BY <1>12 DEF CapStop, AppendToolResults, Says, HasText
<1>13. CASE CapPlain
    BY <1>13 DEF CapPlain, Says
<1>14. CASE Reissue
    BY <1>14 DEF Reissue, AppendToolResults, Says, HasText
<1>15. CASE RetryVisible \/ RetryRaised
    BY <1>15 DEF RetryVisible, RetryRaised, RetryWith, Says, HasText
<1>16. CASE StopForTruncation
    BY <1>16 DEF StopForTruncation, Says
<1>17. CASE Nudge
    BY <1>17 DEF Nudge, Says, HasText, RetainedByNudge
<1>18. CASE Answer
    BY <1>18 DEF Answer, AppendToolResults, Says, HasText
<1>19. CASE BeginTools
    BY <1>19 DEF BeginTools, Says, HasText
<1>20. CASE FoldFinal
    BY <1>20 DEF FoldFinal, AppendToolResults, Says, HasText
<1>21. CASE ToolRoundDone
    BY <1>21 DEF ToolRoundDone, AppendToolResults, Says, HasText
<1>22. CASE \E i \in DOMAIN calls : RunCall(i)
    BY <1>22 DEF RunCall
<1>23. CASE UNCHANGED vars
    BY <1>23 DEF vars
<1> QED
    BY <1>1, <1>2, <1>3, <1>4, <1>5, <1>6, <1>7, <1>8, <1>9,
       <1>10, <1>11, <1>12, <1>13, <1>14, <1>15, <1>16, <1>17,
       <1>18, <1>19, <1>20, <1>21, <1>22, <1>23
    DEF Next, RoundTrip, Decision, ToolRound

\* The counters stay natural numbers.
LEMMA NumberTypeStep ==
    ASSUME NumberTypeOK, [Next]_vars
    PROVE  NumberTypeOK'
<1> USE DEF NumberTypeOK, budgets
<1>1. CASE Interrupt
    BY <1>1 DEF Interrupt
<1>2. CASE StartTurn
    BY <1>2 DEF StartTurn
<1>3. CASE \E n \in Notes : InjectUserNote(n)
    BY <1>3 DEF InjectUserNote
<1>4. CASE \E b \in Results : EnqueueBackgroundResult(b)
    BY <1>4 DEF EnqueueBackgroundResult
<1>5. CASE WaitCancelled
    BY <1>5 DEF WaitCancelled
<1>6. CASE Request
    BY <1>6 DEF Request
<1>7. CASE ModelError
    BY <1>7 DEF ModelError
<1>8. CASE \E r \in Responses : Respond(r)
    BY <1>8 DEF Respond
<1>9. CASE Bail
    BY <1>9 DEF Bail
<1>10. CASE StopForBudget
    BY <1>10 DEF StopForBudget
<1>11. CASE CapFinal
    BY <1>11 DEF CapFinal
<1>12. CASE CapStop
    BY <1>12 DEF CapStop
<1>13. CASE CapPlain
    BY <1>13 DEF CapPlain
<1>14. CASE Reissue
    BY <1>14 DEF Reissue, Advance
<1>15. CASE RetryVisible \/ RetryRaised
    BY <1>15 DEF RetryVisible, RetryRaised, RetryWith, Advance, NudgesAfterRetry
<1>16. CASE StopForTruncation
    BY <1>16 DEF StopForTruncation
<1>17. CASE Nudge
    BY <1>17 DEF Nudge, Advance
<1>18. CASE Answer
    BY <1>18 DEF Answer
<1>19. CASE BeginTools
    BY <1>19 DEF BeginTools
<1>20. CASE FoldFinal
    BY <1>20 DEF FoldFinal
<1>21. CASE ToolRoundDone
    BY <1>21 DEF ToolRoundDone, Advance
<1>22. CASE \E i \in DOMAIN calls : RunCall(i)
    BY <1>22 DEF RunCall
<1>23. CASE UNCHANGED vars
    BY <1>23 DEF vars
<1> QED
    BY <1>1, <1>2, <1>3, <1>4, <1>5, <1>6, <1>7, <1>8, <1>9,
       <1>10, <1>11, <1>12, <1>13, <1>14, <1>15, <1>16, <1>17,
       <1>18, <1>19, <1>20, <1>21, <1>22, <1>23
    DEF Next, RoundTrip, Decision, ToolRound

\* The loop's place, its reply and its open calls keep their types.
LEMMA PlaceTypeStep ==
    ASSUME PlaceTypeOK, [Next]_vars
    PROVE  PlaceTypeOK'
<1> USE DEF PlaceTypeOK, PC, Outcome, transcript, ending
<1>1. CASE Interrupt
    BY <1>1 DEF Interrupt
<1>2. CASE StartTurn
    BY <1>2 DEF StartTurn
<1>3. CASE \E n \in Notes : InjectUserNote(n)
    BY <1>3 DEF InjectUserNote
<1>4. CASE \E b \in Results : EnqueueBackgroundResult(b)
    BY <1>4 DEF EnqueueBackgroundResult
<1>5. CASE WaitCancelled
    BY <1>5 DEF WaitCancelled, EndTurn
<1>6. CASE Request
    BY <1>6 DEF Request
<1>7. CASE ModelError
    BY <1>7 DEF ModelError, EndTurn
<1>8. CASE \E r \in Responses : Respond(r)
    <2>1. PICK r \in Responses : Respond(r)
        BY <1>8
    <2>2. r \in ResponseType
        BY ResponseAssumption
    <2>3. DOMAIN r.calls \subseteq Nat
        BY <2>2 DEF ResponseType
    <2>4. /\ pc' = "top" /\ resp' = r /\ unanswered' = DOMAIN r.calls
          /\ UNCHANGED <<kind, ran, outcome, shown>>
        BY <2>1 DEF Respond
    <2> QED
        BY <2>2, <2>3, <2>4
<1>9. CASE Bail
    BY <1>9 DEF Bail, EndTurn
<1>10. CASE StopForBudget
    BY <1>10 DEF StopForBudget, EndTurn
<1>11. CASE CapFinal
    BY <1>11 DEF CapFinal, EndTurn, FinalText, AppendToolResults
<1>12. CASE CapStop
    BY <1>12 DEF CapStop, EndTurn, AppendToolResults
<1>13. CASE CapPlain
    BY <1>13 DEF CapPlain, EndTurn, FinalText
<1>14. CASE Reissue
    <2>1. /\ pc' = "pacing" /\ ran' = <<>> /\ unanswered' \subseteq unanswered
          /\ UNCHANGED <<kind, resp, outcome, shown>>
        BY <1>14 DEF Reissue, Advance, AppendToolResults
    <2> QED
        BY <2>1, EmptySeq
<1>15. CASE RetryVisible \/ RetryRaised
    <2>1. /\ pc' = "pacing" /\ ran' = <<>>
          /\ UNCHANGED <<kind, resp, unanswered, outcome, shown>>
        BY <1>15 DEF RetryVisible, RetryRaised, RetryWith, Advance
    <2> QED
        BY <2>1, EmptySeq
<1>16. CASE StopForTruncation
    BY <1>16 DEF StopForTruncation, EndTurn
<1>17. CASE Nudge
    BY <1>17 DEF Nudge, Advance
<1>18. CASE Answer
    BY <1>18 DEF Answer, EndTurn, FinalText, AppendToolResults
<1>19. CASE BeginTools
    BY <1>19 DEF BeginTools
<1>20. CASE FoldFinal
    BY <1>20 DEF FoldFinal, EndTurn, FinalText, AppendToolResults
<1>21. CASE ToolRoundDone
    <2>1. /\ pc' = "pacing" /\ ran' = <<>> /\ unanswered' \subseteq unanswered
          /\ UNCHANGED <<kind, resp, outcome, shown>>
        BY <1>21 DEF ToolRoundDone, Advance, AppendToolResults
    <2> QED
        BY <2>1, EmptySeq
<1>22. CASE \E i \in DOMAIN calls : RunCall(i)
    BY <1>22 DEF RunCall
<1>23. CASE UNCHANGED vars
    BY <1>23 DEF vars
<1> QED
    BY <1>1, <1>2, <1>3, <1>4, <1>5, <1>6, <1>7, <1>8, <1>9,
       <1>10, <1>11, <1>12, <1>13, <1>14, <1>15, <1>16, <1>17,
       <1>18, <1>19, <1>20, <1>21, <1>22, <1>23
    DEF Next, RoundTrip, Decision, ToolRound

\* The loop's variables keep their types, whatever the model replies.
THEOREM TypeCorrect == Spec => []TypeOK
<1> DEFINE Types == FlagTypeOK /\ NumberTypeOK /\ PlaceTypeOK /\ MailTypeOK
<1>1. Init => Types
    <2>1. Init => FlagTypeOK
        BY DEF Init, FlagTypeOK
    <2>2. Init => NumberTypeOK
        BY DEF Init, NumberTypeOK
    <2>3. Init => PlaceTypeOK
        <3>1. <<>> \in Seq(Nat)
            BY EmptySeq
        <3> QED
            BY <3>1, NoResponseType DEF Init, PlaceTypeOK, PC, Outcome
    <2>4. Init => MailTypeOK
        <3>1. <<>> \in Seq(Results) /\ <<>> \in Seq(Notes \cup Results)
            BY EmptySeq
        <3> QED
            BY <3>1 DEF Init, MailTypeOK
    <2> QED
        BY <2>1, <2>2, <2>3, <2>4
<1>2. Types /\ [Next]_vars => Types'
    BY FlagTypeStep, NumberTypeStep, PlaceTypeStep, MailTypeStep
<1>3. Types => TypeOK
    BY DEF TypeOK, FlagTypeOK, NumberTypeOK, PlaceTypeOK, MailTypeOK
<1> QED
    BY <1>1, <1>2, <1>3, PTL DEF Spec

-----------------------------------------------------------------------------
(* Tool effects and cut-off replies.                                         *)

\* What has run is of this reply; calls that do not run concurrently have run
\* in their order, and nothing has run before the tools begin.
RanInOrder ==
    /\ PlaceTypeOK
    /\ pc \in {"pacing", "model", "top"} => ran = <<>>
    /\ \A p \in DOMAIN ran : ran[p] \in DOMAIN calls /\ (Concurrent(calls) \/ ran[p] = p)

\* Runs only ever append a call the runner may end next.
LEMMA RunCallInOrder ==
    ASSUME RanInOrder, NEW i, RunCall(i), PlaceTypeOK'
    PROVE  RanInOrder'
<1>1. /\ pc = "tools" /\ pc' = pc /\ resp' = resp /\ i \in MayRun
      /\ ran \in Seq(Nat) /\ ran' = Append(ran, i)
    BY DEF RunCall, RanInOrder, PlaceTypeOK
<1>2. calls' = calls /\ Concurrent(calls)' = Concurrent(calls)
    BY <1>1 DEF calls, Concurrent
<1>3. i \in DOMAIN calls /\ (Concurrent(calls) \/ i = Len(ran) + 1)
    BY <1>1 DEF MayRun
<1>4. /\ Len(ran) \in Nat /\ DOMAIN ran = 1 .. Len(ran) /\ DOMAIN ran' = 1 .. Len(ran) + 1
      /\ \A p \in 1 .. Len(ran) : ran'[p] = ran[p]
      /\ ran'[Len(ran) + 1] = i
    BY <1>1
<1>5. ASSUME NEW p \in DOMAIN ran'
      PROVE  ran'[p] \in DOMAIN calls /\ (Concurrent(calls) \/ ran'[p] = p)
    <2>1. CASE p = Len(ran) + 1
        BY <1>3, <1>4, <2>1
    <2>2. CASE p # Len(ran) + 1
        <3>1. p \in DOMAIN ran /\ ran'[p] = ran[p]
            BY <1>4, <1>5, <2>2
        <3> QED
            BY <3>1 DEF RanInOrder
    <2> QED
        BY <2>1, <2>2
<1> QED
    BY <1>1, <1>2, <1>5 DEF RanInOrder

LEMMA RanInOrderStep == RanInOrder /\ [Next]_vars => RanInOrder'
<1> SUFFICES ASSUME RanInOrder, [Next]_vars PROVE RanInOrder'
    OBVIOUS
<1>1. PlaceTypeOK'
    BY PlaceTypeStep DEF RanInOrder
<1>2. ASSUME ran' = <<>> PROVE RanInOrder'
    BY <1>1, <1>2 DEF RanInOrder
<1>3. ASSUME resp' = resp, ran' = ran,
             pc' \in {"pacing", "model", "top"} => pc \in {"pacing", "model", "top"}
      PROVE  RanInOrder'
    <2>1. calls' = calls /\ Concurrent(calls)' = Concurrent(calls)
        BY <1>3 DEF calls, Concurrent
    <2> QED
        BY <1>1, <1>3, <2>1 DEF RanInOrder
<1>4. CASE \/ Interrupt \/ UNCHANGED vars
           \/ \E n \in Notes : InjectUserNote(n)
           \/ \E b \in Results : EnqueueBackgroundResult(b)
    BY <1>3, <1>4 DEF Interrupt, vars, InjectUserNote, EnqueueBackgroundResult
<1>5. CASE StartTurn \/ Reissue \/ RetryVisible \/ RetryRaised \/ Nudge \/ ToolRoundDone
    BY <1>2, <1>5 DEF StartTurn, Reissue, RetryVisible, RetryRaised, RetryWith, Nudge, ToolRoundDone, Advance
<1>6. CASE WaitCancelled \/ Request \/ ModelError
    BY <1>3, <1>6 DEF WaitCancelled, Request, ModelError, EndTurn
<1>7. ASSUME NEW r \in Responses, Respond(r) PROVE RanInOrder'
    <2>1. ran' = <<>>
        BY <1>7 DEF Respond, RanInOrder
    <2> QED
        BY <1>2, <2>1
<1>8. CASE Bail \/ StopForBudget \/ CapFinal \/ CapStop \/ CapPlain \/ StopForTruncation
           \/ Answer \/ BeginTools \/ FoldFinal
    BY <1>3, <1>8 DEF Bail, StopForBudget, CapFinal, CapStop, CapPlain, StopForTruncation,
       Answer, BeginTools, FoldFinal, EndTurn
<1>9. CASE \E i \in DOMAIN calls : RunCall(i)
    BY <1>1, <1>9, RunCallInOrder
<1> QED
    BY <1>4, <1>5, <1>6, <1>7, <1>8, <1>9 DEF Next, RoundTrip, Decision, ToolRound

\* runToolCallsConcurrent: whatever a model batches, a call that changes something
\* ends after every call before it and before every call after it.
THEOREM EffectsKeepOrder == Spec => []EffectsInOrder
<1>1. Init => RanInOrder
    <2>1. <<>> \in Seq(Nat)
        BY EmptySeq
    <2> QED
        BY <2>1, NoResponseType DEF Init, RanInOrder, PlaceTypeOK, PC, Outcome
<1>2. RanInOrder => EffectsInOrder
    <2> SUFFICES ASSUME RanInOrder, NEW p \in DOMAIN ran, NEW q \in DOMAIN ran, p < q, ran[p] > ran[q]
                 PROVE  calls[ran[p]] # "write" /\ calls[ran[q]] # "write"
        BY DEF EffectsInOrder
    <2>1. ran[p] \in DOMAIN calls /\ ran[q] \in DOMAIN calls
        BY DEF RanInOrder
    <2>2. CASE Concurrent(calls)
        BY <2>1, <2>2 DEF Concurrent
    <2>3. CASE ~Concurrent(calls)
        <3>1. p \in Nat /\ q \in Nat /\ ran[p] = p /\ ran[q] = q
            BY <2>3 DEF RanInOrder, PlaceTypeOK
        <3> QED
            BY <3>1
    <2> QED
        BY <2>2, <2>3
<1> QED
    BY <1>1, <1>2, RanInOrderStep, PTL DEF Spec

\* A reply that ends a turn as its answer keeps until the next turn.
LEMMA TruncatedStep == RanInOrder /\ TruncatedNeverFinal /\ [Next]_vars => TruncatedNeverFinal'
<1> SUFFICES ASSUME RanInOrder, TruncatedNeverFinal, [Next]_vars PROVE TruncatedNeverFinal'
    OBVIOUS
<1> USE DEF TruncatedNeverFinal, explicit
<1>1. CASE \/ Interrupt \/ UNCHANGED vars
           \/ \E n \in Notes : InjectUserNote(n)
           \/ \E b \in Results : EnqueueBackgroundResult(b)
    BY <1>1 DEF Interrupt, vars, InjectUserNote, EnqueueBackgroundResult, ending
<1>2. CASE StartTurn \/ Request \/ Reissue \/ RetryVisible \/ RetryRaised \/ Nudge \/ ToolRoundDone
           \/ BeginTools \/ \E r \in Responses : Respond(r)
    BY <1>2 DEF StartTurn, Request, Reissue, RetryVisible, RetryRaised, RetryWith, Nudge,
       ToolRoundDone, Advance, BeginTools, Respond
<1>3. CASE WaitCancelled \/ ModelError \/ Bail \/ StopForBudget \/ CapStop \/ CapPlain \/ StopForTruncation
    BY <1>3 DEF WaitCancelled, ModelError, Bail, StopForBudget, CapStop, CapPlain,
       StopForTruncation, EndTurn
<1>4. ASSUME resp.calls = <<>>, ~ExplicitFinal(resp), NEW i \in DOMAIN calls, Terminal(calls[i])
      PROVE  FALSE
    <2>1. calls = IF resp.text = "jsoncall" THEN <<"write">> ELSE <<>>
        BY <1>4 DEF calls, Collected
    <2>2. calls[i] = "write"
        BY <2>1
    <2> QED
        BY <1>4, <2>2 DEF Terminal
<1>5. CASE CapFinal
    BY <1>4, <1>5 DEF CapFinal, ContainsTerminalFinal
<1>6. CASE FoldFinal
    <2>1. PICK i \in MayRun : Terminal(calls[i])
        BY <1>6 DEF FoldFinal
    <2>2. i \in DOMAIN calls
        BY <2>1 DEF MayRun
    <2> QED
        BY <1>4, <1>6, <2>1, <2>2 DEF FoldFinal
<1>7. CASE Answer
    <2>1. resp.finish \in Finish /\ (ExplicitFinal(resp) \/ ~IsTruncated(resp)) /\ resp' = resp
        BY <1>7 DEF Answer, RanInOrder, PlaceTypeOK, ResponseType
    <2> QED
        BY <2>1 DEF IsTruncated, Finish
<1>8. CASE \E i \in DOMAIN calls : RunCall(i)
    BY <1>8 DEF RunCall
<1> QED
    BY <1>1, <1>2, <1>3, <1>5, <1>6, <1>7, <1>8 DEF Next, RoundTrip, Decision, ToolRound

\* A tool-free reply that max_tokens cut off is never taken for the answer below
\* the cap.
THEOREM CutRepliesNeverFinal == Spec => []TruncatedNeverFinal
<1>1. Init => RanInOrder /\ TruncatedNeverFinal
    <2>1. <<>> \in Seq(Nat)
        BY EmptySeq
    <2> QED
        BY <2>1, NoResponseType DEF Init, RanInOrder, PlaceTypeOK, PC, Outcome, TruncatedNeverFinal
<1> QED
    BY <1>1, RanInOrderStep, TruncatedStep, PTL DEF Spec

-----------------------------------------------------------------------------
(* The final event of a turn.                                                *)

\* A turn in progress keeps the text it has had, and no final event is out yet.
SurfaceInv ==
    /\ AnswerSurfaced
    /\ pc # "idle" => (said <=> retained) /\ shown = "none"

\* A turn that ends with what it kept surfaces what it had.
LEMMA FinalTextSurfaces ==
    ASSUME said <=> retained, NEW has, EndTurn("final", FinalText(has)) \/ EndTurn("capped", FinalText(has)),
           said' => (said \/ has)
    PROVE  SurfaceInv'
BY DEF SurfaceInv, AnswerSurfaced, EndTurn, FinalText

LEMMA SurfaceStep == SurfaceInv /\ [Next]_vars => SurfaceInv'
<1> SUFFICES ASSUME SurfaceInv, [Next]_vars PROVE SurfaceInv'
    OBVIOUS
<1> USE DEF SurfaceInv, AnswerSurfaced
<1>1. CASE \/ Interrupt \/ UNCHANGED vars
           \/ \E n \in Notes : InjectUserNote(n)
           \/ \E b \in Results : EnqueueBackgroundResult(b)
    BY <1>1 DEF Interrupt, vars, InjectUserNote, EnqueueBackgroundResult, ending
<1>2. CASE StartTurn
    BY <1>2 DEF StartTurn
<1>3. CASE Request \/ \E r \in Responses : Respond(r)
    <2>1. pc # "idle" /\ UNCHANGED <<said, retained, shown>>
        BY <1>3, Zenon DEF Request, Respond, ending
    <2> QED
        BY <2>1
<1>4. CASE Reissue \/ ToolRoundDone
    BY <1>4 DEF Reissue, Proceeds, ToolRoundDone, Advance, ending
<1>5. CASE RetryVisible \/ RetryRaised \/ Nudge
    BY <1>5 DEF RetryVisible, RetryRaised, RetryWith, Nudge, RetainedByNudge, CutShort,
       Proceeds, Says, Advance, ending
<1>6. CASE BeginTools
    BY <1>6 DEF BeginTools, Proceeds, Says, ending
<1>7. CASE \E i \in DOMAIN calls : RunCall(i)
    BY <1>7 DEF RunCall, ending
<1>8. CASE WaitCancelled \/ ModelError \/ Bail \/ StopForBudget \/ CapStop \/ StopForTruncation
    BY <1>8 DEF WaitCancelled, ModelError, Bail, StopForBudget, CapStop, StopForTruncation, EndTurn
<1>9. CASE CapFinal
    <2>1. PICK first : EndTurn("final", FinalText(HasText(resp) \/ (calls # <<>> /\ calls[first] = "final")))
        BY <1>9 DEF CapFinal
    <2>2. (said <=> retained) /\ (said' => said \/ HasText(resp))
        BY <1>9 DEF CapFinal, Says
    <2> QED
        BY <2>1, <2>2, FinalTextSurfaces
<1>10. CASE CapPlain
    <2>1. EndTurn("capped", FinalText(HasText(resp))) /\ (said <=> retained) /\ (said' => said \/ HasText(resp))
        BY <1>10 DEF CapPlain, Says
    <2> QED
        BY <2>1, FinalTextSurfaces
<1>11. CASE Answer
    <2>1. EndTurn("final", FinalText(HasText(resp))) /\ (said <=> retained) /\ (said' => said \/ HasText(resp))
        BY <1>11 DEF Answer, Proceeds, Says
    <2> QED
        BY <2>1, FinalTextSurfaces
<1>12. CASE FoldFinal
    <2>1. PICK i \in MayRun : EndTurn("final", FinalText(HasText(resp) \/ calls[i] = "final"))
        BY <1>12 DEF FoldFinal
    <2>2. (said <=> retained) /\ said' = said
        BY <1>12 DEF FoldFinal
    <2> QED
        BY <2>1, <2>2, FinalTextSurfaces
<1> QED
    BY <1>1, <1>2, <1>3, <1>4, <1>5, <1>6, <1>7, <1>8, <1>9, <1>10, <1>11, <1>12
    DEF Next, RoundTrip, Decision, ToolRound

\* lastAssistant: a turn never ends on an empty final event when it had text.
THEOREM TextIsSurfaced == Spec => []AnswerSurfaced
<1>1. Init => SurfaceInv
    BY DEF Init, SurfaceInv, AnswerSurfaced
<1>2. SurfaceInv => AnswerSurfaced
    BY DEF SurfaceInv
<1> QED
    BY <1>1, <1>2, SurfaceStep, PTL DEF Spec
=============================================================================
