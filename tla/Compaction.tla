----------------------------- MODULE Compaction -----------------------------
(***************************************************************************)
(* Keeping a session's transcript within the context window of its model:  *)
(* compaction before a request (agent/user_session.go compactIfNeeded,     *)
(* compression/compression.go, model/model_session.go) and migration when  *)
(* the session is moved to a model with a smaller window                   *)
(* (MigrateToContextWindow).                                               *)
(*                                                                         *)
(* A message is its role, its estimated size and the stretch of the        *)
(* conversation it stands for: itself, or all that a digest summarises.    *)
(* Tool calls are appended together with their results (AppendToolResults, *)
(* or the balancing of an interrupted turn); system prompt, text and the   *)
(* volatile tail are left out.                                             *)
(***************************************************************************)
EXTENDS Integers, Sequences, FiniteSets, SequencesExt, FiniteSetsExt

CONSTANTS
  Windows,      \* context windows of the configured models, 0 for one not known
  DefaultWindow,\* ContextWindowOrDefault of the latter
  Sizes,        \* bound: sizes of messages and digests
  KeepRecent,   \* DefaultKeepRecentTurns (3 in the code)
  MaxRounds,    \* maxMigrationRounds (8 in the code)
  MaxMessages   \* bound: messages of a conversation

VARIABLES
  transcript,   \* messages [role, size, from, to]
  said,         \* how many messages the conversation had
  count,        \* CurrentTokenCount: the last usage, or an estimate after a compaction
  usage,        \* lastUsageTotal of the history
  window,       \* MaxContextLength
  suppressed,   \* compressSuppressed
  evaluated,    \* lastMigrationWindow
  phase,        \* "idle", "fold" (migrating), "compact", "wire" (request under way)
  target,       \* window of the model the turn runs on
  opening,      \* the user's message is not yet in the transcript
  keep, round,  \* of the migration under way
  ranOn         \* window of the model that answered last, 0 when none did

cpvars == <<transcript, said, count, usage, window, suppressed, evaluated, phase,
            target, opening, keep, round, ranOn>>

Roles == {"user", "digest", "text", "calls", "tool"}

TypeOK ==
  /\ Len(transcript) <= MaxMessages
  /\ \A i \in DOMAIN transcript : transcript[i].role \in Roles /\ transcript[i].size \in Sizes
  /\ said \in 0..MaxMessages /\ {count, usage} \subseteq Nat
  /\ window \in Windows \cup {DefaultWindow} /\ {evaluated, target, ranOn} \subseteq Windows \cup {0}
  /\ {suppressed, opening} \subseteq BOOLEAN
  /\ phase \in {"idle", "fold", "compact", "wire"}
  /\ keep \in 1..KeepRecent /\ round \in 0..MaxRounds

Init ==
  /\ transcript = <<>> /\ said = 0 /\ count = 0 /\ usage = 0
  /\ window = DefaultWindow /\ suppressed = FALSE /\ evaluated = 0
  /\ phase = "idle" /\ target = 0 /\ opening = FALSE
  /\ keep = KeepRecent /\ round = 0 /\ ranOn = 0

-----------------------------------------------------------------------------
(* Splitting a transcript.                                                 *)

EstimateTokens(msgs) == FoldLeft(LAMBDA sum, m : sum + m.size, 0, msgs)

IsUser(m) == m.role \in {"user", "digest"}

UserTurns(msgs) == {i \in DOMAIN msgs : IsUser(msgs[i])}

\* The length of the older part: the rest starts with one of the last k user messages.
SafeSplit(msgs, k) ==
  LET turns == UserTurns(msgs)
      kept == {i \in turns : Cardinality({j \in turns : j >= i}) <= k}
  IN  IF kept = {} THEN 0 ELSE Min(kept) - 1

AllDigests(msgs) == msgs # <<>> /\ \A i \in DOMAIN msgs : msgs[i].role = "digest"

Cut(msgs, n) == SubSeq(msgs, 1, n)
After(msgs, n) == SubSeq(msgs, n + 1, Len(msgs))

\* As many of the oldest messages as fit the budget, one at least.
Packed(msgs, budget) ==
  Max({1} \cup {n \in DOMAIN msgs : EstimateTokens(Cut(msgs, n)) <= budget})

\* A leading digest is not summarised alone.
WithProgress(msgs, n) == IF n < Len(msgs) /\ AllDigests(Cut(msgs, n)) THEN n + 1 ELSE n

\* faulty variant: the budget decides, tool results or not.
FirstChunkUnpaired(msgs, budget) == WithProgress(msgs, Packed(msgs, budget))

\* The length of the oldest chunk; results stay with the calls they answer.
FirstChunk(msgs, budget) ==
  LET n == WithProgress(msgs, Packed(msgs, budget))
      clean == {i \in n .. Len(msgs) - 1 : msgs[i + 1].role # "tool"}
  IN  IF clean = {} THEN Len(msgs) ELSE Min(clean)

MigrationChunkBudget(w) == Max({1, w \div 2})

Digest(msgs, size) ==
  [role |-> "digest", size |-> size, from |-> msgs[1].from, to |-> msgs[Len(msgs)].to]

\* The first n messages of an older part become a digest, the others stay.
Folded(msgs, n, older, size) == <<Digest(Cut(msgs, n), size)>> \o After(msgs, n)

\* ApplyCompressedTranscript.
Apply(msgs) ==
  /\ transcript' = msgs /\ count' = EstimateTokens(msgs) /\ suppressed' = TRUE

-----------------------------------------------------------------------------
(* A message of the user for a model with window w: Resume and             *)
(* SetMaxContextLength, then the guards of MigrateToContextWindow.         *)

Effective(w) == IF w > 0 THEN w ELSE DefaultWindow
Fit(w) == (8 * w) \div 10

Migrates(w) == w > 0 /\ ~(evaluated > 0 /\ w >= evaluated) /\ usage > Fit(w)

Message(w) ==
  /\ phase = "idle" /\ said < MaxMessages
  /\ count' = usage
  /\ window' = Effective(w) /\ suppressed' = (suppressed /\ window = Effective(w))
  /\ evaluated' = w /\ target' = w
  /\ phase' = IF Migrates(w) THEN "fold" ELSE "compact"
  /\ opening' = TRUE /\ keep' = KeepRecent /\ round' = 0
  /\ UNCHANGED <<transcript, said, usage, ranOn>>

-----------------------------------------------------------------------------
(* The rounds of a migration.                                              *)

InRound == phase = "fold" /\ round < MaxRounds

Older == SafeSplit(transcript, keep)

Stop == phase' = "idle" /\ opening' = FALSE

FoldDone ==
  /\ phase = "fold" /\ count <= Fit(target)
  /\ phase' = "compact"
  /\ UNCHANGED <<transcript, said, count, usage, window, suppressed, evaluated, target, opening, keep, round, ranOn>>

\* The turn is cancelled, there is no digest to be had, or nothing more to fold:
\* the turn fails.
FoldFails ==
  /\ phase = "fold" /\ (round < MaxRounds \/ count > Fit(target))
  /\ Stop
  /\ UNCHANGED <<transcript, said, count, usage, window, suppressed, evaluated, target, keep, round, ranOn>>

FoldFewerTurns ==
  /\ InRound /\ count > Fit(target)
  /\ Older = 0 /\ keep > 1
  /\ keep' = keep - 1 /\ round' = round + 1
  /\ UNCHANGED <<transcript, said, count, usage, window, suppressed, evaluated, phase, target, opening, ranOn>>

\* keep = 1 without progress ends the rounds in an error.
FoldChunk(size) ==
  /\ InRound /\ count > Fit(target) /\ Older > 0
  /\ LET n == FirstChunk(Cut(transcript, Older), MigrationChunkBudget(target))
     IN  Apply(Folded(transcript, n, Older, size))
  /\ keep' = Max({1, keep - 1}) /\ round' = round + 1
  /\ IF count' >= count /\ keep = 1 THEN Stop ELSE UNCHANGED <<phase, opening>>
  /\ UNCHANGED <<said, usage, window, evaluated, target, ranOn>>

-----------------------------------------------------------------------------
(* Requests of the turn.                                                   *)

HeldOff == suppressed /\ count > window \div 2
NeedsCompression == ~HeldOff /\ count >= (8 * window) \div 10

\* compactIfNeeded: nothing to do, nothing older, or no digest to be had.
SkipCompaction ==
  /\ phase = "compact"
  /\ phase' = "wire" /\ suppressed' = HeldOff
  /\ UNCHANGED <<transcript, said, count, usage, window, evaluated, target, opening, keep, round, ranOn>>

Compact(size) ==
  /\ phase = "compact" /\ NeedsCompression
  /\ LET older == SafeSplit(transcript, KeepRecent) IN
       older > 0 /\ Apply(Folded(transcript, older, older, size))
  /\ phase' = "wire"
  /\ UNCHANGED <<said, usage, window, evaluated, target, opening, keep, round, ranOn>>

Says(roles, size) ==
  [i \in DOMAIN roles |-> [role |-> roles[i], size |-> size, from |-> said + i, to |-> said + i]]

Asked(size) == Says(IF opening THEN <<"user">> ELSE <<>>, size)

\* The request fails or is cancelled: the message it carried stays.
RequestFails(size) ==
  /\ phase = "wire"
  /\ transcript' = transcript \o Asked(size) /\ said' = said + Len(Asked(size))
  /\ Stop
  /\ UNCHANGED <<count, usage, window, suppressed, evaluated, target, keep, round, ranOn>>

\* The model answers with text, or with calls that are then carried out; the
\* usage it reports, if it does, covers the whole context.
Reply(roles, size, reports) ==
  /\ phase = "wire"
  /\ LET more == Says((IF opening THEN <<"user">> ELSE <<>>) \o roles, size)
         heard == IF opening THEN 2 ELSE 1
     IN  /\ said + Len(more) <= MaxMessages
         /\ transcript' = transcript \o more /\ said' = said + Len(more)
         /\ usage' = IF reports THEN EstimateTokens(transcript \o Cut(more, heard)) ELSE usage
         /\ count' = IF reports THEN usage' ELSE count
  /\ opening' = FALSE /\ phase' = IF roles = <<"text">> THEN "idle" ELSE "compact"
  /\ ranOn' = target
  /\ UNCHANGED <<window, suppressed, evaluated, target, keep, round>>

Replies == {<<"text">>, <<"calls", "tool">>, <<"calls", "tool", "tool">>}

Next ==
  \/ \E w \in Windows : Message(w)
  \/ FoldDone \/ FoldFails \/ FoldFewerTurns \/ \E s \in Sizes : FoldChunk(s)
  \/ SkipCompaction \/ \E s \in Sizes : Compact(s)
  \/ \E s \in Sizes : RequestFails(s)
  \/ \E r \in Replies, s \in Sizes, b \in BOOLEAN : Reply(r, s, b)

Spec == Init /\ [][Next]_cpvars

-----------------------------------------------------------------------------
(* Properties.                                                             *)

\* Whatever was folded, by whichever of the two and in whatever order: no tool
\* result in the transcript is parted from the call it answers, and every message
\* ever said is in the transcript or covered by a digest, once and in its place.
TranscriptWhole ==
  /\ \A i \in DOMAIN transcript : transcript[i].role = "tool" =>
       i > 1 /\ transcript[i - 1].role \in {"calls", "tool"} /\ transcript[i - 1].to = transcript[i].from - 1
  /\ \A i \in DOMAIN transcript : i > 1 => transcript[i].from = transcript[i - 1].to + 1
  /\ said > 0 => transcript # <<>> /\ transcript[1].from = 1 /\ transcript[Len(transcript)].to = said

\* No turn starts on a model with a smaller window than the last one's unless the
\* conversation fits it (MigrateToContextWindow: "makes a session safe to run on
\* cfg's model before its first turn there").
FirstTurnFits ==
  phase = "wire" /\ opening /\ target > 0 /\ ranOn > target => count <= Fit(target)
=============================================================================
