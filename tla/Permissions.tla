---------------------------- MODULE Permissions ----------------------------
(***************************************************************************)
(* The permission service (permission/permission.go): every tool call asks *)
(* it, several at a time; rules, sticky answers and the auto-approval of   *)
(* yolo mode decide, or else a human.  A sticky answer is recorded in      *)
(* memory under the lock and written to permissions.json outside of it,    *)
(* also by the approvals handler when it comes late.                       *)
(*                                                                         *)
(* A key stands for an action and a resource, a request for a key and the  *)
(* detail that rules may look at.  Patterns, the audit trail and the       *)
(* wording of refusals are left out; the prompter answers at some time.    *)
(***************************************************************************)
EXTENDS Integers

CONSTANTS
  Keys,
  Requests,
  KeyOf,       \* the key of each request
  Within,      \* pairs of keys of one path action, the first path inside the second
  Setups,      \* rules and prompter: [deny, allow : SUBSET Requests, prompter : BOOLEAN]
  Checkers,    \* tool calls and approval handlers at work at the same time
  Callers,     \* sessions
  MaxChecks,   \* bound: checks and late answers
  MaxToggles,  \* bound: switches of yolo mode
  MaxRestarts  \* bound: restarts of the daemon

PermissionAssumption == \A q \in Requests : KeyOf[q] \in Keys

Sticky == {"always", "always_deny"}
Decisions == {"allow", "deny"} \cup Sticky

VARIABLES
  setup,      \* rules and prompter, since the start
  saved,      \* Service.saved
  file,       \* permissions.json: the decisions it holds, or Torn
  yolo,       \* the global default
  override,   \* sessionYolo
  checker,    \* the call of each checker
  given,      \* history: the sticky answers given
  kept,       \* history: the keys with an answer whose write returned
  checks, toggles, restarts

pmvars == <<setup, saved, file, yolo, override, checker, given, kept, checks, toggles, restarts>>

Torn == [torn |-> TRUE]   \* truncated, or with the tail of a longer text
None == <<>>
Maps == UNION {[D -> Sticky] : D \in SUBSET Keys}
Resting == [at |-> "idle"]
With(f, k, v) == [x \in DOMAIN f \cup {k} |-> IF x = k THEN v ELSE f[x]]

TypeOK ==
  /\ setup \in Setups /\ saved \in Maps /\ file \in Maps \cup {Torn}
  /\ yolo \in BOOLEAN /\ DOMAIN override \subseteq Callers
  /\ \A c \in Checkers : checker[c].at \in {"idle", "asking", "keep", "open", "write", "done"}
  /\ given \subseteq Keys \X Sticky /\ kept \subseteq Keys
  /\ checks \in 0..MaxChecks /\ toggles \in 0..MaxToggles /\ restarts \in 0..MaxRestarts

Init ==
  /\ setup \in Setups
  /\ saved = None /\ file = None
  /\ yolo = FALSE /\ override = None
  /\ checker = [c \in Checkers |-> Resting]
  /\ given = {} /\ kept = {}
  /\ checks = 0 /\ toggles = 0 /\ restarts = 0

-----------------------------------------------------------------------------
(* The cascade.                                                            *)

EffectiveYolo(s) == IF s \in DOMAIN override THEN override[s] ELSE yolo

\* a saved key decides for its own resource and the paths under it
Covers(k, r) == k = r \/ <<r, k>> \in Within

\* faulty variant: the answers are looked at ahead of the guardrails
SavedFirst(q) ==
  LET hits == {k \in DOMAIN saved : Covers(k, KeyOf[q])} IN
  IF hits # {} THEN {saved[k] : k \in hits}
  ELSE IF q \in setup.deny THEN {"always_deny"}
  ELSE IF q \in setup.allow THEN {"always"} ELSE {"ask"}

\* what the cascade may say: where several saved answers cover a request the
\* iteration order of the map picks one
Effect(q) ==
  LET hits == {k \in DOMAIN saved : Covers(k, KeyOf[q])} IN
  IF q \in setup.deny THEN {"always_deny"}
  ELSE IF hits # {} THEN {saved[k] : k \in hits}
  ELSE IF q \in setup.allow THEN {"always"} ELSE {"ask"}

Step(c, r) == checker' = [checker EXCEPT ![c] = r]
Answered(c, q, own) ==
  Step(c, [at |-> "done", req |-> q, own |-> own, bypass |-> FALSE, barred |-> FALSE,
           result |-> IF own \in {"allow", "always"} THEN "allowed" ELSE "denied"])

\* CheckWithContext, up to the prompt
Check(c, q, s) ==
  LET k == KeyOf[q]
      Decided(result) ==
        Step(c, [at |-> "done", req |-> q, own |-> "none", result |-> result,
                 bypass |-> IF s \in DOMAIN override THEN override[s] ELSE yolo,
                 barred |-> k \in DOMAIN saved /\ saved[k] = "always_deny"])
  IN
  /\ checker[c].at = "idle" /\ checks < MaxChecks
  /\ \E e \in Effect(q) :
       IF e = "always" \/ (e = "ask" /\ EffectiveYolo(s)) THEN Decided("allowed")
       ELSE IF e = "always_deny" \/ ~setup.prompter THEN Decided("denied")
       ELSE Step(c, [at |-> "asking", req |-> q])
  /\ checks' = checks + 1
  /\ UNCHANGED <<setup, saved, file, yolo, override, given, kept, toggles, restarts>>

\* the human answers the prompt
Answer(c, d) ==
  LET q == checker[c].req IN
  /\ checker[c].at = "asking"
  /\ IF d \in Sticky
     THEN /\ given' = given \cup {<<KeyOf[q], d>>}
          /\ Step(c, [at |-> "keep", req |-> q, d |-> d, late |-> FALSE])
     ELSE Answered(c, q, d) /\ UNCHANGED given
  /\ UNCHANGED <<setup, saved, file, yolo, override, kept, checks, toggles, restarts>>

\* Persist: the handler passes on a sticky answer that came late
LateAnswer(c, q, d) ==
  /\ checker[c].at = "idle" /\ checks < MaxChecks
  /\ given' = given \cup {<<KeyOf[q], d>>}
  /\ Step(c, [at |-> "keep", req |-> q, d |-> d, late |-> TRUE])
  /\ checks' = checks + 1
  /\ UNCHANGED <<setup, saved, file, yolo, override, kept, toggles, restarts>>

\* persist: the map and its text change under one lock
Kept(q, d) == With(saved, KeyOf[q], d)

Keep(c) ==
  LET x == checker[c] IN
  /\ x.at = "keep"
  /\ saved' = Kept(x.req, x.d)
  /\ Step(c, [at |-> "open", req |-> x.req, d |-> x.d, late |-> x.late, data |-> saved'])
  /\ UNCHANGED <<setup, file, yolo, override, given, kept, checks, toggles, restarts>>

\* persist returns, whether or not it could write; a late answer has no result
Returns(c) ==
  IF checker[c].late THEN Step(c, Resting) ELSE Answered(c, checker[c].req, checker[c].d)

\* write: os.WriteFile truncates, or fails
Open(c) ==
  LET x == checker[c] IN
  /\ x.at = "open"
  /\ file' = Torn
  /\ Step(c, [at |-> "write", req |-> x.req, d |-> x.d, late |-> x.late, data |-> x.data])
  /\ UNCHANGED <<setup, saved, yolo, override, given, kept, checks, toggles, restarts>>

OpenFails(c) ==
  /\ checker[c].at = "open" /\ Returns(c)
  /\ UNCHANGED <<setup, saved, file, yolo, override, given, kept, checks, toggles, restarts>>

\* the text is written over what is there: it may fail, or leave the tail of a
\* longer one that somebody wrote since the file was truncated
Write(c) ==
  LET data == checker[c].data IN
  /\ checker[c].at = "write"
  /\ file' \in {data, file, Torn}
  /\ kept' = IF file' = data THEN kept \cup {KeyOf[checker[c].req]} ELSE kept
  /\ Returns(c)
  /\ UNCHANGED <<setup, saved, yolo, override, given, checks, toggles, restarts>>

\* the tool goes on with its answer
Proceed(c) ==
  /\ checker[c].at = "done" /\ Step(c, Resting)
  /\ UNCHANGED <<setup, saved, file, yolo, override, given, kept, checks, toggles, restarts>>

-----------------------------------------------------------------------------

SetYolo(on) ==
  /\ toggles < MaxToggles /\ on # yolo
  /\ yolo' = on /\ toggles' = toggles + 1
  /\ UNCHANGED <<setup, saved, file, override, checker, given, kept, checks, restarts>>

SetSessionYolo(s, on) ==
  /\ toggles < MaxToggles
  /\ override' = With(override, s, on) /\ toggles' = toggles + 1
  /\ UNCHANGED <<setup, saved, file, yolo, checker, given, kept, checks, restarts>>

\* load: a file that cannot be parsed is left alone
Loaded == IF file = Torn THEN None ELSE file

\* the process ends at any moment and another begins
Restart ==
  /\ restarts < MaxRestarts
  /\ restarts' = restarts + 1
  /\ saved' = Loaded /\ override' = None
  /\ checker' = [c \in Checkers |-> Resting]
  /\ UNCHANGED <<setup, file, yolo, given, kept, checks, toggles>>

Next ==
  \/ \E c \in Checkers :
       \/ \E q \in Requests : \/ \E s \in Callers : Check(c, q, s)
                              \/ \E d \in Sticky : LateAnswer(c, q, d)
       \/ \E d \in Decisions : Answer(c, d)
       \/ Keep(c) \/ Open(c) \/ OpenFails(c) \/ Write(c) \/ Proceed(c)
  \/ \E on \in BOOLEAN : SetYolo(on) \/ \E s \in Callers : SetSessionYolo(s, on)
  \/ Restart

Spec == Init /\ [][Next]_pmvars

-----------------------------------------------------------------------------
(* Properties.                                                             *)

Judged(c) == checker[c].at = "done"
Told(q, d) == \E k \in Keys : Covers(k, KeyOf[q]) /\ <<k, d>> \in given

\* No guardrail is ever passed, and nobody is allowed or refused without a cause:
\* a rule, an answer of his own, yolo mode, or a sticky answer a human gave for
\* this path or one above it, in this life of the process or an earlier one,
\* whatever was written to the file meanwhile (effect, CheckWithContext, load).
DecidedForCause ==
  \A c \in Checkers : Judged(c) =>
    LET x == checker[c] IN
    /\ x.result = "allowed" => /\ x.req \notin setup.deny
                               /\ \/ x.req \in setup.allow \/ x.bypass
                                  \/ x.own \in {"allow", "always"} \/ Told(x.req, "always")
    /\ x.result = "denied" => \/ x.req \in setup.deny \/ ~setup.prompter
                              \/ x.own \in {"deny", "always_deny"} \/ Told(x.req, "always_deny")

\* effect: "Persisted decisions (permissions.json) - always->allow,
\* always_deny->deny".  A request whose own key is refused for good is not allowed.
DenialHolds == \A c \in Checkers : Judged(c) /\ checker[c].barred => checker[c].result = "denied"

\* permission.go: "persisted ... so the question is not asked again".  What was
\* written without an error is still known when nobody is at work.
AnswersAreKept == (\A c \in Checkers : checker[c].at = "idle") => kept \subseteq DOMAIN saved
=============================================================================
