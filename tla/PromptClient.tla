---------------------------- MODULE PromptClient ----------------------------
(***************************************************************************)
(* The prompts of a daemon in an attached terminal: the approvals poller    *)
(* and its handlers (ui/tui/remote_handlers.go), the queue of modals and    *)
(* the deferral of a modal while the user types (permission_dialog.go).     *)
(*                                                                         *)
(* A prompt is a life of the daemon and a number, since the numbers start   *)
(* anew with each life.  What the daemon does with an answer is reduced to  *)
(* who came first; ApprovalBridge has the details.  Requests and responses  *)
(* may be lost.  Wording, badges and notifications are left out.            *)
(***************************************************************************)
EXTENDS Integers, FiniteSets

CONSTANTS
  Lives,       \* bound: lives of the daemon
  Numbers,     \* bound: numbers of a life
  MaxPrompts,  \* bound: prompts in all
  MaxTries,    \* attempts of decide
  Nobody

Prompts == (1..Lives) \X (1..Numbers)
PromptAssumption == Lives \in Nat \ {0} /\ Numbers \in Nat /\ MaxTries \in Nat \ {0} /\ Nobody \notin Prompts

Number(p) == p[2]
NumbersOf(ps) == {Number(p) : p \in ps}

VARIABLES
  life,       \* the daemon that runs
  raised,     \* prompts raised so far
  pending,    \* its pending approvals
  observed,   \* those that a client has listed
  listed,     \* the approvals in the response on its way to the poller, or Nobody
  seen,       \* the poller's set of numbers
  handler,    \* the goroutine of each prompt: where it is, its answer, its attempts
  lock,       \* who holds promptMu
  posted,     \* modals posted to the event loop
  deferred,   \* deferredModal
  timer,      \* deferredTimer is armed
  recheck,    \* its closure is posted
  screen,     \* dialogs that are open
  ui,         \* "runs", "ends" (the shutdown context is done) or "gone" (the process)
  \* history
  outcome     \* how each prompt ended, and by whose answer

poll == <<listed, seen>>
modals == <<posted, deferred, timer, recheck, screen>>
daemon == <<life, raised, pending, observed>>
pcvars == <<life, raised, pending, observed, listed, seen, handler, lock, posted, deferred,
            timer, recheck, screen, ui, outcome>>

Away == [at |-> "none", answer |-> "none", tries |-> 0]
Open == [how |-> "open", by |-> Nobody]

TypeOK ==
  /\ life \in 1..Lives /\ raised \subseteq Prompts /\ pending \subseteq raised
  /\ listed \in (SUBSET Prompts) \cup {Nobody} /\ seen \subseteq 1..Numbers
  /\ \A p \in Prompts :
       /\ handler[p].at \in {"none", "queued", "waiting", "answered", "deciding", "resolved", "late", "failed"}
       /\ handler[p].answer \in {"none", "user", "shutdown"} /\ handler[p].tries \in 0..MaxTries
       /\ outcome[p].how \in {"open", "user", "shutdown", "denied", "lapsed"} /\ outcome[p].by \in Prompts \cup {Nobody}
  /\ lock \in Prompts \cup {Nobody} /\ posted \subseteq Prompts /\ deferred \in Prompts \cup {Nobody}
  /\ timer \in BOOLEAN /\ recheck \in BOOLEAN /\ screen \subseteq Prompts
  /\ ui \in {"runs", "ends", "gone"} /\ observed \subseteq pending

Init ==
  /\ life = 1 /\ raised = {} /\ pending = {} /\ observed = {}
  /\ listed = Nobody /\ seen = {}
  /\ handler = [p \in Prompts |-> Away] /\ lock = Nobody
  /\ posted = {} /\ deferred = Nobody /\ timer = FALSE /\ recheck = FALSE /\ screen = {}
  /\ ui = "runs" /\ outcome = [p \in Prompts |-> Open]

At(p, where) == handler[p].at = where
Goto(p, where) == handler' = [handler EXCEPT ![p].at = where]
Ends(p, how, by) == outcome' = [outcome EXCEPT ![p] = [how |-> how, by |-> by]]

-----------------------------------------------------------------------------
(* The daemon.                                                             *)

Raise ==
  LET n == Cardinality({p \in raised : p[1] = life}) + 1 IN
  /\ n <= Numbers /\ Cardinality(raised) < MaxPrompts
  /\ raised' = raised \cup {<<life, n>>} /\ pending' = pending \cup {<<life, n>>}
  /\ UNCHANGED <<life, observed, poll, handler, lock, modals, ui, outcome>>

Removed(p) == pending' = pending \ {p} /\ observed' = observed \ {p}

\* the clock of connected clients denies a prompt that was listed; another client
\* answers it, or the longer clock denies it
Lapse(p) ==
  /\ p \in pending /\ Removed(p)
  /\ \/ p \in observed /\ Ends(p, "denied", Nobody)
     \/ Ends(p, "lapsed", Nobody)
  /\ UNCHANGED <<life, raised, poll, handler, lock, modals, ui>>

RestartDaemon ==
  /\ life < Lives /\ life' = life + 1
  /\ pending' = {} /\ observed' = {}
  /\ outcome' = [p \in Prompts |-> IF p \in pending THEN [how |-> "lapsed", by |-> Nobody] ELSE outcome[p]]
  /\ UNCHANGED <<raised, poll, handler, lock, modals, ui>>

-----------------------------------------------------------------------------
(* pollApprovals, scanApprovals: one goroutine.                            *)

\* the daemon answers a list request; one that fails changes nothing
List ==
  /\ ui # "gone" /\ listed = Nobody
  /\ listed' = pending /\ observed' = pending
  /\ UNCHANGED <<life, raised, pending, seen, handler, lock, modals, ui, outcome>>

\* numbers that are gone are forgotten, those that are listed remembered
Scan ==
  /\ ui # "gone" /\ listed # Nobody
  /\ handler' = [p \in Prompts |-> IF p \in listed /\ Number(p) \notin seen
                                   THEN [Away EXCEPT !.at = "queued"] ELSE handler[p]]
  /\ seen' = NumbersOf(listed) /\ listed' = Nobody
  /\ UNCHANGED <<daemon, lock, modals, ui, outcome>>

-----------------------------------------------------------------------------
(* serializePrompt and the event loop.                                     *)

\* faulty variant: modals are not serialized
PromptsAtOnce(p) == TRUE

PromptFree(p) == lock = Nobody

\* promptMu is taken; the modal is posted, unless the UI is gone
Prompt(p) ==
  /\ ui # "gone" /\ At(p, "queued") /\ PromptFree(p)
  /\ IF ui = "runs"
     THEN Goto(p, "waiting") /\ lock' = p /\ posted' = posted \cup {p}
     ELSE /\ handler' = [handler EXCEPT ![p].at = "deciding", ![p].answer = "shutdown"]
          /\ UNCHANGED <<lock, posted>>
  /\ UNCHANGED <<daemon, poll, deferred, timer, recheck, screen, ui, outcome>>

\* drainDeferredModalNow with d in the slot
Drain(d) ==
  /\ deferred' = Nobody /\ timer' = FALSE
  /\ screen' = screen \cup {d}

\* maybeShowDeferredModal with d in the slot: the user has just typed, or not
MaybeShow(d) ==
  \/ deferred' = d /\ timer' = TRUE /\ UNCHANGED screen
  \/ Drain(d)

\* presentBackgroundModal
Present(p) ==
  /\ ui = "runs" /\ p \in posted /\ posted' = posted \ {p}
  /\ MaybeShow(p)
  /\ UNCHANGED <<daemon, poll, handler, lock, recheck, ui, outcome>>

TimerFires ==
  /\ ui = "runs" /\ timer /\ timer' = FALSE /\ recheck' = TRUE
  /\ UNCHANGED <<daemon, poll, handler, lock, posted, deferred, screen, ui, outcome>>

\* the recheck finds the slot empty when the user has submitted meanwhile
Recheck ==
  /\ ui = "runs" /\ recheck /\ recheck' = FALSE
  /\ IF deferred = Nobody THEN UNCHANGED <<deferred, timer, screen>> ELSE MaybeShow(deferred)
  /\ UNCHANGED <<daemon, poll, handler, lock, posted, ui, outcome>>

\* the user submits or clears the input
Submit ==
  /\ ui = "runs" /\ deferred # Nobody /\ Drain(deferred)
  /\ UNCHANGED <<daemon, poll, handler, lock, posted, recheck, ui, outcome>>

\* a button, or Escape
Choose(p) ==
  /\ ui = "runs" /\ p \in screen /\ screen' = screen \ {p}
  /\ handler' = [handler EXCEPT ![p].at = "answered", ![p].answer = "user"]
  /\ UNCHANGED <<daemon, poll, lock, posted, deferred, timer, recheck, ui, outcome>>

\* serializePrompt returns: the answer, or the default of the shutdown
PromptReturns(p) ==
  /\ ui # "gone" /\ lock' = IF lock = p THEN Nobody ELSE lock
  /\ \/ At(p, "answered") /\ Goto(p, "deciding")
     \/ /\ At(p, "answered") \/ At(p, "waiting")
        /\ ui = "ends"
        /\ handler' = [handler EXCEPT ![p].at = "deciding", ![p].answer = "shutdown"]
  /\ UNCHANGED <<daemon, poll, modals, ui, outcome>>

\* the user quits, or detaches; a little later the process ends
Quit ==
  /\ ui = "runs" /\ ui' = "ends"
  /\ UNCHANGED <<daemon, poll, handler, lock, modals, outcome>>

Exit ==
  /\ ui = "ends" /\ ui' = "gone"
  /\ UNCHANGED <<daemon, poll, handler, lock, modals, outcome>>

-----------------------------------------------------------------------------
(* decide and reportDecision.                                              *)

\* the answer carries a number only: it meets the prompt that has it now
Target(p) == <<life, Number(p)>>
Status(p) == IF Target(p) \in pending THEN "resolved" ELSE IF Target(p) \in raised THEN "late" ELSE "not found"

\* an attempt without a usable response: the last one is reported as a failure
TryAgain(p) ==
  LET n == handler[p].tries + 1 IN
  handler' = [handler EXCEPT ![p].tries = n, ![p].at = IF n = MaxTries THEN "failed" ELSE "deciding"]

\* the request does not arrive; once the shutdown has begun the wait before a retry may be cut
Unsent(p) ==
  /\ ui # "gone" /\ At(p, "deciding")
  /\ \/ TryAgain(p)
     \/ ui = "ends" /\ handler[p].tries > 0 /\ Goto(p, "failed")
  /\ UNCHANGED <<daemon, poll, lock, modals, ui, outcome>>

\* it does, and the response comes back, or not
Decide(p) ==
  LET s == Status(p) IN
  /\ ui # "gone" /\ At(p, "deciding")
  /\ IF s = "resolved"
     THEN Removed(Target(p)) /\ Ends(Target(p), handler[p].answer, p)
     ELSE UNCHANGED <<pending, observed, outcome>>
  /\ \/ s # "not found" /\ Goto(p, s)
     \/ TryAgain(p)
  /\ UNCHANGED <<life, raised, poll, lock, modals, ui>>

Next ==
  \/ Raise \/ RestartDaemon \/ List \/ Scan \/ TimerFires \/ Recheck \/ Submit \/ Quit \/ Exit
  \/ \E p \in Prompts :
       \/ Lapse(p) \/ Prompt(p) \/ Present(p) \/ PromptReturns(p) \/ Unsent(p) \/ Decide(p) \/ Choose(p)

Spec == Init /\ [][Next]_pcvars

-----------------------------------------------------------------------------
(* Properties.                                                             *)

\* While the UI runs, a tool that waits for an answer has its modal on the way:
\* posted, held back with a timer that will look again, or on the screen, and in
\* one of these places only (serializePrompt, maybeShowDeferredModal).
ModalNotLost ==
  ui = "runs" =>
    \A p \in Prompts : At(p, "waiting") =>
      /\ lock = p
      /\ Cardinality({w \in {"posted", "held", "shown"} :
           \/ w = "posted" /\ p \in posted
           \/ w = "held" /\ deferred = p /\ (timer \/ recheck)
           \/ w = "shown" /\ p \in screen}) = 1

\* pollApprovals: "presents each one exactly once".  No prompt gets a second modal.
PresentedOnce == [][\A p \in Prompts : At(p, "none") \/ handler'[p].at \notin {"none", "queued"} \/ handler'[p] = handler[p]]_pcvars

\* An answer ends the prompt it was given for (handleApproval, Decide).
AnswerMeetsItsPrompt == \A p \in Prompts : outcome[p].by \in {Nobody, p}

\* scanApprovals: "so a future approval that happens to reuse an id is still presented".
ListedIsPresented == [][Scan => \A p \in listed : handler'[p].at # "none"]_pcvars

\* runAttached: "The daemon keeps running - detaching never stops it".  That a
\* terminal ends decides no prompt of the daemon.
QuitDecidesNothing == \A p \in Prompts : outcome[p].how # "shutdown"

\* reportDecision: "late" means the prompt "had already closed (timed out, or another
\* attached client answered it) before this decision arrived".
LateIsLate == \A p \in Prompts : At(p, "late") => outcome[p].by # p

\* reportDecision: "the daemon no longer auto-denies a prompt before any client has
\* surfaced it".
SurfacedBeforeDenied ==
  [][\A p \in Prompts : outcome'[p].how = "denied" /\ outcome[p].how # "denied" =>
       p \in screen \/ handler[p].answer = "user"]_pcvars
=============================================================================
