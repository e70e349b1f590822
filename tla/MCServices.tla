----------------------------- MODULE MCServices -----------------------------
(***************************************************************************)
(* Components that share no state, checked side by side: in a               *)
(* behaviour one of them runs, chosen at the start, and the others rest.   *)
(* The states are the sum of theirs, not the product.                      *)
(***************************************************************************)
EXTENDS HubFeed

CONSTANTS
  Files, Workers, Background, Servers, Lists, MaxActs, MaxWrites, MaxCheckpoints,
  MaxEditActs,  \* MaxActs where a language server takes part instead of a second worker
  Windows, DefaultWindow, Sizes, KeepRecent, MaxRounds, MaxMessages,
  Clients, Free, Sessions, MaxCalls, MaxCrashes,
  Daemons, Stoppers, Nobody, Turns,
  Touches, Names, Processes, NoProcess,
  Askers, MaxContents, MaxAsks,
  Keys, Requests, KeyOf, Within, Setups, Callers, Checkers, MaxChecks, MaxToggles, MaxRestarts,
  Lives, Numbers, MaxPrompts, MaxTries,
  DedupCap, SubBuffer, MaxRecords, MaxStreams,
  Configured, ToolCalls, MaxIds, MaxLines

VARIABLES
  which,
  disk, active, history, restoring, running, toolcall, edit, acts, writes,
  transcript, said, count, usage, window, suppressed, evaluated, phase,
  target, opening, keep, round, ranOn,
  runners, file, live, attached, index, boot, pending, call, made, calls, crashes,
  pc, lock, sock, pidfile, stop, mode, handlers, core, rc, at, spawned, left, starting, turn,
  slots, client, denied, touch, proc, shut, toClose,
  source, contents, doc, opens, diag, ask, asks, cut, wire, view, pushes,
  setup, saved, grants, yolo, override, checker, given, kept, checks, toggles, restarts,
  life, raised, approvals, observed, listed, seen, handler, prompting, posted, deferred, timer,
  recheck, screen, ui, outcome,
  stamped, logging, records, server, sent, link, since, keys, shown, streams,
  rebuilt, visited, doing, with, clients, closing, tools, child, mutex, ids, inbox, lines, unasked, user

\* The files of a call: all of them, or one.
Orders == {<<f>> : f \in Files}
          \cup {CHOOSE l \in [1..Cardinality(Files) -> Files] : \A f \in Files : \E i \in DOMAIN l : l[i] = f}

\* For the permissions: two directories, one inside the other, and a file that
\* rules single out.
TwoPlaces == {"etc", "ssh"}
Asked == {"etc", "ssh", "key"}
PlaceOf == [q \in Asked |-> IF q = "key" THEN "ssh" ELSE q]
Inside == {<<"ssh", "etc">>}
Guarded == [deny |-> {"key"}, allow |-> {"etc"}, prompter |-> TRUE]
Headless == [deny |-> {}, allow |-> {"key"}, prompter |-> FALSE]
BothSetups == {Guarded, Headless}

CP == INSTANCE Checkpoints WITH call <- toolcall
CM == INSTANCE Compaction
WH == INSTANCE WatcherHost
HO == INSTANCE Handoff
LS == INSTANCE LanguageServers WITH Callers <- Touches, call <- touch
DS == INSTANCE DocumentSync WITH Callers <- Askers, MaxCalls <- MaxAsks,
                                 disk <- source, call <- ask, calls <- asks
PM == INSTANCE Permissions WITH file <- grants
PC == INSTANCE PromptClient WITH pending <- approvals, lock <- prompting
LT == INSTANCE LogTail WITH ring <- records, wire <- sent
MS == INSTANCE McpServers

ASSUME ServicesAssumption ==
  /\ CP!CheckpointsAssumption /\ PC!PromptAssumption /\ LT!LogAssumption /\ MS!McpAssumption
  /\ WH!HostAssumption /\ HO!DaemonAssumption /\ LS!ServersAssumption /\ PM!PermissionAssumption

\* A component that rests has one initial state.
ServicesInit ==
  /\ which \in {"hub", "tools", "edits", "transcript", "watchers", "handoff", "servers", "document", "permissions",
             "prompts", "logs", "mcp"}
  /\ Init /\ CP!Init /\ CM!Init /\ WH!Init /\ HO!HandoffInit /\ LS!Init /\ DS!Init /\ PM!Init
  /\ PC!Init /\ LT!Init /\ MS!Init
  /\ which # "watchers" => file = <<>> /\ index = <<>>
  /\ which # "mcp" => ~rebuilt
  /\ which # "permissions" => setup = CHOOSE x \in Setups : TRUE

files == <<disk, active, history, restoring, running, toolcall, edit, acts, writes>>
conversation == <<transcript, said, count, usage, window, suppressed, evaluated, phase, target, opening, keep, round, ranOn>>
watchers == <<runners, file, live, attached, index, boot, pending, call, made, calls, crashes>>
daemons == <<pc, lock, sock, pidfile, stop, mode, handlers, core, rc, at, spawned, left, starting, turn>>
servers == <<slots, client, denied, touch, proc, shut, toClose>>
document == <<source, contents, doc, opens, diag, ask, asks, cut, wire, view, pushes>>
permissions == <<setup, saved, grants, yolo, override, checker, given, kept, checks, toggles, restarts>>

prompts == <<life, raised, approvals, observed, listed, seen, handler, prompting, posted, deferred, timer, recheck, screen, ui, outcome>>
logs == <<stamped, logging, records, server, sent, link, since, keys, shown, streams>>
mcp == <<rebuilt, visited, doing, with, clients, closing, tools, child, mutex, ids, inbox, lines, unasked, user>>

servicesvars == <<which, hubvars, files, conversation, watchers, daemons, servers, document, permissions, prompts, logs, mcp>>

HubRuns ==
  /\ which = "hub" /\ Next
  /\ UNCHANGED <<which, files, conversation, watchers, daemons, servers, document, permissions, prompts, logs, mcp>>

\* The agents of a session, or one of them next to a language server.
FilesRun ==
  /\ which \in {"tools", "edits"} /\ CP!Next
  /\ which = "tools" => UNCHANGED edit
  /\ which = "edits" => acts' <= MaxEditActs
       /\ \A w \in Workers \ Background : toolcall'[w] = toolcall[w]
  /\ UNCHANGED <<which, hubvars, conversation, watchers, daemons, servers, document, permissions, prompts, logs, mcp>>

TranscriptRuns ==
  /\ which = "transcript" /\ CM!Next
  /\ UNCHANGED <<which, hubvars, files, watchers, daemons, servers, document, permissions, prompts, logs, mcp>>

WatchersRun ==
  /\ which = "watchers" /\ WH!Next
  /\ UNCHANGED <<which, hubvars, files, conversation, daemons, servers, document, permissions, prompts, logs, mcp>>

HandoffRuns ==
  /\ which = "handoff" /\ HO!HandoffNext
  /\ UNCHANGED <<which, hubvars, files, conversation, watchers, servers, document, permissions, prompts, logs, mcp>>

ServersRun ==
  /\ which = "servers" /\ LS!Next
  /\ UNCHANGED <<which, hubvars, files, conversation, watchers, daemons, document, permissions, prompts, logs, mcp>>

DocumentRuns ==
  /\ which = "document" /\ DS!Next
  /\ UNCHANGED <<which, hubvars, files, conversation, watchers, daemons, servers, permissions, prompts, logs, mcp>>

PermissionsRun ==
  /\ which = "permissions" /\ PM!Next
  /\ UNCHANGED <<which, hubvars, files, conversation, watchers, daemons, servers, document, prompts, logs, mcp>>

PromptsRun ==
  /\ which = "prompts" /\ PC!Next
  /\ UNCHANGED <<which, hubvars, files, conversation, watchers, daemons, servers, document, permissions, logs, mcp>>

LogsRun ==
  /\ which = "logs" /\ LT!Next
  /\ UNCHANGED <<which, hubvars, files, conversation, watchers, daemons, servers, document, permissions, prompts, mcp>>

McpRuns ==
  /\ which = "mcp" /\ MS!Next
  /\ UNCHANGED <<which, hubvars, files, conversation, watchers, daemons, servers, document, permissions, prompts, logs>>

ServicesNext == HubRuns \/ FilesRun \/ TranscriptRuns \/ WatchersRun \/ HandoffRuns
                \/ ServersRun \/ DocumentRuns \/ PermissionsRun
                \/ PromptsRun \/ LogsRun \/ McpRuns

ServicesSpec == ServicesInit /\ [][ServicesNext]_servicesvars

-----------------------------------------------------------------------------
(* Their properties, by name.                                              *)

UndoRestoresStart == CP!UndoRestoresStart
TranscriptWhole == CM!TranscriptWhole
ScheduledAsDefined == WH!ScheduledAsDefined
OneSideServes == HO!OneSideServes
OneOwner == HO!OneOwner
EveryProcessOwned == LS!EveryProcessOwned
ViewIsCurrent == DS!ViewIsCurrent
DecidedForCause == PM!DecidedForCause

ModalNotLost == PC!ModalNotLost
ShownOnce == LT!ShownOnce
AwaitedReplyKept == MS!AwaitedReplyKept
NoneOutlives == MS!NoneOutlives
PresentedOnce == PC!PresentedOnce

\* Promises that do not hold.
RewindReachesStart == CP!RewindReachesStart
RollbackIsWhole == CP!RollbackIsWhole
FirstTurnFits == CM!FirstTurnFits
CreatedSurvives == WH!CreatedSurvives
DieWithSession == WH!DieWithSession
RollbackStopsSpawned == HO!RollbackStopsSpawned
SourceIsQuiet == HO!SourceIsQuiet
SourceStaysDown == HO!SourceStaysDown
NoneLeaked == LS!NoneLeaked
FindingsAreCurrent == DS!FindingsAreCurrent
DenialHolds == PM!DenialHolds
AnswersAreKept == PM!AnswersAreKept
AnswerMeetsItsPrompt == PC!AnswerMeetsItsPrompt
QuitDecidesNothing == PC!QuitDecidesNothing
LateIsLate == PC!LateIsLate
ListedIsPresented == PC!ListedIsPresented
SurfacedBeforeDenied == PC!SurfacedBeforeDenied
AnswerIsReply == MS!AnswerIsReply
OnlyShownSkipped == LT!OnlyShownSkipped

ServicesTypeOK == TypeOK /\ CP!TypeOK /\ CM!TypeOK /\ WH!TypeOK /\ HO!HandoffTypeOK
                  /\ LS!TypeOK /\ DS!TypeOK /\ PM!TypeOK /\ PC!TypeOK /\ LT!TypeOK /\ MS!TypeOK
=============================================================================
