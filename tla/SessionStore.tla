----------------------------- MODULE SessionStore -----------------------------
(***************************************************************************)
(* The session store, internal/gogent/session_store.go, with its callers in  *)
(* gogent.go (persistSession, RenameSession, RemoveSession, ContinueSession, *)
(* RestoreSessions).  A session is an index and a row of shards on disk.     *)
(* Save appends what the agents said since the last save, or rewrites the    *)
(* shards when a transcript was compacted; Archive and UnarchiveBase rename  *)
(* the files one after the other.                                            *)
(*                                                                           *)
(* The store's lock keeps saves apart.  It does not keep the agents from     *)
(* adding messages while a save runs, and the process may be killed between  *)
(* any two file operations.  A killed process loses its memory and keeps     *)
(* what it wrote (power failures and fsync are left out).  One session is    *)
(* modelled; a message is a number, taken in the order the messages appear;  *)
(* of the index only the shard table is kept, and whether the title and the  *)
(* watchers in it are out of date is left open.                              *)
(***************************************************************************)
EXTENDS Integers, Sequences, FiniteSets

CONSTANTS
    Root, Subs,     \* the root agent and the ids of its sub-agents
    Threads,        \* goroutines that persist the session
    ShardMax,       \* shardMaxEvents
    None,           \* no value
    MaxMessages,    \* bound: messages of all agents together
    MaxCrashes      \* bound: how often the process is killed

Agents == {Root} \cup Subs

\* a line of a shard, and what the store remembers of the agents
Record == [agent : Agents, msg : Nat]
Frontiers == [persisted : [Agents -> Nat], epoch : [Agents -> Nat \cup {None}]]

ASSUME StoreAssumption ==
    /\ Root \notin Subs
    /\ ShardMax \in Nat \ {0}
    /\ MaxMessages \in Nat /\ MaxCrashes \in Nat
    /\ None \notin Nat /\ None \notin Seq(Nat) /\ None \notin Frontiers

VARIABLES
    \* the process
    up,             \* it runs
    open,           \* the session is in g.userSessions
    closing,        \* RemoveSession has yet to archive it
    present,        \* ListAllAgents(): the agent tree, in its order
    tr, epoch,      \* Transcript and transcriptEpoch of each agent
    call,           \* threads in persistSession
    \* the store
    based,          \* s.base has the session
    st,             \* s.state, or None
    shards,         \* s.shards: the number of records of each shard
    \* the operation that holds s.mu
    pc,             \* where it is; "free"
    holder,         \* whose Save it is
    full,           \* Save rewrites the whole transcript
    agents,         \* the agents Save found
    todo,           \* those not yet encoded, or not yet recorded
    lines,          \* records not yet written
    sms,            \* the shard table under construction
    moved,          \* shards renamed by Archive or UnarchiveBase
    \* the disk
    index,          \* the index of the active and of the archived base, or None
    files,          \* their shard files, by number
    \* bounds
    next, crashes,
    \* history
    racing, raced,  \* agents that spoke or were compacted in the wrong moment of
                    \* this save, of a save since the last rewrite
    reused,         \* sub-agents whose id had records before they were spawned
    first,          \* the shard this process' transcript begins in
    reported,       \* messages the shards held when the index was last written
    damage          \* what may have disturbed the files: "rewrite" and "unarchive",
                    \* when one stopped half-way, "late", when a save began after
                    \* its session was removed

memory == <<open, closing, present, tr, epoch, call>>
store == <<based, st, shards>>
operation == <<pc, holder, full, agents, todo, lines, sms, moved>>
disk == <<index, files>>
history == <<racing, raced, reused, first, reported, damage>>
vars == <<up, memory, store, operation, disk, next, crashes, history>>

Base == {"active", "archived"}
PC == {"free", "encode", "write", "orphans", "index", "length", "epoch",
       "archive", "unarchive"}

Nothing == [a \in Agents |-> <<>>]
Zero == [a \in Agents |-> 0]
Unknown == [a \in Agents |-> None]

Init ==
    /\ up = TRUE /\ open = TRUE /\ closing = FALSE
    /\ present = <<Root>> /\ tr = Nothing /\ epoch = Zero
    /\ call = {}
    /\ based = FALSE /\ st = None /\ shards = <<>>
    /\ pc = "free" /\ holder = None /\ full = FALSE
    /\ agents = <<>> /\ todo = <<>> /\ lines = <<>> /\ sms = <<>> /\ moved = 0
    /\ index = [b \in Base |-> None]
    /\ files = [b \in Base |-> <<>>]
    /\ next = 1 /\ crashes = 0
    /\ racing = {} /\ raced = {} /\ reused = {} /\ first = 1 /\ reported = {}
    /\ damage = {}

-----------------------------------------------------------------------------
(* Records and files.                                                        *)

SetOf(seq) == {seq[i] : i \in DOMAIN seq}

\* what agent a said, of a sequence of records
Of(a, records) ==
    LET said[n \in 0 .. Len(records)] ==
            IF n = 0 THEN <<>>
            ELSE IF records[n].agent = a THEN Append(said[n - 1], records[n].msg)
            ELSE said[n - 1]
    IN said[Len(records)]

With(f, i, content) == [j \in DOMAIN f \cup {i} |-> IF j = i THEN content ELSE f[j]]
Without(f, gone) == [j \in DOMAIN f \ gone |-> f[j]]

\* the records of shards i to n of a base
Content(f, i, n) ==
    LET from[j \in 0 .. n] ==
            IF j < i THEN <<>>
            ELSE from[j - 1] \o (IF j \in DOMAIN f THEN f[j] ELSE <<>>)
    IN from[n]

\* loadTranscripts: the last shard in the index, whatever lies in the file
LastShard(idx, f) ==
    LET n == Len(idx) IN IF n = 0 THEN <<>> ELSE Content(f, n, n)

\* the messages in the first n shards of a base
Held(f, n) == {r.msg : r \in UNION {SetOf(f[j]) : j \in DOMAIN f \cap 1 .. n}}

-----------------------------------------------------------------------------
(* The agents.                                                               *)

Saving == pc \in {"encode", "write", "orphans", "index", "length", "epoch"}

\* Save has read a's messages and has not yet read how many there are
Encoded(a) ==
    /\ Saving /\ a \in SetOf(agents)
    /\ pc = "encode" => a \notin SetOf(todo)
    /\ pc \in {"length", "epoch"} => a \in SetOf(todo)
    /\ pc = "epoch" => a # Head(todo)

\* Save has compared a's epoch and has not yet read it again
EpochTrusted(a) ==
    /\ Saving /\ a \in SetOf(agents)
    /\ full /\ pc = "encode" => a \notin SetOf(todo)
    /\ pc \in {"length", "epoch"} => a \in SetOf(todo)

\* AppendMessages, sendCtx, AppendToolResults
Say(a) ==
    /\ up /\ a \in SetOf(present)
    /\ next <= MaxMessages
    /\ tr' = [tr EXCEPT ![a] = Append(@, next)]
    /\ next' = next + 1
    /\ racing' = IF Encoded(a) THEN racing \cup {a} ELSE racing
    /\ UNCHANGED <<up, open, closing, present, epoch, call, store, operation,
                   disk, crashes, raced, reused, first, reported, damage>>

\* ApplyCompressedTranscript: a summary replaces the transcript
Compact(a) ==
    /\ up /\ a \in SetOf(present) /\ tr[a] # <<>>
    /\ next <= MaxMessages
    /\ tr' = [tr EXCEPT ![a] = <<next>>]
    /\ epoch' = [epoch EXCEPT ![a] = @ + 1]
    /\ next' = next + 1
    /\ racing' = IF EpochTrusted(a) THEN racing \cup {a} ELSE racing
    /\ UNCHANGED <<up, open, closing, present, call, store, operation, disk,
                   crashes, raced, reused, first, reported, damage>>

\* newSubAgent: the id is the parent's and the name the model chose
Spawn(a) ==
    /\ up /\ present # <<>> /\ a \in Subs \ SetOf(present)
    /\ present' = Append(present, a)
    /\ UNCHANGED <<up, open, closing, tr, epoch, call, store, operation, disk,
                   next, crashes, history>>

-----------------------------------------------------------------------------
(* Save.                                                                     *)

\* persistSession, at the end of a turn or with a new title: Save will wait for
\* the lock
Persist(t) ==
    /\ up /\ open /\ t \notin call
    /\ call' = call \cup {t}
    /\ UNCHANGED <<up, open, closing, present, tr, epoch, store, operation, disk,
                   next, crashes, history>>

\* a transcript was replaced since the last save
Compacted == \E a \in SetOf(present) : st.epoch[a] \notin {None, epoch[a]}

\* the operation gives the lock back
Idle ==
    /\ pc' = "free" /\ holder' = None /\ full' = FALSE
    /\ agents' = <<>> /\ todo' = <<>> /\ lines' = <<>> /\ sms' = <<>> /\ moved' = 0
    /\ racing' = {}

SaveBegin(t) ==
    /\ up /\ pc = "free" /\ t \in call
    /\ based' = TRUE
    /\ pc' = "encode" /\ holder' = t
    /\ full' = (st = None \/ Compacted)
    /\ agents' = present /\ todo' = present
    /\ lines' = <<>>
    /\ sms' = IF full' THEN <<>> ELSE shards
    /\ racing' = {}
    /\ damage' = IF open THEN damage ELSE damage \cup {"late"}
    /\ UNCHANGED <<up, memory, st, shards, moved, disk, next, crashes, raced,
                   reused, first, reported>>

\* faulty variant: the frontier of the previous save is not used
FromStart(a) == 0

\* the messages of a already on disk
Offset(a) == IF full THEN 0 ELSE st.persisted[a]

\* encodeMessages, one agent after the other; a save with nothing to say writes the
\* index when the title or the watchers changed, and else does not touch the disk
Encode ==
    /\ pc = "encode"
    /\ LET a == Head(todo)
           new == SubSeq(tr[a], Offset(a) + 1, Len(tr[a]))
       IN lines' = lines \o [i \in DOMAIN new |-> [agent |-> a, msg |-> new[i]]]
    /\ IF Len(todo) > 1
       THEN pc' = "encode" /\ todo' = Tail(todo)
       ELSE /\ todo' = agents
            /\ IF lines' # <<>> THEN pc' = "write"
               ELSE IF full THEN pc' = "orphans"
               ELSE pc' \in {"index", "length"}
    /\ UNCHANGED <<up, memory, store, holder, full, agents, sms, moved, disk, next,
                   crashes, history>>

\* writeLinesToShards: the active shard is at its cap
MustRoll == sms # <<>> => sms[Len(sms)] >= ShardMax

\* faulty variant: the last shard is taken for the next
LastIndex == Len(sms)

NextIndex == Len(sms) + 1

\* an empty file is renamed over the next shard
Roll ==
    /\ pc = "write" /\ MustRoll
    /\ files' = [files EXCEPT !["active"] = With(@, NextIndex, <<>>)]
    /\ sms' = Append(sms, 0)
    /\ UNCHANGED <<up, memory, store, pc, holder, full, agents, todo, lines, moved,
                   index, next, crashes, history>>

WriteLine ==
    /\ pc = "write" /\ ~MustRoll
    /\ Len(sms) \in DOMAIN files["active"]
    /\ files' = [files EXCEPT !["active"] =
                     With(@, Len(sms), Append(@[Len(sms)], Head(lines)))]
    /\ sms' = [sms EXCEPT ![Len(sms)] = @ + 1]
    /\ lines' = Tail(lines)
    /\ pc' = IF Len(lines) > 1 THEN "write" ELSE IF full THEN "orphans" ELSE "index"
    /\ UNCHANGED <<up, memory, store, holder, full, agents, todo, moved, index, next,
                   crashes, history>>

\* writeFullTranscript: shards of a larger layout
Orphans == Len(sms) + 1 .. Len(shards)

RemoveOrphans ==
    /\ pc = "orphans"
    /\ files' = [files EXCEPT !["active"] = Without(@, Orphans)]
    /\ pc' = "index"
    /\ UNCHANGED <<up, memory, store, holder, full, agents, todo, lines, sms, moved,
                   index, next, crashes, history>>

\* writeIndexFile renames the new index over the old one
WriteIndex ==
    /\ pc = "index"
    /\ index' = [index EXCEPT !["active"] = sms]
    /\ shards' = sms
    /\ st' = IF st = None THEN [persisted |-> Zero, epoch |-> Unknown] ELSE st
    /\ pc' = "length"
    /\ damage' = IF full THEN damage \ {"rewrite"} ELSE damage
    /\ first' = IF full THEN 1 ELSE first
    /\ reported' = Held(files["active"], Len(sms))
    /\ reused' = IF st = None THEN {} ELSE reused
    /\ UNCHANGED <<up, memory, based, holder, full, agents, todo, lines, sms, moved,
                   files, next, crashes, racing, raced>>

\* recordFrontier: TranscriptLen, then TranscriptEpoch
RecordLength ==
    /\ pc = "length"
    /\ st' = [st EXCEPT !.persisted = [@ EXCEPT ![Head(todo)] = Len(tr[Head(todo)])]]
    /\ pc' = "epoch"
    /\ UNCHANGED <<up, memory, based, shards, holder, full, agents, todo, lines, sms,
                   moved, disk, next, crashes, history>>

Listed(b) == LET idx == index[b]
             IN IF idx = None THEN <<>> ELSE Content(files[b], 1, Len(idx))

Return == call' = call \ {holder}

RecordEpoch ==
    /\ pc = "epoch"
    /\ st' = [st EXCEPT !.epoch = [@ EXCEPT ![Head(todo)] = epoch[Head(todo)]]]
    /\ IF Len(todo) > 1
       THEN /\ pc' = "length" /\ todo' = Tail(todo)
            /\ UNCHANGED <<call, holder, full, agents, lines, sms, moved, racing, raced,
                           reused>>
       ELSE /\ Idle /\ Return
            /\ raced' = IF full THEN racing ELSE raced \cup racing
            /\ reused' = IF full THEN reused \ SetOf(agents) ELSE reused
    /\ UNCHANGED <<up, open, closing, present, tr, epoch, based, shards, disk,
                   next, crashes, first, reported, damage>>

\* faulty variant: the error return leaves s.mu locked
StaysLocked == pc' = "locked" /\ UNCHANGED <<holder, full, agents, todo, lines, sms,
                                              moved, racing, call>>

GivesUp == Idle /\ Return

\* an error of a file operation: a delta gives up its frontier, a rewrite what
\* it has rewritten
SaveFails ==
    /\ pc \in {"write", "index"}
    /\ GivesUp
    /\ IF full THEN UNCHANGED <<st, shards>> ELSE st' = None /\ shards' = <<>>
    /\ damage' = IF full /\ sms # <<>> THEN damage \cup {"rewrite"} ELSE damage
    /\ UNCHANGED <<up, open, closing, present, tr, epoch, based, disk, next,
                   crashes, raced, reused, first, reported>>

-----------------------------------------------------------------------------
(* Closing and reopening a session.                                          *)

\* RemoveSession, up to Archive
Remove ==
    /\ up /\ open
    /\ open' = FALSE /\ closing' = TRUE
    /\ UNCHANGED <<up, present, tr, epoch, call, store, operation, disk, next,
                   crashes, history>>

\* faulty variant: the files of the active base are copied
Copied(f) == f

\* os.Rename takes the active index away
Renamed(f) == [f EXCEPT !["active"] = None]

ArchiveBegin ==
    /\ up /\ closing /\ pc = "free"
    /\ IF ~based \/ index["active"] = None
       THEN /\ closing' = FALSE
            /\ UNCHANGED <<index, pc, moved>>
       ELSE /\ index' = [Renamed(index) EXCEPT !["archived"] = index["active"]]
            /\ pc' = "archive" /\ moved' = 0
            /\ UNCHANGED closing
    /\ UNCHANGED <<up, open, present, tr, epoch, call, store, holder, full,
                   agents, todo, lines, sms, files, next, crashes, history>>

\* faulty variant: the old name is removed and the new one never made
Dropped(i, from, to) == files' = [files EXCEPT ![from] = Without(@, {i})]

\* shard i goes from one base to the other; a missing one is skipped
Move(i, from, to) ==
    files' = IF i \notin DOMAIN files[from] THEN files
             ELSE [b \in Base |-> IF b = from THEN Without(files[b], {i})
                                  ELSE With(files[b], i, files[from][i])]

ArchiveShard ==
    /\ pc = "archive" /\ moved < Len(shards)
    /\ Move(moved + 1, "active", "archived")
    /\ moved' = moved + 1
    /\ UNCHANGED <<up, memory, store, pc, holder, full, agents, todo, lines, sms,
                   index, next, crashes, history>>

ArchiveEnd ==
    /\ pc = "archive" /\ moved = Len(shards)
    /\ based' = FALSE /\ st' = None /\ shards' = <<>>
    /\ closing' = FALSE
    /\ Idle
    /\ UNCHANGED <<up, open, present, tr, epoch, call, disk, next, crashes,
                   raced, reused, first, reported, damage>>

\* faulty variant: the lines already in the active shard are not counted
NotCounted(shard) == Zero

\* Adopt: the records of the last shard are on disk
Counted(shard) == [a \in Agents |-> Len(Of(a, shard))]

\* adoptLoaded: the root agent gets the last shard's messages, its transcript
\* replaced; the sub-agents are not restored
AdoptLoaded(idx) ==
    LET shard == LastShard(idx, files["active"])
        seen == Of(Root, shard) # <<>>
    IN /\ open' = TRUE
       /\ present' = <<Root>>
       /\ tr' = [Nothing EXCEPT ![Root] = Of(Root, shard)]
       /\ epoch' = [Zero EXCEPT ![Root] = IF seen THEN 1 ELSE 0]
       /\ based' = TRUE
       /\ shards' = idx
       /\ st' = [persisted |-> Counted(shard),
                 epoch |-> [Unknown EXCEPT ![Root] = IF seen THEN 1 ELSE None]]
       /\ first' = IF idx = <<>> THEN 1 ELSE Len(idx)
       /\ raced' = {}
       /\ reused' = {a \in Subs : Of(a, shard) # <<>>}

\* ContinueSession: UnarchiveBase renames the index, then the shards it lists; an
\* active index is loaded as it is.  (A save of the closed session that is still
\* waiting would hold the agents it had before; that is left out.)
Continue ==
    /\ up /\ ~open /\ ~closing /\ pc = "free" /\ call = {}
    /\ index["archived"] # None
    /\ IF index["active"] # None
       THEN /\ AdoptLoaded(index["active"])
            /\ UNCHANGED <<index, pc, moved, sms>>
       ELSE /\ index' = [b \in Base |-> IF b = "active" THEN index["archived"] ELSE None]
            /\ sms' = index["archived"]
            /\ pc' = "unarchive" /\ moved' = 0
            /\ UNCHANGED <<open, present, tr, epoch, store, raced, reused,
                           first>>
    /\ UNCHANGED <<up, closing, call, holder, full, agents, todo, lines, files, next,
                   crashes, racing, reported, damage>>

UnarchiveShard ==
    /\ pc = "unarchive" /\ moved < Len(sms)
    /\ Move(moved + 1, "archived", "active")
    /\ moved' = moved + 1
    /\ UNCHANGED <<up, memory, store, pc, holder, full, agents, todo, lines, sms,
                   index, next, crashes, history>>

\* LoadSession and adoptLoaded follow
UnarchiveEnd ==
    /\ pc = "unarchive" /\ moved = Len(sms)
    /\ Idle
    /\ AdoptLoaded(index["active"])
    /\ UNCHANGED <<up, closing, call, disk, next, crashes, reported, damage>>

-----------------------------------------------------------------------------
(* The process.                                                              *)

\* the process ends, at any moment
Crash ==
    /\ up /\ crashes < MaxCrashes
    /\ up' = FALSE
    /\ crashes' = crashes + 1
    /\ open' = FALSE /\ closing' = FALSE
    /\ present' = <<>> /\ tr' = Nothing /\ epoch' = Zero
    /\ call' = {}
    /\ based' = FALSE /\ st' = None /\ shards' = <<>>
    /\ Idle
    /\ damage' = damage \cup
           {d \in {"rewrite", "unarchive"} :
               IF d = "unarchive" THEN pc = "unarchive"
               ELSE full /\ sms # <<>> /\ pc \in {"write", "orphans", "index"}}
    /\ raced' = {} /\ reused' = {}
    /\ UNCHANGED <<disk, next, first, reported>>

\* RestoreSessions: every session with an active index
Restart ==
    /\ ~up
    /\ up' = TRUE
    /\ IF index["active"] # None
       THEN AdoptLoaded(index["active"])
       ELSE UNCHANGED <<open, present, tr, epoch, store, raced, reused, first>>
    /\ UNCHANGED <<closing, call, operation, disk, next, crashes, racing, reported,
                   damage>>

-----------------------------------------------------------------------------
SaveStep ==
    \/ Encode \/ Roll \/ WriteLine \/ RemoveOrphans \/ WriteIndex
    \/ RecordLength \/ RecordEpoch \/ SaveFails

ArchiveStep == ArchiveShard \/ ArchiveEnd \/ UnarchiveShard \/ UnarchiveEnd

Next ==
    \/ \E a \in Agents : Say(a) \/ Compact(a) \/ Spawn(a)
    \/ \E t \in Threads : Persist(t) \/ SaveBegin(t)
    \/ SaveStep
    \/ Remove \/ ArchiveBegin \/ Continue \/ ArchiveStep
    \/ Crash \/ Restart

Spec == Init /\ [][Next]_vars

(* File operations return; sync.Mutex serves every waiter (a waiter that     *)
(* starves for a millisecond is handed the lock).                            *)
FairSpec ==
    /\ Spec
    /\ WF_vars(SaveStep \/ ArchiveStep)
    /\ \A t \in Threads : SF_vars(SaveBegin(t))

-----------------------------------------------------------------------------
(* Properties.                                                               *)

ProcessOK ==
    /\ up \in BOOLEAN /\ open \in BOOLEAN /\ closing \in BOOLEAN
    /\ present \in Seq(Agents)
    /\ tr \in [Agents -> Seq(Nat)] /\ epoch \in [Agents -> Nat]
    /\ call \subseteq Threads
    /\ next \in Nat /\ crashes \in Nat

StoreOK ==
    /\ based \in BOOLEAN
    /\ st \in {None} \cup Frontiers
    /\ shards \in Seq(Nat)

OperationOK ==
    /\ pc \in PC /\ holder \in Threads \cup {None} /\ full \in BOOLEAN
    /\ agents \in Seq(Agents) /\ todo \in Seq(Agents)
    /\ lines \in Seq(Record) /\ sms \in Seq(Nat) /\ moved \in Nat

DiskOK ==
    /\ index \in [Base -> {None} \cup Seq(Nat)]
    /\ DOMAIN files = Base
    /\ \A b \in Base : \A i \in DOMAIN files[b] :
           i \in Nat \ {0} /\ files[b][i] \in Seq(Record)

HistoryOK ==
    /\ racing \cup raced \subseteq Agents /\ reused \subseteq Subs
    /\ first \in Nat \ {0} /\ reported \subseteq Nat
    /\ damage \subseteq {"rewrite", "unarchive", "late"}

TypeOK == ProcessOK /\ StoreOK /\ OperationOK /\ DiskOK /\ HistoryOK

\* what the store counts as persisted of a is what the shards hold of it
Exact(a) ==
    Of(a, Content(files["active"], first, Len(shards)))
        = SubSeq(tr[a], 1, st.persisted[a])

\* Save, recordFrontier: whenever no operation runs and the next save will append,
\* the frontier of an agent is exactly what the shards hold of it, through failed
\* saves, compactions and restarts, unless the agent's transcript changed while a
\* save looked at it, or its id was in use before a restart.
FrontierExact ==
    up /\ pc = "free" /\ st # None /\ ~Compacted =>
        \A a \in SetOf(present) \ (raced \cup reused) : Exact(a)

\* how many shards are listed, and what they hold; a shard of either name, as
\* UnarchiveBase finds them
Extent(idx) ==
    LET i == IF idx["active"] # None THEN idx["active"] ELSE idx["archived"]
    IN IF i = None THEN 0 ELSE Len(i)

Reachable == Held(files["active"], Extent(index)) \cup Held(files["archived"], Extent(index))

\* no step that the code leaves half-done can have disturbed the files
Undisturbed == damage = {} /\ ~(Saving /\ full)

\* Save: what a successful save left on disk stays there through later saves, their
\* failures, closing, reopening and crashes, until a rewrite replaces it.
SavedSurvives == Undisturbed => reported \subseteq Reachable

\* The shards an index lists hold every agent's messages once and in order, so
\* that a restored conversation reads as it was held.
ListedInOrder ==
    Undisturbed =>
        \A a \in Agents : LET said == Of(a, Listed("active"))
                          IN \A i, j \in DOMAIN said : i < j => said[i] < said[j]

\* Archive: a closed session is not restored by the next start, unless a save had
\* found it before it was removed.
ClosedStaysClosed ==
    up /\ ~open /\ ~closing /\ pc = "free" /\ "late" \notin damage => index["active"] = None

\* Every save returns, however many others and closings there are.
SavesReturn == \A t \in Threads : t \in call ~> t \notin call

-----------------------------------------------------------------------------
(* What a comment says and the code does not do.                             *)

\* writeFullTranscript creates the shards "via a temp file + rename so a crash can't
\* leave a half-written shard behind": after a crash a shard the index lists is not
\* empty.
NoHalfWrittenShard ==
    ~up /\ index["active"] # None =>
        \A i \in DOMAIN files["active"] \cap DOMAIN index["active"] :
            files["active"][i] # <<>>
=============================================================================
