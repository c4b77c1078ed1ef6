---------------------------- MODULE Synthesizer ----------------------------
(***************************************************************************)
(* The Synthesizer actor: it collects FileChanged notifications, waits for *)
(* a cool-down and then folds what changed into summaries, tier by tier:   *)
(* raw files into the summary of their agent, agents into the summary of   *)
(* their user, users into the global one.                                  *)
(*                                                                         *)
(* level[0] is the raw files, level[k][f] the content of file f that the   *)
(* stored summaries of tier k reflect.  The language model is taken to     *)
(* fold its sources into the prior summary faithfully.  process() runs     *)
(* inside the handler of the tick, so notifications queue in the mailbox   *)
(* meanwhile, while the raw files go on changing.  Which summary of a      *)
(* group is the latest is found by listing its folder, and a listing that  *)
(* fails is taken for an empty or a shorter one, without an error: fault   *)
(* "list".  The history variables lost and misread record what a failure   *)
(* dropped; no guard reads them.                                           *)
(***************************************************************************)
EXTENDS Integers, Sequences

CONSTANTS Files,        \* raw memory files
          Agents, Users,
          AgentOf,      \* file -> the agent it belongs to
          UserOf,       \* agent -> the user it belongs to
          Global,       \* the only group of the third tier
          Contents,     \* what a raw file can hold
          NoMemory,     \* no file, or nothing of it in a summary
          NoGroup,      \* no group is being synthesized
          Cooldown,     \* synthesizer_cooldown_secs, in units of the clock
          Capacity,     \* bound: messages in the mailbox
          MaxChanges,   \* bound: changes of raw files
          Faults        \* the faults the environment may inject

FaultKinds == {"list", "read", "llm", "empty", "store", "index", "crash"}
Groups == Agents \cup Users \cup {Global}

ASSUME MapsAssumption == /\ AgentOf \in [Files -> Agents]
                         /\ UserOf \in [Agents -> Users]
ASSUME AbsentAssumption == NoMemory \notin Contents /\ NoGroup \notin Groups
ASSUME NumbersAssumption == /\ Cooldown \in Nat
                            /\ Capacity \in Nat \ {0}
                            /\ MaxChanges \in Nat
ASSUME FaultsAssumption == Faults \subseteq FaultKinds

Tick == [type |-> "CooldownTick"]
Changed(f) == [type |-> "FileChanged", path |-> f]
Messages == {Tick} \cup {Changed(f) : f \in Files}

NoTimer == -1
Tiers == 1..3
Maybe == Contents \cup {NoMemory}

Group(k, f) == IF k = 1 THEN AgentOf[f] ELSE IF k = 2 THEN UserOf[AgentOf[f]] ELSE Global
FilesOf(k, g) == {f \in Files : Group(k, f) = g}

VARIABLES level,       \* 0..3 -> file -> content
          stored,      \* tier -> groups that have a summary file
          announcing,  \* files changed by a FileOp that has yet to send FileChanged
          mailbox,     \* the messages waiting for the Synthesizer
          changed,     \* changed_files
          armed,       \* timer_armed
          timer,       \* what is left of the cool-down, or NoTimer
          tier,        \* the pass process() is in, 0 when it is not running
          feed,        \* tier -> files its groups have yet to fold
          group,       \* the group being synthesized
          step,        \* how far that is: "read", "ask", "save" or "index"
          draft,       \* file -> content, for the sources read
          prior,       \* file -> content, as the prior summary has the others
          misread,     \* history: files for which a listing of this group failed
          lost,        \* history: tier -> files a failure kept out of it
          budget       \* changes of raw files still to come

fileVars == <<level, stored>>
actorVars == <<changed, armed, timer>>
work == <<draft, prior, misread>>
passVars == <<tier, feed, group, step, work>>
vars == <<fileVars, announcing, mailbox, actorVars, passVars, lost, budget>>

EmptyDraft == [f \in {} |-> NoMemory]

Init ==
    /\ level = [k \in 0..3 |-> [f \in Files |-> NoMemory]]
    /\ stored = [k \in Tiers |-> {}]
    /\ announcing = {}
    /\ mailbox = <<>>
    /\ changed = {}
    /\ armed = FALSE
    /\ timer = NoTimer
    /\ tier = 0
    /\ feed = [k \in Tiers |-> {}]
    /\ group = NoGroup
    /\ step = "read"
    /\ draft = EmptyDraft
    /\ prior = EmptyDraft
    /\ misread = {}
    /\ lost = [k \in Tiers |-> {}]
    /\ budget = MaxChanges
-----------------------------------------------------------------------------
(* The file operations, as far as the Synthesizer sees them.                *)

\* A FileOp has stored or removed f; its notification comes later.
Change(f, c) ==
    /\ budget > 0
    /\ c # level[0][f]
    /\ budget' = budget - 1
    /\ level' = [level EXCEPT ![0][f] = c]
    /\ announcing' = announcing \cup {f}
    /\ UNCHANGED <<stored, mailbox, actorVars, passVars, lost>>

\* do_send waits for room in the mailbox.
Announce(f) ==
    /\ f \in announcing
    /\ Len(mailbox) < Capacity
    /\ announcing' = announcing \ {f}
    /\ mailbox' = Append(mailbox, Changed(f))
    /\ UNCHANGED <<fileVars, actorVars, passVars, lost, budget>>
-----------------------------------------------------------------------------
(* Batching.                                                                *)

\* Seeded fault: only a change that joins others starts the timer.
TakeChangeUntimed ==
    /\ tier = 0
    /\ mailbox # <<>>
    /\ Head(mailbox) # Tick
    /\ mailbox' = Tail(mailbox)
    /\ changed' = changed \cup {Head(mailbox).path}
    /\ armed' = (armed \/ changed # {})
    /\ timer' = IF ~armed /\ changed # {} THEN Cooldown ELSE timer
    /\ UNCHANGED <<fileVars, announcing, passVars, lost, budget>>

TakeChange ==
    /\ tier = 0
    /\ mailbox # <<>>
    /\ Head(mailbox) # Tick
    /\ mailbox' = Tail(mailbox)
    /\ changed' = changed \cup {Head(mailbox).path}
    /\ armed' = TRUE
    /\ timer' = IF armed THEN timer ELSE Cooldown
    /\ UNCHANGED <<fileVars, announcing, passVars, lost, budget>>

\* The clock, while the spawned task sleeps.
Elapse ==
    /\ timer > 0
    /\ timer' = timer - 1
    /\ UNCHANGED <<fileVars, announcing, mailbox, changed, armed, passVars, lost, budget>>

\* The sleep is over: the task sends the tick and ends.
Fire ==
    /\ timer = 0
    /\ Len(mailbox) < Capacity
    /\ timer' = NoTimer
    /\ mailbox' = Append(mailbox, Tick)
    /\ UNCHANGED <<fileVars, announcing, changed, armed, passVars, lost, budget>>

\* Seeded fault: the flag stays set.
TakeTickStaysArmed ==
    /\ tier = 0
    /\ mailbox # <<>>
    /\ Head(mailbox) = Tick
    /\ mailbox' = Tail(mailbox)
    /\ changed' = {}
    /\ tier' = IF changed = {} THEN 0 ELSE 1
    /\ feed' = [feed EXCEPT ![1] = changed]
    /\ UNCHANGED <<fileVars, announcing, armed, timer, group, step, work, lost, budget>>

\* process() takes the pending set as its batch; an empty one ends it at once.
TakeTick ==
    /\ tier = 0
    /\ mailbox # <<>>
    /\ Head(mailbox) = Tick
    /\ mailbox' = Tail(mailbox)
    /\ armed' = FALSE
    /\ changed' = {}
    /\ tier' = IF changed = {} THEN 0 ELSE 1
    /\ feed' = [feed EXCEPT ![1] = changed]
    /\ UNCHANGED <<fileVars, announcing, timer, group, step, work, lost, budget>>
-----------------------------------------------------------------------------
(* One group of one tier: synthesize_agent, synthesize_user and             *)
(* synthesize_global differ in where their sources come from.               *)

Due == {f \in feed[tier] : Group(tier, f) = group}

\* What an earlier summary of tier k, or none, may have of f.
Earlier(k, f) ==
    {c \in Maybe : c = NoMemory \/ \A j \in {k - 1, k} \cap Tiers : Group(j, f) \in stored[j]}

NoWork ==
    /\ draft' = EmptyDraft
    /\ prior' = EmptyDraft
    /\ misread' = {}

Begin(g) ==
    /\ tier \in Tiers
    /\ group = NoGroup
    /\ g \in {Group(tier, f) : f \in feed[tier]}
    /\ group' = g
    /\ step' = "read"
    /\ NoWork
    /\ UNCHANGED <<fileVars, announcing, mailbox, actorVars, tier, feed, lost, budget>>

\* The group is over; up are the files the next tier has to fold because of it.
EndGroup(up) ==
    /\ feed' = [k \in Tiers |-> IF k = tier THEN feed[k] \ Due
                                ELSE IF k = tier + 1 THEN feed[k] \cup up
                                ELSE feed[k]]
    /\ group' = NoGroup
    /\ step' = "read"
    /\ NoWork
    /\ UNCHANGED <<announcing, mailbox, actorVars, tier, budget>>

\* An error ends the group with a warning; its changes are not kept.
Drop ==
    /\ lost' = [lost EXCEPT ![tier] = @ \cup Due]
    /\ EndGroup({})
    /\ UNCHANGED fileVars

\* Tier 1 reads each changed file with a message of its own to Storage; a file
\* that is gone is a source too (the _deleted_sources marker).
ReadFile(f) ==
    /\ tier = 1
    /\ group # NoGroup
    /\ step = "read"
    /\ f \in Due \ DOMAIN draft
    /\ draft' = [g \in DOMAIN draft \cup {f} |-> IF g = f THEN level[0][f] ELSE draft[g]]
    /\ step' = IF Due \subseteq DOMAIN draft \cup {f} THEN "ask" ELSE "read"
    /\ UNCHANGED <<fileVars, announcing, mailbox, actorVars, tier, feed, group>>
    /\ UNCHANGED <<prior, misread, lost, budget>>

\* The tiers above read the latest summaries of the groups below that changed.
\* Only the Synthesizer writes those, so nothing can change between the reads.
ReadSummaries ==
    /\ tier \in {2, 3}
    /\ group # NoGroup
    /\ step = "read"
    /\ LET sources == {f \in Due : Group(tier - 1, f) \in stored[tier - 1]}
       IN  IF sources = {}
           THEN EndGroup({})
           ELSE /\ draft' = [f \in sources |-> level[tier - 1][f]]
                /\ step' = "ask"
                /\ UNCHANGED <<announcing, mailbox, actorVars, tier, feed, group>>
                /\ UNCHANGED <<prior, misread, budget>>
    /\ UNCHANGED <<fileVars, lost>>

\* The listing fails for some of the groups below, hidden: each is passed over
\* as if it had no summary, or an earlier one of its summaries is read.
ReadSummariesBlindly ==
    /\ "list" \in Faults
    /\ tier \in {2, 3}
    /\ group # NoGroup
    /\ step = "read"
    /\ \E hidden \in SUBSET ({Group(tier - 1, f) : f \in Due} \cap stored[tier - 1]) :
       \E skipped \in SUBSET hidden :
       LET unsure  == {f \in Due : Group(tier - 1, f) \in hidden}
           sources == {f \in Due : Group(tier - 1, f) \in stored[tier - 1] \ skipped}
       IN  IF sources = {}
           THEN /\ EndGroup({})
                /\ lost' = [lost EXCEPT ![tier] = @ \cup unsure]
           ELSE /\ draft' \in [sources -> Maybe]
                /\ \A f \in sources :
                      draft'[f] \in IF f \in unsure THEN Earlier(tier - 1, f)
                                   ELSE {level[tier - 1][f]}
                /\ misread' = unsure
                /\ step' = "ask"
                /\ UNCHANGED <<announcing, mailbox, actorVars, tier, feed, group>>
                /\ UNCHANGED <<prior, lost, budget>>
    /\ UNCHANGED fileVars

ReadFails ==
    /\ "read" \in Faults
    /\ group # NoGroup
    /\ step \in {"read", "ask"}
    /\ Drop

Others == FilesOf(tier, group) \ DOMAIN draft

\* The latest summary of the group itself goes along as the prior one; when its
\* listing fails, an earlier one does or none.
Ask ==
    /\ group # NoGroup
    /\ step = "ask"
    /\ step' = "save"
    /\ \/ /\ prior' = [f \in Others |-> level[tier][f]]
          /\ UNCHANGED misread
       \/ /\ "list" \in Faults
          /\ group \in stored[tier]
          /\ prior' \in [Others -> Maybe]
          /\ \A f \in Others : prior'[f] \in Earlier(tier, f)
          /\ misread' = misread \cup Others
    /\ UNCHANGED <<fileVars, announcing, mailbox, actorVars, tier, feed, group, draft, lost, budget>>

AskFails ==
    /\ "llm" \in Faults
    /\ group # NoGroup
    /\ step = "ask"
    /\ Drop

\* An empty reply is not written, and the group still counts as changed.
EmptyReply ==
    /\ "empty" \in Faults
    /\ group # NoGroup
    /\ step = "save"
    /\ lost' = [lost EXCEPT ![tier] = @ \cup Due]
    /\ EndGroup(FilesOf(tier, group))
    /\ UNCHANGED fileVars

\* The summary goes to Storage first, and to the index after that.
Save ==
    /\ group # NoGroup
    /\ step = "save"
    /\ level' = [level EXCEPT ![tier] = [f \in Files |-> IF f \in DOMAIN draft THEN draft[f]
                                                         ELSE IF f \in DOMAIN prior THEN prior[f]
                                                         ELSE level[tier][f]]]
    /\ stored' = [stored EXCEPT ![tier] = @ \cup {group}]
    /\ feed' = [feed EXCEPT ![tier] = @ \ Due]
    /\ step' = "index"
    /\ lost' = [lost EXCEPT ![tier] = (@ \ DOMAIN draft) \cup misread]
    /\ NoWork
    /\ UNCHANGED <<announcing, mailbox, actorVars, tier, group, budget>>

\* The listing that names the file to write fails: the name it gives lies before
\* the latest one, which goes on to be read.
SaveBehind ==
    /\ "list" \in Faults
    /\ group # NoGroup
    /\ step = "save"
    /\ group \in stored[tier]
    /\ feed' = [feed EXCEPT ![tier] = @ \ Due]
    /\ step' = "index"
    /\ lost' = [lost EXCEPT ![tier] = @ \cup Due]
    /\ NoWork
    /\ UNCHANGED <<fileVars, announcing, mailbox, actorVars, tier, group, budget>>

SaveFails ==
    /\ "store" \in Faults
    /\ group # NoGroup
    /\ step = "save"
    /\ Drop

\* Seeded fault: a group that succeeded is not passed on to the next tier.
IndexFeedsNothing ==
    /\ group # NoGroup
    /\ step = "index"
    /\ EndGroup({})
    /\ UNCHANGED <<fileVars, lost>>

Index ==
    /\ group # NoGroup
    /\ step = "index"
    /\ EndGroup(FilesOf(tier, group))
    /\ UNCHANGED <<fileVars, lost>>

\* Embedding or IndexInsert fails: the summary is stored, yet the group counts as
\* failed and the tier above never hears of it.
IndexFails ==
    /\ "index" \in Faults
    /\ group # NoGroup
    /\ step = "index"
    /\ lost' = [k \in Tiers |-> IF k = tier + 1 THEN lost[k] \cup FilesOf(tier, group)
                                ELSE lost[k]]
    /\ EndGroup({})
    /\ UNCHANGED fileVars

\* Seeded fault: the passes run past the last one.
NextTierOverruns ==
    /\ tier \in Tiers
    /\ group = NoGroup
    /\ feed[tier] = {}
    /\ tier' = tier + 1
    /\ UNCHANGED <<fileVars, announcing, mailbox, actorVars, feed, group, step, work, lost, budget>>

\* All groups of a pass are done.
NextTier ==
    /\ tier \in Tiers
    /\ group = NoGroup
    /\ feed[tier] = {}
    /\ tier' = IF tier = 3 THEN 0 ELSE tier + 1
    /\ UNCHANGED <<fileVars, announcing, mailbox, actorVars, feed, group, step, work, lost, budget>>
-----------------------------------------------------------------------------
Waiting == {f \in Files : \E i \in 1..Len(mailbox) : mailbox[i] = Changed(f)}

\* The files tier k still has to fold, wherever their names are.
Pending(k) ==
    feed[k] \cup (IF k = 1 THEN announcing \cup Waiting \cup changed
                  ELSE IF group # NoGroup /\ tier = k - 1 /\ step = "index"
                       THEN FilesOf(tier, group) ELSE {})

\* The process ends and is started again: the pending set is in memory only.
Restart ==
    /\ "crash" \in Faults
    /\ lost' = [k \in Tiers |-> lost[k] \cup Pending(k)]
    /\ announcing' = {}
    /\ mailbox' = <<>>
    /\ changed' = {}
    /\ armed' = FALSE
    /\ timer' = NoTimer
    /\ tier' = 0
    /\ feed' = [k \in Tiers |-> {}]
    /\ group' = NoGroup
    /\ step' = "read"
    /\ NoWork
    /\ UNCHANGED <<fileVars, budget>>

Process ==
    \/ \E g \in Groups : Begin(g)
    \/ \E f \in Files : ReadFile(f)
    \/ ReadSummaries \/ ReadSummariesBlindly \/ ReadFails
    \/ Ask \/ AskFails \/ EmptyReply
    \/ Save \/ SaveBehind \/ SaveFails \/ Index \/ IndexFails \/ NextTier

Handle == TakeChange \/ TakeTick \/ Process

Next ==
    \/ \E f \in Files : (\E c \in Maybe : Change(f, c)) \/ Announce(f)
    \/ Handle \/ Elapse \/ Fire \/ Restart

\* Tokio keeps running the actor, the sleeping task and the senders that wait
\* for room; nothing obliges the callers to change a file.
Fairness ==
    /\ WF_vars(Handle)
    /\ WF_vars(Elapse)
    /\ WF_vars(Fire)
    /\ \A f \in Files : SF_vars(Announce(f))

Spec == Init /\ [][Next]_vars /\ Fairness
-----------------------------------------------------------------------------
(* Properties.                                                              *)

\* Every variable has its type; between groups nothing of the last one is left.
TypeOK ==
    /\ level \in [0..3 -> [Files -> Maybe]]
    /\ stored \in [Tiers -> SUBSET Groups]
    /\ announcing \subseteq Files
    /\ mailbox \in Seq(Messages) /\ Len(mailbox) <= Capacity
    /\ changed \subseteq Files
    /\ armed \in BOOLEAN
    /\ timer \in -1..Cooldown
    /\ tier \in 0..3
    /\ feed \in [Tiers -> SUBSET Files]
    /\ group \in Groups \cup {NoGroup}
    /\ step \in {"read", "ask", "save", "index"}
    /\ DOMAIN draft \subseteq Files /\ \A f \in DOMAIN draft : draft[f] \in Maybe
    /\ DOMAIN prior \subseteq Files /\ \A f \in DOMAIN prior : prior[f] \in Maybe
    /\ misread \subseteq Files
    /\ lost \in [Tiers -> SUBSET Files]
    /\ budget \in 0..MaxChanges
    /\ group = NoGroup => step = "read" /\ draft = EmptyDraft /\ prior = EmptyDraft
    /\ tier = 0 => group = NoGroup /\ \A k \in Tiers : feed[k] = {}

TicksQueued == {i \in 1..Len(mailbox) : mailbox[i] = Tick}

\* The flag timer_armed tells the truth: it is set exactly while one timer sleeps
\* or one tick is queued, never two, and a pending change always has one coming;
\* that holds while process() runs with the flag already cleared.
PendingIsTimed ==
    /\ changed # {} => armed
    /\ armed <=> (timer # NoTimer \/ TicksQueued # {})
    /\ timer # NoTimer => TicksQueued = {}
    /\ \A i, j \in TicksQueued : i = j

\* Nothing is missed: each tier reflects the tier below, file by file, unless the
\* file is on its way to that tier or a failure dropped it, one that nobody was
\* told of included (a listing that failed); files that change while they are
\* read, asked about or written are on their way again.
TiersAgree ==
    \A k \in Tiers : \A f \in Files :
        level[k][f] = level[k - 1][f] \/ f \in Pending(k) \cup lost[k]

\* Once the files stop changing, the notifications, the batches and the passes
\* run out, and every tier reflects the files except for what failures dropped,
\* failed listings included: nothing takes those up again by itself.
Settles ==
    <>[](\A k \in Tiers : \A f \in Files : level[k][f] = level[k - 1][f] \/ f \in lost[k])
=============================================================================
