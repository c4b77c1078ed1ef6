----------------------------- MODULE LlmService -----------------------------
(***************************************************************************)
(* The LlmService actor and the SynthesisTask actors it keeps, one for     *)
(* each target.  The service routes a Synthesize message to the task of    *)
(* its target and starts one when it knows of none.  A task holds the      *)
(* conversation with the model and ends itself when it has been idle; a    *)
(* watcher then tells the service, which forgets it.                       *)
(*                                                                         *)
(* The one caller is the Synthesizer, which waits for each answer: it      *)
(* sends the stored summary and the changed documents, and stores the      *)
(* reply.  A text is what it covers: the revision of every document it     *)
(* reflects, 0 for none; its revision is the number of the call that told  *)
(* it.  The model's reply covers what the conversation mentions, the later *)
(* mention winning.                                                        *)
(*                                                                         *)
(* The Synthesizer finds the stored summary, and the file to store a reply *)
(* in, by listing a folder, and a listing that fails is no error to it: it *)
(* goes on as if the folder were empty or an older file the newest.        *)
(***************************************************************************)
EXTENDS Integers, Sequences

CONSTANTS Targets,     \* SynthesisTarget
          Slots,       \* incarnations of tasks
          Docs,        \* source documents
          NoSlot, NoTarget,
          MaxRetries,  \* max_retries
          MaxTurns,    \* synthesis_context_max_chars, in turns
          MaxCalls,    \* bound: calls of the Synthesizer
          Faults       \* the faults the environment may inject

FaultKinds == {"spawn", "template", "llm", "transient", "empty", "save", "list", "crash"}

ASSUME NoneAssumption == NoSlot \notin Slots /\ NoTarget \notin Targets
ASSUME NumbersAssumption == MaxRetries \in Nat /\ MaxTurns \in Nat /\ MaxCalls \in Nat
ASSUME FaultsAssumption == Faults \subseteq FaultKinds

VARIABLES tasks,    \* tasks: target -> the slot routed to, or NoSlot
          mailbox,  \* of the service
          phase,    \* slot -> what its task is doing
          owner,    \* slot -> the target its task was started for
          history,  \* slot -> the turns of its conversation
          restore,  \* slot -> restore_len of the call it handles
          attempt,  \* slot -> attempts made by retry
          call,     \* the Synthesizer's call
          disk,     \* target -> what its stored summary covers
          written,  \* target -> what each text covers that was ever put in its folder
          blind,    \* history: the targets whose conversation, or reply yet to be stored,
                    \* began without the stored summary
          calls     \* calls made so far; also the revision of the newest document

taskVars == <<phase, owner, history, restore, attempt>>
files == <<disk, written, blind>>
vars == <<tasks, mailbox, taskVars, call, files, calls>>

Covers == [Docs -> 0..MaxCalls]
Nothing == [d \in Docs |-> 0]

Turns == [role : {"user", "assistant"}, covers : Covers]
User(c) == [role |-> "user", covers |-> c]
Assistant(c) == [role |-> "assistant", covers |-> c]

\* none: never used; ended: gone, the watcher has not said so; noticed: it has.
Phases == {"none", "idle", "queued", "chatting", "ended", "noticed"}
Live == {s \in Slots : phase[s] \in {"idle", "queued", "chatting"}}

Stages == {"none", "sent", "forward", "delivered", "replied", "failed"}
NoCall == [stage |-> "none", target |-> NoTarget, prior |-> Nothing, sources |-> Nothing,
           task |-> NoSlot, reply |-> Nothing]

Request == [type |-> "Synthesize", target |-> NoTarget]
Terminated(t) == [type |-> "SynthesisTaskTerminated", target |-> t]

\* The last turn that mentions d gives it revision r; 0 when none does.
Says(turns, d, r) ==
    \/ r = 0 /\ \A i \in DOMAIN turns : turns[i].covers[d] = 0
    \/ \E i \in DOMAIN turns :
          /\ r # 0 /\ turns[i].covers[d] = r
          /\ \A j \in DOMAIN turns : j > i => turns[j].covers[d] = 0

\* What the model makes of a conversation.
Readings(turns) == {c \in Covers : \A d \in Docs : Says(turns, d, c[d])}

Init ==
    /\ tasks = [t \in Targets |-> NoSlot]
    /\ mailbox = <<>>
    /\ phase = [s \in Slots |-> "none"]
    /\ owner = [s \in Slots |-> NoTarget]
    /\ history = [s \in Slots |-> <<>>]
    /\ restore = [s \in Slots |-> 0]
    /\ attempt = [s \in Slots |-> 0]
    /\ call = NoCall
    /\ disk = [t \in Targets |-> Nothing]
    /\ written = [t \in Targets |-> {}]
    /\ blind = {}
    /\ calls = 0
-----------------------------------------------------------------------------
(* The Synthesizer, as far as the service sees it.                          *)

\* get_latest_synthesis_file: the newest file of the folder; when the listing or the
\* metadata of a file fails, none or an older one.
Priors(t) == {disk[t]} \cup (IF "list" \in Faults THEN written[t] \cup {Nothing} ELSE {})

\* request_synthesis: the stored summary, and documents that changed since.
Synthesize(t, changed) ==
    /\ call.stage = "none"
    /\ calls < MaxCalls
    /\ calls' = calls + 1
    /\ \E prior \in Priors(t) :
         call' = [NoCall EXCEPT !.stage = "sent", !.target = t, !.prior = prior,
                                !.sources = [d \in Docs |-> IF d \in changed THEN calls + 1 ELSE 0]]
    /\ mailbox' = Append(mailbox, Request)
    /\ UNCHANGED <<tasks, taskVars, files>>

\* write_synthesis: a reply with nothing in it is not stored.
Save ==
    /\ call.stage = "replied"
    /\ IF call.reply = Nothing
       THEN UNCHANGED files
       ELSE /\ disk' = [disk EXCEPT ![call.target] = call.reply]
            /\ written' = [written EXCEPT ![call.target] = @ \cup {call.reply}]
            /\ blind' = blind \ {call.target}
    /\ call' = NoCall
    /\ UNCHANGED <<tasks, mailbox, taskVars, calls>>

\* The listing of current_synthesis_path fails, and the reply goes to a file behind
\* the newest one.
SaveBehind ==
    /\ "list" \in Faults
    /\ call.stage = "replied" /\ call.reply # Nothing
    /\ written' = [written EXCEPT ![call.target] = @ \cup {call.reply}]
    /\ call' = NoCall
    /\ UNCHANGED <<tasks, mailbox, taskVars, disk, blind, calls>>

\* An error of the service or of Storage: the Synthesizer drops the group.
GiveUp ==
    /\ call.stage = "failed" \/ (call.stage = "replied" /\ "save" \in Faults)
    /\ call' = NoCall
    /\ UNCHANGED <<tasks, mailbox, taskVars, files, calls>>
-----------------------------------------------------------------------------
(* The service handles one message at a time.                               *)

\* A slot nobody refers to any more can stand for another task.
Unused(s) ==
    /\ phase[s] \in {"none", "noticed"}
    /\ call.task # s
    /\ \A t \in Targets : tasks[t] # s

NextMessage(m) == mailbox # <<>> /\ Head(mailbox) = m /\ mailbox' = Tail(mailbox)

Fail == call' = [NoCall EXCEPT !.stage = "failed"]
ForwardTo(s) == call' = [call EXCEPT !.stage = "forward", !.task = s]

\* Seeded fault: an address that is closed counts as none.
KnownIfOpen == tasks[call.target] \in Live

Known == tasks[call.target] # NoSlot

Route ==
    /\ NextMessage(Request)
    /\ Known
    /\ ForwardTo(tasks[call.target])
    /\ UNCHANGED <<tasks, taskVars, files, calls>>

Spawn(s) ==
    /\ NextMessage(Request)
    /\ ~Known
    /\ Unused(s)
    /\ tasks' = [tasks EXCEPT ![call.target] = s]
    /\ phase' = [phase EXCEPT ![s] = "idle"]
    /\ owner' = [owner EXCEPT ![s] = call.target]
    /\ ForwardTo(s)
    /\ UNCHANGED <<history, restore, attempt, files, calls>>

SpawnFails ==
    /\ "spawn" \in Faults
    /\ NextMessage(Request)
    /\ ~Known
    /\ Fail
    /\ UNCHANGED <<tasks, taskVars, files, calls>>

\* The entry of the target goes, whichever task it names.
Forget(t) ==
    /\ NextMessage(Terminated(t))
    /\ tasks' = [tasks EXCEPT ![t] = NoSlot]
    /\ UNCHANGED <<taskVars, call, files, calls>>

(* The future of the answer, which runs outside the service: task.send(msg) *)
(* fails when the task has ended.                                           *)
Forward ==
    /\ call.stage = "forward"
    /\ IF call.task \in Live
       THEN /\ call' = [call EXCEPT !.stage = "delivered"]
            /\ phase' = [phase EXCEPT ![call.task] = "queued"]
       ELSE Fail /\ UNCHANGED phase
    /\ UNCHANGED <<tasks, mailbox, owner, history, restore, attempt, files, calls>>
-----------------------------------------------------------------------------
(* A synthesis task.                                                        *)

\* Seeded fault: the sender of a dropped message is left waiting.
TerminateMutely(s) ==
    /\ phase[s] \in {"idle", "queued"}
    /\ phase' = [phase EXCEPT ![s] = "ended"]
    /\ history' = [history EXCEPT ![s] = <<>>]
    /\ UNCHANGED <<tasks, mailbox, owner, restore, attempt, call, files, calls>>

\* The callback of CronActor runs between messages; one that is already queued
\* is dropped with the mailbox, and its sender gets an error.
Terminate(s) ==
    /\ phase[s] \in {"idle", "queued"}
    /\ phase' = [phase EXCEPT ![s] = "ended"]
    /\ history' = [history EXCEPT ![s] = <<>>]
    /\ IF phase[s] = "queued" THEN Fail ELSE UNCHANGED call
    /\ UNCHANGED <<tasks, mailbox, owner, restore, attempt, files, calls>>

\* Seeded fault: the watcher ends without a word.
NoticeSilently(s) ==
    /\ phase[s] = "ended"
    /\ phase' = [phase EXCEPT ![s] = "noticed"]
    /\ owner' = [owner EXCEPT ![s] = NoTarget]
    /\ UNCHANGED <<tasks, mailbox, history, restore, attempt, call, files, calls>>

\* handle.await returns in the watcher, and it sends its message.
Notice(s) ==
    /\ phase[s] = "ended"
    /\ phase' = [phase EXCEPT ![s] = "noticed"]
    /\ mailbox' = Append(mailbox, Terminated(owner[s]))
    /\ owner' = [owner EXCEPT ![s] = NoTarget]
    /\ UNCHANGED <<tasks, history, restore, attempt, call, files, calls>>

\* load_template fails: the handler returns before it touches the history.
NoTemplate(s) ==
    /\ "template" \in Faults
    /\ phase[s] = "queued"
    /\ phase' = [phase EXCEPT ![s] = "idle"]
    /\ Fail
    /\ UNCHANGED <<tasks, mailbox, owner, history, restore, attempt, files, calls>>

\* Seeded fault: the stored summary is never told to the model.
NoSeed(s) == <<>>

\* An empty history starts with the stored summary, if there is one.
Seed(s) ==
    IF history[s] = <<>> /\ call.prior # Nothing THEN <<User(call.prior)>> ELSE <<>>

\* A conversation that begins with another text than the stored summary is blind.
Unaware(s) ==
    IF history[s] # <<>> THEN blind
    ELSE IF call.prior = disk[call.target] THEN blind \ {call.target}
    ELSE blind \cup {call.target}

\* Seeded fault: the length is taken once the history has been seeded.
StartAfterSeed(s) ==
    /\ phase[s] = "queued"
    /\ phase' = [phase EXCEPT ![s] = "chatting"]
    /\ restore' = [restore EXCEPT ![s] = Len(history[s] \o Seed(s))]
    /\ history' = [history EXCEPT ![s] = @ \o Seed(s) \o <<User(call.sources)>>]
    /\ attempt' = [attempt EXCEPT ![s] = 1]
    /\ blind' = Unaware(s)
    /\ UNCHANGED <<tasks, mailbox, owner, call, disk, written, calls>>

Start(s) ==
    /\ phase[s] = "queued"
    /\ phase' = [phase EXCEPT ![s] = "chatting"]
    /\ restore' = [restore EXCEPT ![s] = Len(history[s])]
    /\ history' = [history EXCEPT ![s] = @ \o Seed(s) \o <<User(call.sources)>>]
    /\ attempt' = [attempt EXCEPT ![s] = 1]
    /\ blind' = Unaware(s)
    /\ UNCHANGED <<tasks, mailbox, owner, call, disk, written, calls>>

\* Seeded fault: the count starts over when it is used up.
RetryForever(s) ==
    /\ "transient" \in Faults
    /\ phase[s] = "chatting"
    /\ attempt' = [attempt EXCEPT ![s] = IF @ < MaxRetries THEN @ + 1 ELSE 1]
    /\ UNCHANGED <<tasks, mailbox, phase, owner, history, restore, call, files, calls>>

\* A transient error with attempts left: sleep and call the provider again.
Retry(s) ==
    /\ "transient" \in Faults
    /\ phase[s] = "chatting"
    /\ attempt[s] < MaxRetries
    /\ attempt' = [attempt EXCEPT ![s] = @ + 1]
    /\ UNCHANGED <<tasks, mailbox, phase, owner, history, restore, call, files, calls>>

\* The handler returns, and its local variables are gone.
Leave(s) ==
    /\ phase' = [phase EXCEPT ![s] = "idle"]
    /\ restore' = [restore EXCEPT ![s] = 0]
    /\ attempt' = [attempt EXCEPT ![s] = 0]

\* Any other error, or the last attempt: the history goes back to restore_len.
ChatFails(s) ==
    /\ phase[s] = "chatting"
    /\ "llm" \in Faults \/ ("transient" \in Faults /\ attempt[s] >= MaxRetries)
    /\ history' = [history EXCEPT ![s] = SubSeq(@, 1, restore[s])]
    /\ Leave(s)
    /\ Fail
    /\ UNCHANGED <<tasks, mailbox, owner, files, calls>>

\* The reply joins the history, which is cleared when it has outgrown the budget;
\* how many turns that takes depends on their lengths, up to MaxTurns.
Chat(s) ==
    /\ phase[s] = "chatting"
    /\ Leave(s)
    /\ \E reply \in Readings(history[s]) \cup (IF "empty" \in Faults THEN {Nothing} ELSE {}) :
         LET turns == Append(history[s], Assistant(reply))
         IN  /\ \/ Len(turns) <= MaxTurns /\ history' = [history EXCEPT ![s] = turns]
                \/ history' = [history EXCEPT ![s] = <<>>]
             /\ call' = [call EXCEPT !.stage = "replied", !.task = NoSlot, !.reply = reply,
                                       !.prior = Nothing, !.sources = Nothing]
    /\ UNCHANGED <<tasks, mailbox, owner, files, calls>>
-----------------------------------------------------------------------------
\* The process ends and is started again; conversations are not persisted.
Restart ==
    /\ "crash" \in Faults
    /\ tasks' = [t \in Targets |-> NoSlot]
    /\ mailbox' = <<>>
    /\ phase' = [s \in Slots |-> "none"]
    /\ owner' = [s \in Slots |-> NoTarget]
    /\ history' = [s \in Slots |-> <<>>]
    /\ restore' = [s \in Slots |-> 0]
    /\ attempt' = [s \in Slots |-> 0]
    /\ call' = NoCall
    /\ blind' = {}
    /\ UNCHANGED <<disk, written, calls>>

Caller == Save \/ SaveBehind \/ GiveUp
Service == Route \/ SpawnFails \/ (\E s \in Slots : Spawn(s)) \/ (\E t \in Targets : Forget(t))
Handler(s) == NoTemplate(s) \/ Start(s) \/ Retry(s) \/ ChatFails(s) \/ Chat(s)

Next ==
    \/ \E t \in Targets : \E changed \in SUBSET Docs \ {{}} : Synthesize(t, changed)
    \/ Caller \/ Service \/ Forward
    \/ \E s \in Slots : Handler(s) \/ Terminate(s) \/ Notice(s)
    \/ Restart

\* The actors handle what is queued and the futures run; a provider call ends, at
\* the latest with a timeout.  Nothing obliges the Synthesizer to call.
Fairness ==
    /\ WF_vars(Caller)
    /\ WF_vars(Service)
    /\ WF_vars(Forward)
    /\ \A s \in Slots : WF_vars(Handler(s)) /\ WF_vars(Notice(s))

Spec == Init /\ [][Next]_vars /\ Fairness
-----------------------------------------------------------------------------
(* Properties.                                                              *)

Busy == {s \in Slots : phase[s] \in {"queued", "chatting"}}

\* Every variable has its type; a task is busy exactly with the call under way.
TypeOK ==
    /\ tasks \in [Targets -> Slots \cup {NoSlot}]
    /\ mailbox \in Seq({Request} \cup {Terminated(t) : t \in Targets})
    /\ phase \in [Slots -> Phases]
    /\ owner \in [Slots -> Targets \cup {NoTarget}]
    /\ history \in [Slots -> Seq(Turns)]
    /\ restore \in [Slots -> Nat]
    /\ attempt \in [Slots -> Nat]
    /\ call \in [stage : Stages, target : Targets \cup {NoTarget}, prior : Covers,
                 sources : Covers, task : Slots \cup {NoSlot}, reply : Covers]
    /\ disk \in [Targets -> Covers]
    /\ written \in [Targets -> SUBSET Covers]
    /\ blind \subseteq Targets
    /\ calls \in 0..MaxCalls
    /\ Busy = IF call.stage = "delivered" THEN {call.task} ELSE {}

\* A task that runs is the one its target is routed to, so no target ever has two
\* conversations; the late notice of a dead task never evicts its successor
\* (tasks.remove does not look whom it removes).
LiveTasksAreRouted == \A s \in Live : owner[s] \in Targets /\ tasks[owner[s]] = s

\* Between calls a conversation is the seed, if any, and then questions with their
\* answers: a failed call leaves no turn behind, of the seed or of the sources.
NoDanglingTurn ==
    \A s \in Slots : phase[s] \in {"idle", "queued"} /\ history[s] # <<>> =>
        /\ history[s][Len(history[s])].role = "assistant"
        /\ \A i \in 1..Len(history[s]) - 1 :
               history[s][i].role = history[s][i + 1].role => i = 1

\* A stored summary never goes back to an older revision of a document, across
\* idle ends, resets of the context, failed calls, failed saves and restarts.  The one
\* exception: a conversation that began while the folder could not be listed knows no
\* better, and its first reply may forget.
NothingForgotten ==
    [][\A t \in Targets : t \notin blind => \A d \in Docs : disk'[t][d] >= disk[t][d]]_vars

\* Every call of the Synthesizer is answered and it goes on to its next group.
Answered == (call.stage # "none") ~> (call.stage = "none")

\* A route to a task that has ended does not stay: the target is given a new task.
StaleRouteGoes ==
    \A t \in Targets :
        (tasks[t] # NoSlot /\ tasks[t] \notin Live)
            ~> (tasks[t] = NoSlot \/ tasks[t] \in Live)

\* Idle ends, failures and retries leave neither a caller nor a route behind: the
\* call that is routed to a task that has ended fails, and the next finds another.
NothingHangs == Answered /\ StaleRouteGoes
=============================================================================
