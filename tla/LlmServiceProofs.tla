-------------------------- MODULE LlmServiceProofs --------------------------
(* Proofs about LlmService, for any number of targets, documents and calls. *)
EXTENDS LlmService, TLAPS

Messages == {Request} \cup {Terminated(t) : t \in Targets}
Calls == [stage : Stages, target : Targets \cup {NoTarget}, prior : Covers,
          sources : Covers, task : Slots \cup {NoSlot}, reply : Covers]

\* The types alone, without the clause that ties tasks to the call.
Typed ==
    /\ tasks \in [Targets -> Slots \cup {NoSlot}]
    /\ mailbox \in Seq(Messages)
    /\ phase \in [Slots -> Phases]
    /\ owner \in [Slots -> Targets \cup {NoTarget}]
    /\ history \in [Slots -> Seq(Turns)]
    /\ restore \in [Slots -> Nat]
    /\ attempt \in [Slots -> Nat]
    /\ call \in Calls
    /\ disk \in [Targets -> Covers]
    /\ written \in [Targets -> SUBSET Covers]
    /\ blind \subseteq Targets
    /\ calls \in 0..MaxCalls

\* The files of a folder and what is recorded about them stay together in most steps.
USE DEF files

(* How the service, its tasks and the call under way fit together.          *)

\* A running task and one whose watcher has yet to speak hold their route.
Held(s) == phase[s] \in {"idle", "queued", "chatting", "ended"}
                => owner[s] \in Targets /\ tasks[owner[s]] = s

\* A notice in the mailbox is about a route whose task is gone, and is the only one.
NoticesFit ==
    \A i \in DOMAIN mailbox : mailbox[i] # Request =>
        /\ mailbox[i].target \in Targets
        /\ tasks[mailbox[i].target] \in Slots
        /\ phase[tasks[mailbox[i].target]] = "noticed"
        /\ \A j \in DOMAIN mailbox : mailbox[j] = mailbox[i] => i = j

\* The call and its message, or the call and the task that has it.
CallFits ==
    /\ \A i \in DOMAIN mailbox : mailbox[i] = Request => call.stage = "sent"
    /\ \A i, j \in DOMAIN mailbox : mailbox[i] = Request /\ mailbox[j] = Request => i = j
    /\ call.stage \notin {"none", "failed"} => call.target \in Targets
    /\ call.stage \in {"forward", "delivered"} => call.task \in Slots
    /\ \A s \in Slots : phase[s] \in {"queued", "chatting"}
                            => call.stage = "delivered" /\ call.task = s
    /\ call.stage = "delivered" => phase[call.task] \in {"queued", "chatting"}

\* restore_len is a length the history had, and there is none between calls.
RestoreFits(s) ==
    /\ restore[s] <= Len(history[s])
    /\ phase[s] # "chatting" => restore[s] = 0

RoutingInv ==
    /\ Typed
    /\ \A s \in Slots : Held(s) /\ RestoreFits(s)
    /\ NoticesFit
    /\ CallFits
-----------------------------------------------------------------------------
(* Sequences.                                                               *)

\* What is left of a mailbox when its first message is taken.
LEMMA TailFacts ==
  ASSUME NEW S, NEW q \in Seq(S), q # <<>>
  PROVE  /\ Tail(q) \in Seq(S)
         /\ \A i \in DOMAIN Tail(q) : i + 1 \in DOMAIN q /\ Tail(q)[i] = q[i + 1]
         /\ 1 \in DOMAIN q /\ Head(q) = q[1]
OBVIOUS

\* A mailbox or a history with one element more.
LEMMA AppendFacts ==
  ASSUME NEW S, NEW q \in Seq(S), NEW e \in S
  PROVE  /\ Append(q, e) \in Seq(S)
         /\ Len(Append(q, e)) = Len(q) + 1
         /\ DOMAIN Append(q, e) = DOMAIN q \cup {Len(q) + 1}
         /\ Len(q) + 1 \notin DOMAIN q
         /\ \A i \in DOMAIN q : Append(q, e)[i] = q[i]
         /\ Append(q, e)[Len(q) + 1] = e
OBVIOUS
-----------------------------------------------------------------------------
(* The routing invariant.                                                   *)

LEMMA NothingIsCovers == Nothing \in Covers
BY NumbersAssumption DEF Nothing, Covers

LEMMA NoCallTyped == NoCall \in Calls
BY NothingIsCovers DEF NoCall, Calls, Stages

\* The seed of a conversation and the sources of a call are user turns.
LEMMA TurnsTyped ==
  ASSUME NEW c \in Covers
  PROVE  User(c) \in Turns /\ Assistant(c) \in Turns
BY DEF User, Assistant, Turns

LEMMA StartTyped ==
  ASSUME Typed, NEW s \in Slots
  PROVE  history[s] \o Seed(s) \o <<User(call.sources)>> \in Seq(Turns)
<1>1. call.prior \in Covers /\ call.sources \in Covers
  BY DEF Typed, Calls
<1>2. Seed(s) \in Seq(Turns)
  BY <1>1, TurnsTyped DEF Seed
<1>3. <<User(call.sources)>> \in Seq(Turns)
  BY <1>1, TurnsTyped
<1>4. history[s] \in Seq(Turns)
  BY DEF Typed
<1> QED
  BY <1>2, <1>3, <1>4

\* The invariant holds before anything has been asked.
LEMMA RoutingInit == Init => RoutingInv
<1> SUFFICES ASSUME Init PROVE RoutingInv
  OBVIOUS
<1>1. Typed
  BY NothingIsCovers, NoCallTyped, NumbersAssumption DEF Init, Typed, Phases
<1>2. \A s \in Slots : Held(s) /\ RestoreFits(s)
  BY DEF Init, Held, RestoreFits
<1>3. NoticesFit /\ CallFits
  BY DEF Init, NoticesFit, CallFits, NoCall
<1> QED
  BY <1>1, <1>2, <1>3 DEF RoutingInv

\* Every step keeps the types.
LEMMA TypedNext == RoutingInv /\ [Next]_vars => Typed'
<1> SUFFICES ASSUME RoutingInv, [Next]_vars PROVE Typed'
  OBVIOUS
<1> USE DEF RoutingInv
<1>0. Typed
  OBVIOUS
<1>1. ASSUME NEW t \in Targets, NEW changed \in SUBSET Docs \ {{}}, Synthesize(t, changed)
      PROVE  Typed'
  <2> DEFINE src == [d \in Docs |-> IF d \in changed THEN calls + 1 ELSE 0]
  <2>1. src \in Covers /\ calls + 1 \in 0..MaxCalls
    BY <1>1, NumbersAssumption DEF Synthesize, Typed, Covers
  <2>2. call' \in Calls
    <3> HIDE DEF src
    <3>1. PICK prior \in Priors(t) :
            call' = [NoCall EXCEPT !.stage = "sent", !.target = t, !.prior = prior, !.sources = src]
      BY <1>1 DEF Synthesize, src
    <3>2. prior \in Covers
      BY <1>0, <3>1, NothingIsCovers DEF Priors, Typed
    <3> QED
      BY <2>1, <3>1, <3>2, NoCallTyped DEF Calls, Stages
  <2>3. mailbox' \in Seq(Messages)
    <3>1. Request \in Messages /\ mailbox \in Seq(Messages)
      BY DEF Messages, Typed
    <3> QED
      BY <1>1, <3>1, AppendFacts DEF Synthesize
  <2> QED
    BY <1>0, <1>1, <2>1, <2>2, <2>3 DEF Synthesize, Typed, taskVars
<1>2. CASE Save \/ SaveBehind
  <2>1. call.reply \in Covers
    BY <1>0 DEF Typed, Calls
  <2>2. disk' \in [Targets -> Covers] /\ blind' \subseteq Targets
    BY <1>0, <1>2, <2>1 DEF Save, SaveBehind, Typed
  <2>3. written' \in [Targets -> SUBSET Covers]
    <3>1. written \in [Targets -> SUBSET Covers]
      BY <1>0 DEF Typed
    <3>2. \/ written' = written
          \/ written' = [written EXCEPT ![call.target] = written[call.target] \cup {call.reply}]
      BY <1>2 DEF Save, SaveBehind
    <3>3. call.target \in Targets => written[call.target] \cup {call.reply} \in SUBSET Covers
      BY <2>1, <3>1
    <3> QED
      BY <3>1, <3>2, <3>3
  <2> QED
    BY <1>0, <1>2, <2>2, <2>3, NoCallTyped DEF Save, SaveBehind, Typed, taskVars
<1>3. CASE GiveUp
  BY <1>0, <1>3, NoCallTyped DEF GiveUp, Typed, taskVars
<1> DEFINE Popped == mailbox' \in Seq(Messages)
<1>a. ASSUME NEW m, NextMessage(m) PROVE Popped
  BY <1>a, <1>0, TailFacts DEF NextMessage, Typed
<1>b. ASSUME Fail PROVE call' \in Calls
  BY <1>b, NoCallTyped DEF Fail, Calls, Stages
<1>c. ASSUME NEW s \in Slots \cup {NoSlot}, ForwardTo(s) PROVE call' \in Calls
  BY <1>c, <1>0 DEF ForwardTo, Typed, Calls, Stages
<1>4. CASE Route
  <2>1. call.target \in Targets
    <3>1. 1 \in DOMAIN mailbox /\ mailbox[1] = Request
      BY <1>4, <1>0, TailFacts DEF Route, NextMessage, Typed
    <3> QED
      BY <3>1 DEF CallFits
  <2>2. tasks[call.target] \in Slots \cup {NoSlot}
    BY <2>1 DEF Typed
  <2>3. Popped /\ call' \in Calls
    BY <1>4, <1>a, <1>c, <2>2 DEF Route
  <2> QED
    BY <1>0, <1>4, <2>3 DEF Route, Typed, taskVars
<1>5. ASSUME NEW s \in Slots, Spawn(s) PROVE Typed'
  <2>1. Popped /\ call' \in Calls
    BY <1>5, <1>a, <1>c DEF Spawn
  <2>2. call.target \in Targets \cup {NoTarget}
    BY <1>0 DEF Typed, Calls
  <2> QED
    BY <1>0, <1>5, <2>1, <2>2 DEF Spawn, Typed, Phases
<1>6. CASE SpawnFails
  <2>1. Popped /\ call' \in Calls
    BY <1>6, <1>a, <1>b DEF SpawnFails
  <2> QED
    BY <1>0, <1>6, <2>1 DEF SpawnFails, Typed, taskVars
<1>7. ASSUME NEW t \in Targets, Forget(t) PROVE Typed'
  <2>1. Popped
    BY <1>7, <1>a DEF Forget
  <2> QED
    BY <1>0, <1>7, <2>1 DEF Forget, Typed, taskVars
<1>8. CASE Forward
  <2>1. call' \in Calls
    BY <1>8, <1>b, <1>0 DEF Forward, Typed, Calls, Stages
  <2> QED
    BY <1>0, <1>8, <2>1 DEF Forward, Typed, Phases
<1>9. ASSUME NEW s \in Slots, Terminate(s) PROVE Typed'
  <2>1. call' \in Calls
    BY <1>9, <1>b, <1>0 DEF Terminate, Typed
  <2> QED
    BY <1>0, <1>9, <2>1 DEF Terminate, Typed, Phases
<1>10. ASSUME NEW s \in Slots, Notice(s) PROVE Typed'
  <2>1. owner[s] \in Targets
    BY <1>10 DEF Held, Notice
  <2>2. mailbox' \in Seq(Messages)
    BY <1>0, <1>10, <2>1, AppendFacts DEF Notice, Messages, Typed
  <2> QED
    BY <1>0, <1>10, <2>2 DEF Notice, Typed, Phases
<1>11. ASSUME NEW s \in Slots, NoTemplate(s) PROVE Typed'
  BY <1>0, <1>11, <1>b DEF NoTemplate, Typed, Phases
<1>12. ASSUME NEW s \in Slots, Start(s) PROVE Typed'
  <2>1. history[s] \o Seed(s) \o <<User(call.sources)>> \in Seq(Turns)
    BY <1>0, StartTyped
  <2>2. Len(history[s]) \in Nat
    BY <1>0 DEF Typed
  <2>3. blind' \subseteq Targets
    BY <1>0, <1>12 DEF Start, Unaware, CallFits, Typed
  <2> QED
    BY <1>0, <1>12, <2>1, <2>2, <2>3 DEF Start, Typed, Phases
<1>13. ASSUME NEW s \in Slots, Retry(s) PROVE Typed'
  BY <1>0, <1>13 DEF Retry, Typed
<1>14. ASSUME NEW s \in Slots, ChatFails(s) PROVE Typed'
  <2>1. call' \in Calls
    BY <1>14, <1>b DEF ChatFails
  <2>2. SubSeq(history[s], 1, restore[s]) \in Seq(Turns)
    BY <1>0 DEF Typed, RestoreFits
  <2> QED
    BY <1>0, <1>14, <2>1, <2>2 DEF ChatFails, Leave, Typed, Phases
<1>15. ASSUME NEW s \in Slots, Chat(s) PROVE Typed'
  <2>1. PICK reply \in Readings(history[s]) \cup {Nothing} :
          /\ \/ history' = [history EXCEPT ![s] = Append(history[s], Assistant(reply))]
             \/ history' = [history EXCEPT ![s] = <<>>]
          /\ call' = [call EXCEPT !.stage = "replied", !.task = NoSlot, !.reply = reply,
                                  !.prior = Nothing, !.sources = Nothing]
    BY <1>15, <1>0 DEF Chat, Typed
  <2>2. reply \in Covers
    BY <2>1, NothingIsCovers DEF Readings
  <2>3. Append(history[s], Assistant(reply)) \in Seq(Turns)
    BY <1>0, <2>2, TurnsTyped, AppendFacts DEF Typed
  <2>4. history' \in [Slots -> Seq(Turns)]
    <3>1. history \in [Slots -> Seq(Turns)] /\ <<>> \in Seq(Turns)
      BY <1>0 DEF Typed
    <3>2. CASE history' = [history EXCEPT ![s] = <<>>]
      BY <3>1, <3>2
    <3>3. CASE history' = [history EXCEPT ![s] = Append(history[s], Assistant(reply))]
      BY <2>3, <3>1, <3>3
    <3> QED
      BY <2>1, <3>2, <3>3
  <2>5. call' \in Calls
    BY <1>0, <2>1, <2>2, NothingIsCovers DEF Typed, Calls, Stages
  <2> QED
    BY <1>0, <1>15, <2>4, <2>5 DEF Chat, Leave, Typed, Phases
<1>16. CASE Restart
  BY <1>0, <1>16, NoCallTyped DEF Restart, Typed, Phases
<1>17. CASE UNCHANGED vars
  BY <1>0, <1>17 DEF vars, taskVars, Typed
<1> QED
  BY <1>1, <1>2, <1>3, <1>4, <1>5, <1>6, <1>7, <1>8, <1>9, <1>10, <1>11, <1>12, <1>13,
     <1>14, <1>15, <1>16, <1>17 DEF Next, Caller, Service, Handler

\* Every step keeps restore_len within the history.
LEMMA RestoreNext == RoutingInv /\ [Next]_vars => \A s \in Slots : RestoreFits(s)'
<1> SUFFICES ASSUME RoutingInv, [Next]_vars, NEW s \in Slots PROVE RestoreFits(s)'
  OBVIOUS
<1> USE DEF RestoreFits
<1>0. Typed /\ RestoreFits(s)
  BY DEF RoutingInv
<1>1. CASE UNCHANGED <<phase, history, restore>>
  BY <1>0, <1>1
<1>2. ASSUME NEW r \in Slots, Spawn(r) PROVE RestoreFits(s)'
  BY <1>0, <1>2 DEF Spawn, Unused, Typed
<1>3. CASE Forward
  BY <1>0, <1>3 DEF Forward, Typed, RoutingInv, CallFits
<1>4. ASSUME NEW r \in Slots, Terminate(r) PROVE RestoreFits(s)'
  BY <1>0, <1>4 DEF Terminate, Typed
<1>5. ASSUME NEW r \in Slots, Notice(r) PROVE RestoreFits(s)'
  BY <1>0, <1>5 DEF Notice, Typed
<1>6. ASSUME NEW r \in Slots, NoTemplate(r) PROVE RestoreFits(s)'
  BY <1>0, <1>6 DEF NoTemplate, Typed
<1>7. ASSUME NEW r \in Slots, Start(r) PROVE RestoreFits(s)'
  <2>1. history[r] \in Seq(Turns) /\ Seed(r) \in Seq(Turns) /\ User(call.sources) \in Turns
    BY <1>0, TurnsTyped DEF Typed, Calls, Seed
  <2>2. Len(history[r]) <= Len(history[r] \o Seed(r) \o <<User(call.sources)>>)
    BY <2>1
  <2> QED
    BY <1>0, <1>7, <2>2 DEF Start, Typed
<1>8. ASSUME NEW r \in Slots, ChatFails(r) PROVE RestoreFits(s)'
  BY <1>0, <1>8 DEF ChatFails, Leave, Typed, RoutingInv
<1>9. ASSUME NEW r \in Slots, Chat(r) PROVE RestoreFits(s)'
  <2>1. restore' = [restore EXCEPT ![r] = 0] /\ phase' = [phase EXCEPT ![r] = "idle"]
    BY <1>9 DEF Chat, Leave
  <2>2. r # s => history'[s] = history[s]
    BY <1>9, <1>0 DEF Chat, Typed
  <2>3. history' \in [Slots -> Seq(Turns)]
    BY TypedNext DEF Typed
  <2> QED
    BY <1>0, <2>1, <2>2, <2>3 DEF Typed
<1>10. CASE Restart
  BY <1>10 DEF Restart
<1> QED
  BY <1>1, <1>2, <1>3, <1>4, <1>5, <1>6, <1>7, <1>8, <1>9, <1>10
     DEF Next, Caller, Service, Handler, Synthesize, Save, SaveBehind, GiveUp, Route, SpawnFails, Forget,
         Retry, taskVars, vars

\* The first message of the mailbox.
LEMMA TakeFirst ==
  ASSUME Typed, NEW m, NextMessage(m)
  PROVE  /\ 1 \in DOMAIN mailbox /\ mailbox[1] = m
         /\ \A i \in DOMAIN mailbox' :
                i + 1 \in DOMAIN mailbox /\ mailbox'[i] = mailbox[i + 1] /\ i \in Nat \ {0}
  BY TailFacts DEF Typed, NextMessage

\* Every step keeps the routes of running tasks.
LEMMA HeldNext == RoutingInv /\ [Next]_vars => \A s \in Slots : Held(s)'
<1> SUFFICES ASSUME RoutingInv, [Next]_vars, NEW s \in Slots PROVE Held(s)'
  OBVIOUS
<1>0. Typed /\ Held(s)
  BY DEF RoutingInv
<1> USE DEF Held
<1>1. CASE UNCHANGED <<tasks, phase, owner>>
  BY <1>0, <1>1
<1>2. ASSUME NEW r \in Slots, Spawn(r) PROVE Held(s)'
  <2>1. call.target \in Targets
    <3>1. mailbox[1] = Request /\ 1 \in DOMAIN mailbox
      BY <1>0, <1>2, TakeFirst DEF Spawn
    <3> QED
      BY <3>1 DEF RoutingInv, CallFits
  <2>2. tasks[call.target] = NoSlot
    BY <1>2 DEF Spawn, Known
  <2> QED
    BY <1>0, <1>2, <2>1, <2>2, NoneAssumption DEF Spawn, Typed
<1>3. ASSUME NEW t \in Targets, Forget(t) PROVE Held(s)'
  <2>1. phase[tasks[t]] = "noticed"
    <3>1. mailbox[1] = Terminated(t) /\ 1 \in DOMAIN mailbox
      BY <1>0, <1>3, TakeFirst DEF Forget
    <3>2. Terminated(t) # Request /\ Terminated(t).target = t
      BY DEF Terminated, Request
    <3> QED
      BY <3>1, <3>2 DEF RoutingInv, NoticesFit
  <2> QED
    BY <1>0, <1>3, <2>1 DEF Forget, Typed, taskVars
<1>4. CASE Forward
  BY <1>0, <1>4 DEF Forward, Typed, Live
<1>5. ASSUME NEW r \in Slots, Terminate(r) PROVE Held(s)'
  BY <1>0, <1>5 DEF Terminate, Typed
<1>6. ASSUME NEW r \in Slots, Notice(r) PROVE Held(s)'
  BY <1>0, <1>6 DEF Notice, Typed
<1>7. ASSUME NEW r \in Slots, NoTemplate(r) PROVE Held(s)'
  BY <1>0, <1>7 DEF NoTemplate, Typed
<1>8. ASSUME NEW r \in Slots, Start(r) PROVE Held(s)'
  BY <1>0, <1>8 DEF Start, Typed
<1>9. ASSUME NEW r \in Slots, ChatFails(r) PROVE Held(s)'
  BY <1>0, <1>9 DEF ChatFails, Leave, Typed
<1>10. ASSUME NEW r \in Slots, Chat(r) PROVE Held(s)'
  BY <1>0, <1>10 DEF Chat, Leave, Typed
<1>11. CASE Restart
  BY <1>11 DEF Restart
<1> QED
  BY <1>1, <1>2, <1>3, <1>4, <1>5, <1>6, <1>7, <1>8, <1>9, <1>10, <1>11
     DEF Next, Caller, Service, Handler, Synthesize, Save, SaveBehind, GiveUp, Route, SpawnFails,
         Retry, taskVars, vars

\* Every step keeps what the notices in the mailbox say.
LEMMA NoticesNext == RoutingInv /\ [Next]_vars => NoticesFit'
<1> SUFFICES ASSUME RoutingInv, [Next]_vars PROVE NoticesFit'
  OBVIOUS
<1>0. Typed /\ NoticesFit
  BY DEF RoutingInv
<1>t. Typed'
  BY TypedNext
<1> USE DEF NoticesFit
\* A step that leaves the mailbox and the ended tasks alone.
<1>1. ASSUME UNCHANGED <<mailbox, tasks>>, \A s \in Slots : phase[s] = "noticed" => phase'[s] = "noticed"
      PROVE  NoticesFit'
  BY <1>0, <1>1 DEF Typed
<1>2. ASSUME NEW t \in Targets, NEW changed \in SUBSET Docs \ {{}}, Synthesize(t, changed)
      PROVE  NoticesFit'
  <2>1. mailbox \in Seq(Messages) /\ Request \in Messages
    BY <1>0 DEF Typed, Messages
  <2>2. /\ DOMAIN mailbox' = DOMAIN mailbox \cup {Len(mailbox) + 1}
        /\ \A i \in DOMAIN mailbox : mailbox'[i] = mailbox[i]
        /\ mailbox'[Len(mailbox) + 1] = Request
    BY <1>2, <2>1, AppendFacts DEF Synthesize
  <2> QED
    BY <1>0, <1>2, <2>2 DEF Synthesize, taskVars
<1>3. ASSUME NextMessage(Request), UNCHANGED <<tasks, phase>> PROVE NoticesFit'
  BY <1>0, <1>3, TakeFirst
<1>4. ASSUME NEW s \in Slots, Spawn(s) PROVE NoticesFit'
  <2>1. \A i \in DOMAIN mailbox' : i + 1 \in DOMAIN mailbox /\ mailbox'[i] = mailbox[i + 1] /\ i \in Nat \ {0}
    BY <1>0, <1>4, TakeFirst DEF Spawn
  <2>2. tasks[call.target] = NoSlot /\ \A t \in Targets : tasks[t] # s
    BY <1>4 DEF Spawn, Known, Unused
  <2>3. \A i \in DOMAIN mailbox' : mailbox'[i] # Request => mailbox'[i].target # call.target
    BY <1>0, <2>1, <2>2, NoneAssumption
  <2>4. \A t \in Targets \ {call.target} : tasks'[t] = tasks[t]
    BY <1>0, <1>4 DEF Spawn, Typed
  <2>5. \A r \in Slots \ {s} : phase'[r] = phase[r]
    BY <1>0, <1>4 DEF Spawn, Typed
  <2> QED
    BY <1>0, <2>1, <2>2, <2>3, <2>4, <2>5
<1>5. ASSUME NEW t \in Targets, Forget(t) PROVE NoticesFit'
  <2>1. \A i \in DOMAIN mailbox' : i + 1 \in DOMAIN mailbox /\ mailbox'[i] = mailbox[i + 1] /\ i \in Nat \ {0}
    BY <1>0, <1>5, TakeFirst DEF Forget
  <2>2. mailbox[1] = Terminated(t) /\ 1 \in DOMAIN mailbox /\ Terminated(t) # Request
    BY <1>0, <1>5, TakeFirst DEF Forget, Terminated, Request
  <2>3. \A i \in DOMAIN mailbox' : mailbox'[i] # Request => mailbox'[i].target # t
    <3> SUFFICES ASSUME NEW i \in DOMAIN mailbox', mailbox'[i] # Request, mailbox'[i].target = t
                 PROVE  FALSE
      OBVIOUS
    <3>1. mailbox[i + 1] \in Messages
      BY <1>0, <2>1 DEF Typed
    <3>2. mailbox[i + 1] = Terminated(t)
      <4>1. mailbox[i + 1] # Request /\ mailbox[i + 1].target = t
        BY <2>1
      <4>2. PICK u \in Targets : mailbox[i + 1] = Terminated(u)
        BY <3>1, <4>1 DEF Messages
      <4> QED
        BY <4>1, <4>2 DEF Terminated
    <3> QED
      BY <1>0, <2>1, <2>2, <3>2
  <2>4. \A u \in Targets \ {t} : tasks'[u] = tasks[u]
    BY <1>0, <1>5 DEF Forget, Typed
  <2> QED
    BY <1>0, <1>5, <2>1, <2>3, <2>4 DEF Forget, taskVars
<1>6. ASSUME NEW s \in Slots, Notice(s) PROVE NoticesFit'
  <2>1. owner[s] \in Targets /\ tasks[owner[s]] = s /\ phase[s] = "ended"
    BY <1>6 DEF Notice, RoutingInv, Held
  <2>2. mailbox \in Seq(Messages) /\ Terminated(owner[s]) \in Messages
    BY <1>0, <2>1 DEF Typed, Messages
  <2>3. /\ DOMAIN mailbox' = DOMAIN mailbox \cup {Len(mailbox) + 1}
        /\ \A i \in DOMAIN mailbox : mailbox'[i] = mailbox[i]
        /\ mailbox'[Len(mailbox) + 1] = Terminated(owner[s])
    BY <1>6, <2>2, AppendFacts DEF Notice
  <2>4. phase' = [phase EXCEPT ![s] = "noticed"] /\ tasks' = tasks
    BY <1>6 DEF Notice
  <2>5. Terminated(owner[s]).target = owner[s] /\ Terminated(owner[s]) # Request
    BY DEF Terminated, Request
  <2>6. \A i \in DOMAIN mailbox : mailbox[i] # Terminated(owner[s])
    BY <1>0, <2>1, <2>5
  <2> QED
    BY <1>0, <2>1, <2>3, <2>4, <2>5, <2>6 DEF Typed
<1>7. ASSUME NEW s \in Slots, Terminate(s) \/ Handler(s) PROVE NoticesFit'
  <2>1. UNCHANGED <<mailbox, tasks>>
    BY <1>7 DEF Terminate, Handler, NoTemplate, Start, Retry, ChatFails, Chat
  <2>2. \A r \in Slots : phase[r] = "noticed" => phase'[r] = "noticed"
    BY <1>0, <1>7 DEF Terminate, Handler, NoTemplate, Start, Retry, ChatFails, Chat, Leave, Typed
  <2> QED
    BY <1>1, <2>1, <2>2
<1>8. CASE Forward
  BY <1>0, <1>1, <1>8 DEF Forward, Live, Typed
<1>9. CASE Restart
  BY <1>9 DEF Restart
<1>10. CASE Caller \/ UNCHANGED vars
  BY <1>1, <1>10 DEF Caller, Save, SaveBehind, GiveUp, taskVars, vars
<1>11. CASE Route \/ SpawnFails
  BY <1>3, <1>11 DEF Route, SpawnFails, taskVars
<1> QED
  BY <1>2, <1>4, <1>5, <1>6, <1>7, <1>8, <1>9, <1>10, <1>11 DEF Next, Service

\* Every step keeps the call, its message and its task together.
LEMMA CallNext == RoutingInv /\ [Next]_vars => CallFits'
<1> SUFFICES ASSUME RoutingInv, [Next]_vars PROVE CallFits'
  OBVIOUS
<1>0. Typed /\ CallFits
  BY DEF RoutingInv
<1> USE DEF CallFits
<1>1. ASSUME NEW t \in Targets, NEW changed \in SUBSET Docs \ {{}}, Synthesize(t, changed)
      PROVE  CallFits'
  <2>1. mailbox \in Seq(Messages) /\ Request \in Messages
    BY <1>0 DEF Typed, Messages
  <2>2. /\ DOMAIN mailbox' = DOMAIN mailbox \cup {Len(mailbox) + 1}
        /\ \A i \in DOMAIN mailbox : mailbox'[i] = mailbox[i]
    BY <1>1, <2>1, AppendFacts DEF Synthesize
  <2>3. call.stage = "none" /\ call'.stage = "sent" /\ call'.target = t /\ phase' = phase
    BY <1>1, NoCallTyped DEF Synthesize, taskVars, NoCall, Calls
  <2>4. \A i \in DOMAIN mailbox : mailbox[i] # Request
    BY <1>0, <2>3
  <2> QED
    BY <1>0, <2>2, <2>3, <2>4
<1>2. CASE Caller
  <2>1. call.stage \in {"replied", "failed"} /\ call' = NoCall /\ UNCHANGED <<mailbox, phase>>
    BY <1>2 DEF Caller, Save, SaveBehind, GiveUp, taskVars
  <2> QED
    BY <1>0, <2>1 DEF NoCall
\* The service takes the request: the call goes on, and no task is busy with it.
<1>3. ASSUME NextMessage(Request)
      PROVE  /\ call.stage = "sent" /\ call.target \in Targets
             /\ \A i \in DOMAIN mailbox' : mailbox'[i] # Request
             /\ \A s \in Slots : phase[s] \notin {"queued", "chatting"}
  <2>1. 1 \in DOMAIN mailbox /\ mailbox[1] = Request
    BY <1>0, <1>3, TakeFirst
  <2>2. \A i \in DOMAIN mailbox' : i + 1 \in DOMAIN mailbox /\ mailbox'[i] = mailbox[i + 1] /\ i \in Nat \ {0}
    BY <1>0, <1>3, TakeFirst
  <2>3. call.stage = "sent"
    BY <1>0, <2>1
  <2>4. \A i \in DOMAIN mailbox' : mailbox'[i] # Request
    BY <1>0, <2>1, <2>2
  <2> QED
    BY <1>0, <2>3, <2>4
<1>4. CASE Route
  <2>1. call'.stage = "forward" /\ call'.target = call.target /\ call'.task = tasks[call.target]
    BY <1>0, <1>4 DEF Route, ForwardTo, Typed, Calls
  <2>2. tasks[call.target] \in Slots
    BY <1>0, <1>3, <1>4 DEF Route, Known, Typed
  <2> QED
    BY <1>0, <1>3, <1>4, <2>1, <2>2 DEF Route, taskVars
<1>5. ASSUME NEW s \in Slots, Spawn(s) PROVE CallFits'
  <2>1. call'.stage = "forward" /\ call'.target = call.target /\ call'.task = s
    BY <1>0, <1>5 DEF Spawn, ForwardTo, Typed, Calls
  <2>2. \A r \in Slots : phase'[r] \notin {"queued", "chatting"}
    BY <1>0, <1>3, <1>5 DEF Spawn, Typed
  <2> QED
    BY <1>0, <1>3, <1>5, <2>1, <2>2 DEF Spawn
<1>6. CASE SpawnFails
  <2>1. call'.stage = "failed"
    BY <1>6 DEF SpawnFails, Fail, NoCall
  <2> QED
    BY <1>0, <1>3, <1>6, <2>1 DEF SpawnFails, taskVars
<1>7. ASSUME NEW t \in Targets, Forget(t) PROVE CallFits'
  <2>1. \A i \in DOMAIN mailbox' : i + 1 \in DOMAIN mailbox /\ mailbox'[i] = mailbox[i + 1] /\ i \in Nat \ {0}
    BY <1>0, <1>7, TakeFirst DEF Forget
  <2> QED
    BY <1>0, <1>7, <2>1 DEF Forget, taskVars
<1>8. CASE Forward
  <2>1. call.stage = "forward" /\ mailbox' = mailbox
    BY <1>8 DEF Forward
  <2>2. CASE call.task \in Live
    <3>1. call'.stage = "delivered" /\ call'.target = call.target /\ call'.task = call.task
      BY <1>0, <1>8, <2>2 DEF Forward, Typed, Calls
    <3>2. phase' = [phase EXCEPT ![call.task] = "queued"]
      BY <1>8, <2>2 DEF Forward
    <3> QED
      BY <1>0, <2>1, <3>1, <3>2 DEF Typed
  <2>3. CASE call.task \notin Live
    BY <1>0, <1>8, <2>1, <2>3 DEF Forward, Fail, NoCall
  <2> QED
    BY <2>2, <2>3
<1>9. ASSUME NEW s \in Slots, Terminate(s) PROVE CallFits'
  <2>1. CASE phase[s] = "queued"
    BY <1>0, <1>9, <2>1 DEF Terminate, Fail, NoCall, Typed
  <2>2. CASE phase[s] = "idle"
    BY <1>0, <1>9, <2>2 DEF Terminate, Typed
  <2> QED
    BY <1>9, <2>1, <2>2 DEF Terminate
<1>10. ASSUME NEW s \in Slots, Notice(s) PROVE CallFits'
  <2>1. /\ DOMAIN mailbox' = DOMAIN mailbox \cup {Len(mailbox) + 1}
        /\ \A i \in DOMAIN mailbox : mailbox'[i] = mailbox[i]
        /\ mailbox'[Len(mailbox) + 1] # Request
    <3>1. owner[s] \in Targets
      BY <1>10 DEF Notice, RoutingInv, Held
    <3>2. mailbox \in Seq(Messages) /\ Terminated(owner[s]) \in Messages
      BY <1>0, <3>1 DEF Typed, Messages
    <3>3. Terminated(owner[s]) # Request
      BY DEF Terminated, Request
    <3> QED
      BY <1>10, <3>2, <3>3, AppendFacts DEF Notice
  <2> QED
    BY <1>0, <1>10, <2>1 DEF Notice, Typed
<1>11. ASSUME NEW s \in Slots, NoTemplate(s) \/ ChatFails(s) PROVE CallFits'
  <2>1. call'.stage = "failed" /\ mailbox' = mailbox /\ phase' = [phase EXCEPT ![s] = "idle"]
    BY <1>11 DEF NoTemplate, ChatFails, Leave, Fail, NoCall
  <2>2. call.stage = "delivered" /\ call.task = s
    BY <1>0, <1>11 DEF NoTemplate, ChatFails
  <2> QED
    BY <1>0, <2>1, <2>2 DEF Typed
<1>12. ASSUME NEW s \in Slots, Start(s) PROVE CallFits'
  BY <1>0, <1>12 DEF Start, Typed
<1>13. ASSUME NEW s \in Slots, Retry(s) PROVE CallFits'
  BY <1>0, <1>13 DEF Retry
<1>14. ASSUME NEW s \in Slots, Chat(s) PROVE CallFits'
  <2>1. call'.stage = "replied" /\ call'.target = call.target
    BY <1>0, <1>14 DEF Chat, Typed, Calls
  <2>2. call.stage = "delivered" /\ call.task = s
    BY <1>0, <1>14 DEF Chat
  <2>3. mailbox' = mailbox /\ phase' = [phase EXCEPT ![s] = "idle"]
    BY <1>14 DEF Chat, Leave
  <2> QED
    BY <1>0, <2>1, <2>2, <2>3 DEF Typed
<1>15. CASE Restart
  BY <1>15 DEF Restart, NoCall
<1>16. CASE UNCHANGED vars
  BY <1>0, <1>16 DEF vars, taskVars
<1> QED
  BY <1>1, <1>2, <1>4, <1>5, <1>6, <1>7, <1>8, <1>9, <1>10, <1>11, <1>12, <1>13,
     <1>14, <1>15, <1>16 DEF Next, Service, Handler

\* The service, its mailbox, its tasks and the call fit together in every state.
THEOREM Routing == Spec => []RoutingInv
<1>1. Init => RoutingInv
  BY RoutingInit
<1>2. RoutingInv /\ [Next]_vars => RoutingInv'
  BY TypedNext, RestoreNext, HeldNext, NoticesNext, CallNext DEF RoutingInv
<1> QED
  BY <1>1, <1>2, PTL DEF Spec

\* Every reachable state is well typed, and a task is busy exactly with the call
\* under way.
THEOREM TypeCorrect == Spec => []TypeOK
<1>1. RoutingInv => TypeOK
  <2> SUFFICES ASSUME RoutingInv PROVE TypeOK
    OBVIOUS
  <2>1. Typed /\ CallFits
    BY DEF RoutingInv
  <2>2. Busy = IF call.stage = "delivered" THEN {call.task} ELSE {}
    BY <2>1 DEF CallFits, Busy
  <2> QED
    BY <2>1, <2>2 DEF TypeOK, Typed, Calls, Messages
<1> QED
  BY <1>1, Routing, PTL

\* A running task is the one its target is routed to, whatever order the notices
\* of dead tasks and the calls for new ones come in.
THEOREM AlwaysRouted == Spec => []LiveTasksAreRouted
<1>1. RoutingInv => LiveTasksAreRouted
  BY DEF RoutingInv, Held, LiveTasksAreRouted, Live
<1> QED
  BY <1>1, Routing, PTL
-----------------------------------------------------------------------------
(* The conversations and the summaries made from them: no conversation      *)
(* knows less than the summary its replies replace.                         *)

\* Whatever revision of a document the conversation tells, it is not older.
Newer(h, c) == \A d \in Docs : \A r \in 0..MaxCalls : Says(h, d, r) => r >= c[d]

\* Questions and answers take turns, after a seed at most.
Alternates(h) == \A i \in 1..Len(h) - 1 : h[i].role = h[i + 1].role => i = 1

\* A conversation between calls: nothing, or all questions answered.
Settled(h, c) ==
    h # <<>> => h[Len(h)].role = "assistant" /\ Alternates(h) /\ Newer(h, c)

\* A conversation whose last question is with the model.
Asking(h, c) == h # <<>> /\ h[Len(h)].role = "user" /\ Alternates(h) /\ Newer(h, c)

\* What a conversation is bound to know: the summary of its target, or nothing when
\* it began without it.
Base(s) == IF owner[s] \in blind THEN Nothing ELSE disk[owner[s]]

\* What holds of a slot, depending on its phase.
SlotFits(s) ==
    /\ phase[s] \in {"none", "ended", "noticed"} => history[s] = <<>>
    /\ phase[s] \in {"idle", "queued"} => Settled(history[s], Base(s))
    /\ phase[s] = "chatting" => /\ Asking(history[s], Base(s))
                                /\ Settled(SubSeq(history[s], 1, restore[s]), Base(s))

RoutesDiffer ==
    \A t, u \in Targets : tasks[t] \in Slots /\ tasks[t] = tasks[u] => t = u

\* No text in a folder tells of a revision to come.
DiskFits ==
    \A t \in Targets : \A d \in Docs :
        disk[t][d] <= calls /\ \A c \in written[t] : c[d] <= calls

\* And no conversation does.
TurnsFit(s) == \A i \in DOMAIN history[s] : \A d \in Docs : history[s][i].covers[d] <= calls

\* What the call brings is the newest there is, and is brought to the right task.
QuestionFits ==
    call.stage \in {"sent", "forward", "delivered"} =>
        /\ \A d \in Docs : call.prior[d] <= calls
        /\ \A d \in Docs : call.sources[d] \in {0, calls}
        /\ call.stage # "sent" /\ call.task \in Live => owner[call.task] = call.target

\* The reply is newer than the disk, unless the disk was not known to it, and no
\* conversation is older than the reply.
ReplyFits ==
    call.stage = "replied" /\ call.reply # Nothing =>
        /\ call.target \notin blind => \A d \in Docs : disk[call.target][d] <= call.reply[d]
        /\ \A d \in Docs : call.reply[d] <= calls
        /\ \A s \in Live : owner[s] = call.target => Settled(history[s], call.reply)

HistoryInv ==
    /\ \A s \in Slots : SlotFits(s) /\ TurnsFit(s)
    /\ RoutesDiffer
    /\ DiskFits
    /\ QuestionFits
    /\ ReplyFits
-----------------------------------------------------------------------------
(* Conversations.                                                           *)

\* One turn more decides for the documents it mentions and for no other.
LEMMA SaysAppend ==
  ASSUME NEW h \in Seq(Turns), NEW turn \in Turns, NEW d \in Docs, NEW r,
         Says(Append(h, turn), d, r)
  PROVE  \/ turn.covers[d] # 0 /\ r = turn.covers[d]
         \/ turn.covers[d] = 0 /\ Says(h, d, r)
<1> DEFINE g == Append(h, turn)
           n == Len(h) + 1
<1>1. /\ DOMAIN g = DOMAIN h \cup {n} /\ n \notin DOMAIN h
      /\ \A i \in DOMAIN h : g[i] = h[i] /\ i < n
      /\ g[n] = turn
  BY AppendFacts
<1> HIDE DEF g, n
<1>2. n \in Nat /\ \A i \in DOMAIN h : i \in Nat
  BY DEF n
<1>3. Says(g, d, r)
  BY DEF g
<1> QED
  BY <1>1, <1>2, <1>3 DEF Says

\* A turn that mentions nothing older keeps a conversation new.
LEMMA NewerAppend ==
  ASSUME NEW h \in Seq(Turns), NEW turn \in Turns, NEW c \in Covers, Newer(h, c),
         \A d \in Docs : turn.covers[d] # 0 => turn.covers[d] >= c[d]
  PROVE  Newer(Append(h, turn), c)
BY SaysAppend DEF Newer

\* A text is as new as itself.
LEMMA NewerSingle ==
  ASSUME NEW turn \in Turns
  PROVE  Newer(<<turn>>, turn.covers)
<1>1. \A d \in Docs : turn.covers[d] \in 0..MaxCalls
  BY DEF Turns, Covers
<1> QED
  BY <1>1 DEF Newer, Says

\* Every conversation is as new as nothing.
LEMMA NewerNothing ==
  ASSUME NEW h
  PROVE  Newer(h, Nothing)
BY NumbersAssumption DEF Newer, Nothing

\* The turns still alternate when the other side speaks.
LEMMA AlternatesAppend ==
  ASSUME NEW h \in Seq(Turns), h # <<>>, NEW turn \in Turns, Alternates(h),
         h[Len(h)].role # turn.role \/ Len(h) = 1
  PROVE  /\ Alternates(Append(h, turn))
         /\ Append(h, turn) # <<>>
         /\ Append(h, turn)[Len(Append(h, turn))] = turn
<1> DEFINE g == Append(h, turn)
<1>1. /\ Len(g) = Len(h) + 1 /\ Len(h) \in Nat
      /\ \A i \in 1..Len(h) : g[i] = h[i]
      /\ g[Len(h) + 1] = turn
  BY AppendFacts
<1>2. Append(h, turn) # <<>>
  OBVIOUS
<1> HIDE DEF g
<1>3. Alternates(g)
  <2> SUFFICES ASSUME NEW i \in 1..Len(g) - 1, g[i].role = g[i + 1].role PROVE i = 1
    BY DEF Alternates
  <2>1. CASE i = Len(h)
    BY <1>1, <2>1
  <2>2. CASE i \in 1..Len(h) - 1
    BY <1>1, <2>2 DEF Alternates
  <2> QED
    BY <1>1, <2>1, <2>2
<1> QED
  BY <1>1, <1>2, <1>3 DEF g
-----------------------------------------------------------------------------
(* The steps.                                                               *)

\* The invariant holds before anything has been asked.
LEMMA HistoryInit == Init => HistoryInv
<1> SUFFICES ASSUME Init PROVE HistoryInv
  OBVIOUS
<1>1. (\A s \in Slots : SlotFits(s) /\ TurnsFit(s)) /\ RoutesDiffer /\ DiskFits
  BY NoneAssumption DEF Init, SlotFits, TurnsFit, RoutesDiffer, DiskFits, Nothing, Settled
<1>2. QuestionFits /\ ReplyFits
  BY DEF Init, NoCall, QuestionFits, ReplyFits
<1> QED
  BY <1>1, <1>2 DEF HistoryInv

\* Every step keeps different targets on different tasks.
LEMMA RoutesNext == RoutingInv /\ HistoryInv /\ [Next]_vars => RoutesDiffer'
<1> SUFFICES ASSUME RoutingInv, HistoryInv, [Next]_vars PROVE RoutesDiffer'
  OBVIOUS
<1> USE DEF RoutesDiffer
<1>0. Typed /\ RoutesDiffer
  BY DEF RoutingInv, HistoryInv
<1>1. CASE UNCHANGED tasks
  BY <1>0, <1>1
<1>2. ASSUME NEW s \in Slots, Spawn(s) PROVE RoutesDiffer'
  BY <1>0, <1>2 DEF Spawn, Unused, Typed
<1>3. ASSUME NEW t \in Targets, Forget(t) PROVE RoutesDiffer'
  BY <1>0, <1>3, NoneAssumption DEF Forget, Typed
<1>4. CASE Restart
  BY <1>4, NoneAssumption DEF Restart
<1> QED
  BY <1>1, <1>2, <1>3, <1>4
     DEF Next, Caller, Service, Handler, Synthesize, Save, SaveBehind, GiveUp, Route, SpawnFails, Forward,
         Terminate, Notice, NoTemplate, Start, Retry, ChatFails, Chat, vars

\* The revisions of the stored summaries are those of calls that were made.
LEMMA DiskNext == RoutingInv /\ HistoryInv /\ [Next]_vars => DiskFits'
<1> SUFFICES ASSUME RoutingInv, HistoryInv, [Next]_vars PROVE DiskFits'
  OBVIOUS
<1> USE DEF DiskFits
<1>0. Typed /\ DiskFits
  BY DEF RoutingInv, HistoryInv
<1>1. CASE UNCHANGED <<disk, written, calls>>
  BY <1>0, <1>1
<1>2. ASSUME NEW t \in Targets, NEW changed, Synthesize(t, changed) PROVE DiskFits'
  BY <1>0, <1>2, NumbersAssumption DEF Synthesize, Typed, Covers
<1>3. CASE Save \/ SaveBehind
  <2>1. CASE call.reply = Nothing
    BY <1>0, <1>3, <2>1 DEF Save, SaveBehind
  <2>2. CASE call.reply # Nothing
    <3>1. /\ disk' \in {[disk EXCEPT ![call.target] = call.reply], disk} /\ calls' = calls
          /\ written' = [written EXCEPT ![call.target] = @ \cup {call.reply}]
          /\ call.stage = "replied"
      BY <1>3, <2>2 DEF Save, SaveBehind
    <3>2. \A d \in Docs : call.reply[d] <= calls
      BY <2>2, <3>1 DEF HistoryInv, ReplyFits
    <3> QED
      BY <1>0, <3>1, <3>2 DEF Typed
  <2> QED
    BY <2>1, <2>2
<1> QED
  BY <1>1, <1>2, <1>3
     DEF Next, Caller, Service, Handler, GiveUp, Route, Spawn, SpawnFails, Forget, Forward,
         Terminate, Notice, NoTemplate, Start, Retry, ChatFails, Chat, Restart, vars

\* The question of a call that has been delivered, put to its task.
LEMMA Asks ==
  ASSUME RoutingInv, HistoryInv, NEW s \in Slots, Start(s)
  PROVE  /\ Asking(history'[s], Base(s)')
         /\ SubSeq(history'[s], 1, Len(history[s])) = history[s]
         /\ Settled(history[s], Base(s)')
<1> DEFINE h == history[s]
           q == User(call.sources)
<1>0. PICK c : c = Base(s)'
  OBVIOUS
<1>1. /\ h \in Seq(Turns) /\ q \in Turns /\ User(call.prior) \in Turns
      /\ call.prior \in Covers /\ call.sources \in Covers
  BY TurnsTyped DEF RoutingInv, Typed, Calls
<1>2. /\ phase[s] = "queued" /\ call.stage = "delivered" /\ call.task = s /\ s \in Live
      /\ owner[s] \in Targets
  BY DEF Start, RoutingInv, CallFits, Held, Live
<1>3. owner[s] = call.target /\ \A d \in Docs : call.sources[d] \in {0, calls}
  BY <1>2 DEF HistoryInv, QuestionFits
<1>a. c = IF call.target \in Unaware(s) THEN Nothing ELSE disk[call.target]
  BY <1>0, <1>3 DEF Start, Base
<1>b. h = <<>> => c = call.prior \/ c = Nothing
  BY <1>a DEF Unaware
<1>c. h # <<>> => c = Base(s)
  BY <1>3, <1>a DEF Unaware, Base
<1>4. c \in Covers /\ \A d \in Docs : c[d] <= calls
  <2>1. c = Nothing \/ c = disk[call.target]
    BY <1>a
  <2>2. \A d \in Docs : Nothing[d] <= calls
    BY DEF Nothing, RoutingInv, Typed
  <2> QED
    BY <1>2, <1>3, <2>1, <2>2, NothingIsCovers DEF RoutingInv, Typed, HistoryInv, DiskFits
<1>5. Settled(h, c)
  <2>1. Settled(h, Base(s))
    BY <1>2 DEF HistoryInv, SlotFits, Start
  <2> QED
    BY <1>c, <2>1 DEF Settled
<1>6. history'[s] = h \o Seed(s) \o <<q>>
  BY DEF Start, RoutingInv, Typed
<1>7. q.role = "user" /\ \A d \in Docs : q.covers[d] # 0 => q.covers[d] >= c[d]
  BY <1>1, <1>3, <1>4 DEF User
<1> DEFINE Told == Asking(history'[s], c) /\ SubSeq(history'[s], 1, Len(h)) = h
<1>8. ASSUME h # <<>> PROVE Told
  <2>1. history'[s] = Append(h, q)
    BY <1>1, <1>6, <1>8 DEF Seed
  <2>2. h[Len(h)].role = "assistant" /\ Alternates(h) /\ Newer(h, c)
    BY <1>5, <1>8 DEF Settled
  <2>3. Newer(Append(h, q), c)
    BY <1>1, <1>4, <1>7, <2>2, NewerAppend
  <2>4. /\ Alternates(Append(h, q))
        /\ Append(h, q) # <<>>
        /\ Append(h, q)[Len(Append(h, q))] = q
    BY <1>1, <1>7, <1>8, <2>2, AlternatesAppend
  <2>5. SubSeq(Append(h, q), 1, Len(h)) = h
    BY <1>1
  <2> QED
    BY <1>7, <2>1, <2>3, <2>4, <2>5 DEF Asking
<1>9. ASSUME h = <<>>, call.prior = Nothing PROVE Told
  <2>1. history'[s] = <<q>>
    BY <1>1, <1>6, <1>9 DEF Seed
  <2>2. Newer(<<q>>, c)
    BY <1>b, <1>9, NewerNothing
  <2>3. Alternates(<<q>>)
    BY DEF Alternates
  <2>4. SubSeq(<<q>>, 1, 0) = <<>> /\ Len(h) = 0
    BY <1>9
  <2>5. <<q>> # <<>> /\ <<q>>[Len(<<q>>)] = q
    OBVIOUS
  <2> QED
    BY <1>7, <1>9, <2>1, <2>2, <2>3, <2>4, <2>5 DEF Asking
<1>10. ASSUME h = <<>>, call.prior # Nothing PROVE Told
  <2> DEFINE p == User(call.prior)
  <2>1. history'[s] = Append(<<p>>, q)
    BY <1>1, <1>6, <1>10 DEF Seed
  <2>2. <<p>> \in Seq(Turns) /\ <<p>> # <<>> /\ Len(<<p>>) = 1 /\ Alternates(<<p>>)
    BY <1>1 DEF Alternates
  <2>3. Newer(<<p>>, c)
    <3>1. p.covers = call.prior
      BY DEF User
    <3> QED
      BY <1>1, <1>b, <1>10, <3>1, NewerSingle, NewerNothing
  <2> HIDE DEF p
  <2>4. Newer(Append(<<p>>, q), c)
    BY <1>1, <1>4, <1>7, <2>2, <2>3, NewerAppend
  <2>5. /\ Alternates(Append(<<p>>, q))
        /\ Append(<<p>>, q) # <<>>
        /\ Append(<<p>>, q)[Len(Append(<<p>>, q))] = q
    BY <1>1, <2>2, AlternatesAppend
  <2>6. SubSeq(Append(<<p>>, q), 1, 0) = <<>> /\ Len(h) = 0
    BY <1>1, <1>10, <2>2
  <2> QED
    BY <1>7, <1>10, <2>1, <2>4, <2>5, <2>6 DEF Asking
<1>11. Told
  BY <1>8, <1>9, <1>10
<1> QED
  BY <1>0, <1>5, <1>11

\* The answer, which is the latest of everything the conversation mentions.
LEMMA Replies ==
  ASSUME NEW h \in Seq(Turns), NEW c \in Covers, NEW reply \in Covers,
         Asking(h, c), reply \in Readings(h) \/ reply = Nothing
  PROVE  /\ Settled(Append(h, Assistant(reply)), c)
         /\ reply # Nothing => \A d \in Docs : reply[d] >= c[d]
         /\ reply # Nothing => Settled(Append(h, Assistant(reply)), reply)
<1> DEFINE a == Assistant(reply)
           g == Append(h, a)
<1>1. a \in Turns /\ a.role = "assistant" /\ a.covers = reply
  BY TurnsTyped DEF Assistant
<1> HIDE DEF a
<1>2. Alternates(g) /\ g # <<>> /\ g[Len(g)] = a
  BY <1>1, AlternatesAppend DEF Asking
<1>3. ASSUME reply # Nothing PROVE \A d \in Docs : reply[d] >= c[d]
  <2>1. reply \in Readings(h)
    BY <1>3
  <2>2. \A d \in Docs : reply[d] \in 0..MaxCalls /\ Says(h, d, reply[d])
    BY <2>1 DEF Readings, Covers
  <2> QED
    BY <2>2 DEF Asking, Newer
<1>4. \A d \in Docs : a.covers[d] # 0 => a.covers[d] >= c[d]
  BY <1>1, <1>3 DEF Nothing
<1>5. Newer(g, c)
  BY <1>1, <1>4, NewerAppend DEF Asking
<1>6. Newer(g, reply)
  <2> SUFFICES ASSUME NEW d \in Docs, NEW r \in 0..MaxCalls, Says(g, d, r) PROVE r >= reply[d]
    BY DEF Newer
  <2>1. reply[d] \in 0..MaxCalls
    BY DEF Covers
  <2> QED
    BY <1>1, <2>1, SaysAppend
<1> QED
  BY <1>1, <1>2, <1>3, <1>5, <1>6 DEF Settled, a

\* What a chat does, with the model's reply made explicit.
LEMMA ChatStep ==
  ASSUME RoutingInv, HistoryInv, NEW s \in Slots, Chat(s)
  PROVE  \E reply \in Covers :
           /\ reply \in Readings(history[s]) \/ reply = Nothing
           /\ LET turns == Append(history[s], Assistant(reply))
              IN  /\ history'[s] \in {turns, <<>>}
                  /\ Settled(turns, Base(s))
                  /\ reply # Nothing => Settled(turns, reply)
           /\ reply # Nothing => \A d \in Docs : reply[d] >= Base(s)[d]
           /\ call'.stage = "replied" /\ call'.reply = reply /\ call'.target = call.target
<1>1. PICK reply \in Readings(history[s]) \cup {Nothing} :
          /\ \/ history' = [history EXCEPT ![s] = Append(history[s], Assistant(reply))]
             \/ history' = [history EXCEPT ![s] = <<>>]
          /\ call' = [call EXCEPT !.stage = "replied", !.task = NoSlot, !.reply = reply,
                                  !.prior = Nothing, !.sources = Nothing]
  BY DEF Chat
<1>2. reply \in Covers
  BY <1>1, NothingIsCovers DEF Readings
<1>3. history \in [Slots -> Seq(Turns)] /\ call \in Calls
  BY DEF RoutingInv, Typed
<1>4. call'.stage = "replied" /\ call'.reply = reply /\ call'.target = call.target
  BY <1>1, <1>3 DEF Calls
<1>5. history'[s] \in {Append(history[s], Assistant(reply)), <<>>}
  BY <1>1, <1>3
<1>6. Asking(history[s], Base(s)) /\ Base(s) \in Covers
  <2>1. phase[s] = "chatting"
    BY DEF Chat
  <2>2. owner[s] \in Targets
    BY <2>1 DEF RoutingInv, Held
  <2> QED
    BY <2>1, <2>2, NothingIsCovers DEF HistoryInv, SlotFits, RoutingInv, Typed, Base
<1>7. reply \in Readings(history[s]) \/ reply = Nothing
  BY <1>1
<1>8. history[s] \in Seq(Turns)
  BY <1>3
<1>9. /\ Settled(Append(history[s], Assistant(reply)), Base(s))
      /\ reply # Nothing => \A d \in Docs : reply[d] >= Base(s)[d]
      /\ reply # Nothing => Settled(Append(history[s], Assistant(reply)), reply)
  BY <1>2, <1>6, <1>7, <1>8, Replies
<1> QED
  BY <1>2, <1>4, <1>5, <1>7, <1>9

\* An empty conversation is settled.
LEMMA SettledEmpty ==
  ASSUME NEW c
  PROVE  Settled(<<>>, c)
BY DEF Settled

\* Every step keeps every conversation newer than the summary it serves.
LEMMA SlotNext == RoutingInv /\ HistoryInv /\ [Next]_vars => \A s \in Slots : SlotFits(s)'
<1> SUFFICES ASSUME RoutingInv, HistoryInv, [Next]_vars, NEW s \in Slots PROVE SlotFits(s)'
  OBVIOUS
<1>0. Typed /\ SlotFits(s) /\ Held(s) /\ RestoreFits(s)
  BY DEF RoutingInv, HistoryInv
<1>t. Typed'
  BY TypedNext
\* Slots and summaries that a step leaves alone.
<1>1. ASSUME UNCHANGED <<phase[s], history[s], restore[s], owner[s], disk, blind>> PROVE SlotFits(s)'
  BY <1>0, <1>1 DEF SlotFits, Base
<1>2. CASE Save
  <2>1. UNCHANGED <<phase, history, restore, owner>> /\ call.stage = "replied"
    BY <1>2 DEF Save, taskVars
  <2>2. phase[s] \notin {"queued", "chatting"}
    BY <2>1 DEF RoutingInv, CallFits
  <2>3. CASE phase[s] # "idle"
    BY <1>0, <2>1, <2>2, <2>3 DEF SlotFits, Typed, Phases
  <2>4. CASE phase[s] = "idle"
    <3>1. owner[s] \in Targets /\ s \in Live
      BY <1>0, <2>4 DEF Held, Live
    <3>2. Settled(history[s], Base(s)')
      <4>1. CASE call.reply # Nothing /\ owner[s] = call.target
        <5>1. Settled(history[s], call.reply)
          BY <2>1, <3>1, <4>1 DEF HistoryInv, ReplyFits
        <5>2. Base(s)' = call.reply
          BY <1>0, <1>2, <2>1, <3>1, <4>1 DEF Save, Typed, Base
        <5> QED
          BY <5>1, <5>2
      <4>2. CASE call.reply = Nothing \/ owner[s] # call.target
        <5>1. Base(s)' = Base(s)
          BY <1>0, <1>2, <2>1, <3>1, <4>2 DEF Save, Typed, Base
        <5> QED
          BY <1>0, <2>4, <5>1 DEF SlotFits
      <4> QED
        BY <4>1, <4>2
    <3> QED
      BY <2>1, <2>4, <3>2 DEF SlotFits
  <2> QED
    BY <2>3, <2>4
<1>3. ASSUME NEW r \in Slots, Spawn(r) PROVE SlotFits(s)'
  <2>1. CASE r = s
    <3>1. history'[s] = <<>> /\ phase'[s] = "idle"
      BY <1>0, <1>3, <2>1 DEF Spawn, Unused, SlotFits, Typed
    <3> QED
      BY <3>1, SettledEmpty DEF SlotFits
  <2>2. CASE r # s
    BY <1>0, <1>1, <1>3, <2>2 DEF Spawn, Typed
  <2> QED
    BY <2>1, <2>2
<1>4. CASE Forward
  <2>1. CASE call.task \in Live /\ call.task = s
    <3>1. /\ phase[s] = "idle" /\ phase'[s] = "queued"
          /\ UNCHANGED <<history, restore, owner, disk, blind>>
      BY <1>0, <1>4, <2>1 DEF Forward, Live, Typed, RoutingInv, CallFits
    <3> QED
      BY <1>0, <3>1 DEF SlotFits, Base
  <2>2. CASE call.task \notin Live \/ call.task # s
    BY <1>0, <1>1, <1>4, <2>2 DEF Forward, Typed
  <2> QED
    BY <2>1, <2>2
<1>5. ASSUME NEW r \in Slots, Terminate(r) PROVE SlotFits(s)'
  <2>1. CASE r = s
    BY <1>0, <1>5, <2>1 DEF Terminate, Typed, SlotFits
  <2>2. CASE r # s
    BY <1>0, <1>1, <1>5, <2>2 DEF Terminate, Typed
  <2> QED
    BY <2>1, <2>2
<1>6. ASSUME NEW r \in Slots, Notice(r) PROVE SlotFits(s)'
  <2>1. CASE r = s
    BY <1>0, <1>6, <2>1 DEF Notice, Typed, SlotFits
  <2>2. CASE r # s
    BY <1>0, <1>1, <1>6, <2>2 DEF Notice, Typed
  <2> QED
    BY <2>1, <2>2
<1>7. ASSUME NEW r \in Slots, NoTemplate(r) PROVE SlotFits(s)'
  <2>1. CASE r = s
    BY <1>0, <1>7, <2>1 DEF NoTemplate, Typed, SlotFits, Base
  <2>2. CASE r # s
    BY <1>0, <1>1, <1>7, <2>2 DEF NoTemplate, Typed
  <2> QED
    BY <2>1, <2>2
<1>8. ASSUME NEW r \in Slots, Start(r) PROVE SlotFits(s)'
  <2>1. CASE r = s
    <3>1. /\ Asking(history'[s], Base(s)')
          /\ SubSeq(history'[s], 1, Len(history[s])) = history[s]
          /\ Settled(history[s], Base(s)')
      BY <1>8, <2>1, Asks
    <3>2. phase'[s] = "chatting" /\ restore'[s] = Len(history[s])
      BY <1>0, <1>8, <2>1 DEF Start, Typed
    <3> QED
      BY <3>1, <3>2 DEF SlotFits
  <2>2. CASE r # s
    <3>1. /\ UNCHANGED <<phase[s], history[s], restore[s], owner, disk>>
          /\ blind' = Unaware(r) /\ phase[r] = "queued"
      BY <1>0, <1>8, <2>2 DEF Start, Typed
    <3>2. CASE phase[s] \in {"none", "ended", "noticed"}
      BY <1>0, <3>1, <3>2 DEF SlotFits
    <3>3. CASE phase[s] \in {"idle", "queued", "chatting"}
      <4>1. owner[r] = call.target
        BY <3>1 DEF HistoryInv, QuestionFits, RoutingInv, CallFits, Live
      <4>2. owner[s] # owner[r]
        BY <2>2, <3>1, <3>3 DEF RoutingInv, Held
      <4>3. Base(s)' = Base(s)
        BY <3>1, <4>1, <4>2 DEF Base, Unaware
      <4> QED
        BY <1>0, <3>1, <4>3 DEF SlotFits
    <3> QED
      BY <1>0, <3>2, <3>3 DEF Typed, Phases
  <2> QED
    BY <2>1, <2>2
<1>9. ASSUME NEW r \in Slots, ChatFails(r) PROVE SlotFits(s)'
  <2>1. CASE r = s
    <3>1. /\ phase[s] = "chatting" /\ phase'[s] = "idle"
          /\ history'[s] = SubSeq(history[s], 1, restore[s])
          /\ UNCHANGED <<owner, disk, blind>>
      BY <1>0, <1>9, <2>1 DEF ChatFails, Leave, Typed
    <3> QED
      BY <1>0, <3>1 DEF SlotFits, Base
  <2>2. CASE r # s
    BY <1>0, <1>1, <1>9, <2>2 DEF ChatFails, Leave, Typed
  <2> QED
    BY <2>1, <2>2
<1>10. ASSUME NEW r \in Slots, Chat(r) PROVE SlotFits(s)'
  <2>1. CASE r = s
    <3>1. phase'[s] = "idle" /\ UNCHANGED <<owner, disk, blind>>
      BY <1>0, <1>10, <2>1 DEF Chat, Leave, Typed
    <3>2. Settled(history'[s], Base(s))
      BY <1>10, <2>1, ChatStep, SettledEmpty
    <3> QED
      BY <3>1, <3>2 DEF SlotFits, Base
  <2>2. CASE r # s
    <3>1. history'[s] = history[s]
      BY <1>0, <1>10, <2>2 DEF Chat, Typed
    <3>2. UNCHANGED <<phase[s], restore[s], owner[s], disk, blind>>
      BY <1>0, <1>10, <2>2 DEF Chat, Leave, Typed
    <3> QED
      BY <1>1, <3>1, <3>2
  <2> QED
    BY <2>1, <2>2
<1>11. CASE Restart
  BY <1>11 DEF Restart, SlotFits
<1>12. ASSUME UNCHANGED <<phase, history, restore, owner, disk, blind>> PROVE SlotFits(s)'
  BY <1>1, <1>12
<1> QED
  BY <1>2, <1>3, <1>4, <1>5, <1>6, <1>7, <1>8, <1>9, <1>10, <1>11, <1>12
     DEF Next, Caller, Service, Handler, Synthesize, SaveBehind, GiveUp, Route, SpawnFails, Forget, Retry,
         vars, taskVars

\* A reply mentions no revision that the conversation does not.
LEMMA ReplyBounded ==
  ASSUME NEW s \in Slots, TurnsFit(s), calls \in Nat, NEW reply \in Covers,
         reply \in Readings(history[s]) \/ reply = Nothing
  PROVE  \A d \in Docs : reply[d] <= calls
<1>1. CASE reply = Nothing
  BY <1>1 DEF Nothing
<1>2. CASE reply \in Readings(history[s])
  BY <1>2 DEF Readings, Says, TurnsFit
<1> QED
  BY <1>1, <1>2

\* A conversation within a bound stays within it by a turn within it.
LEMMA BoundedAppend ==
  ASSUME NEW h \in Seq(Turns), NEW turn \in Turns, NEW n \in Nat,
         \A i \in DOMAIN h : \A d \in Docs : h[i].covers[d] <= n,
         \A d \in Docs : turn.covers[d] <= n
  PROVE  \A i \in DOMAIN Append(h, turn) : \A d \in Docs : Append(h, turn)[i].covers[d] <= n
<1> DEFINE g == Append(h, turn)
<1>1. /\ DOMAIN g = DOMAIN h \cup {Len(h) + 1}
      /\ \A i \in DOMAIN h : g[i] = h[i]
      /\ g[Len(h) + 1] = turn
  BY AppendFacts
<1> HIDE DEF g
<1>2. \A i \in DOMAIN g : \A d \in Docs : g[i].covers[d] <= n
  BY <1>1
<1> QED
  BY <1>2 DEF g

\* Every step keeps the conversations to revisions that exist.
LEMMA TurnsNext == RoutingInv /\ HistoryInv /\ [Next]_vars => \A s \in Slots : TurnsFit(s)'
<1> SUFFICES ASSUME RoutingInv, HistoryInv, [Next]_vars, NEW s \in Slots PROVE TurnsFit(s)'
  OBVIOUS
<1>0. Typed /\ TurnsFit(s) /\ history[s] \in Seq(Turns) /\ calls \in Nat
  BY NumbersAssumption DEF RoutingInv, HistoryInv, Typed
<1>1. ASSUME UNCHANGED <<history[s], calls>> PROVE TurnsFit(s)'
  BY <1>0, <1>1 DEF TurnsFit
<1>2. ASSUME NEW t \in Targets, NEW changed, Synthesize(t, changed) PROVE TurnsFit(s)'
  <2>1. calls' = calls + 1 /\ history' = history
    BY <1>2 DEF Synthesize, taskVars
  <2>2. \A i \in DOMAIN history[s] : \A d \in Docs : history[s][i].covers[d] \in 0..MaxCalls
    <3> SUFFICES ASSUME NEW i \in DOMAIN history[s], NEW d \in Docs
                 PROVE  history[s][i].covers[d] \in 0..MaxCalls
      OBVIOUS
    <3>1. history[s][i] \in Turns
      BY <1>0
    <3> QED
      BY <3>1 DEF Turns, Covers
  <2> QED
    BY <1>0, <2>1, <2>2, NumbersAssumption DEF TurnsFit
<1>3. ASSUME NEW r \in Slots, Terminate(r) PROVE TurnsFit(s)'
  BY <1>0, <1>1, <1>3 DEF Terminate, Typed, TurnsFit
<1>4. ASSUME NEW r \in Slots, Start(r) PROVE TurnsFit(s)'
  <2>1. CASE r = s
    <3>0. calls' = calls
      BY <1>4 DEF Start
    <3>1. /\ call.stage = "delivered" /\ call.target \in Targets
          /\ call.prior \in Covers /\ call.sources \in Covers
      BY <1>0, <1>4, <2>1 DEF Start, RoutingInv, CallFits, Typed, Calls
    <3>2. \A d \in Docs : call.prior[d] <= calls /\ call.sources[d] <= calls
      BY <1>0, <3>1, NumbersAssumption DEF HistoryInv, QuestionFits
    <3>3. history'[s] = history[s] \o Seed(s) \o <<User(call.sources)>>
      BY <1>0, <1>4, <2>1 DEF Start, Typed
    <3>4. User(call.sources).covers = call.sources /\ User(call.prior).covers = call.prior
      BY DEF User
    <3>5. User(call.sources) \in Turns /\ User(call.prior) \in Turns
      BY <3>1, TurnsTyped
    <3>6. CASE Seed(s) = <<>>
      <4>1. history'[s] = Append(history[s], User(call.sources))
        BY <1>0, <3>3, <3>5, <3>6
      <4> QED
        BY <1>0, <3>0, <3>2, <3>4, <3>5, <4>1, BoundedAppend DEF TurnsFit
    <3>7. CASE Seed(s) # <<>>
      <4>1. history[s] = <<>> /\ Seed(s) = <<User(call.prior)>>
        BY <3>7 DEF Seed
      <4>2. history'[s] = Append(<<User(call.prior)>>, User(call.sources))
        BY <1>0, <3>3, <3>5, <4>1
      <4>3. <<User(call.prior)>> \in Seq(Turns) /\ DOMAIN <<User(call.prior)>> = {1}
        BY <3>5
      <4> QED
        BY <1>0, <3>0, <3>2, <3>4, <3>5, <4>2, <4>3, BoundedAppend DEF TurnsFit
    <3> QED
      BY <3>6, <3>7
  <2>2. CASE r # s
    BY <1>0, <1>1, <1>4, <2>2 DEF Start, Typed
  <2> QED
    BY <2>1, <2>2
<1>5. ASSUME NEW r \in Slots, ChatFails(r) PROVE TurnsFit(s)'
  <2>1. CASE r = s
    <3>1. history'[s] = SubSeq(history[s], 1, restore[s]) /\ calls' = calls
      BY <1>0, <1>5, <2>1 DEF ChatFails, Typed
    <3>2. restore[s] \in Nat /\ restore[s] <= Len(history[s])
      BY <1>0 DEF RoutingInv, RestoreFits, Typed
    <3>3. \A i \in DOMAIN history'[s] : i \in DOMAIN history[s] /\ history'[s][i] = history[s][i]
      BY <1>0, <3>1, <3>2
    <3> QED
      BY <1>0, <3>1, <3>3 DEF TurnsFit
  <2>2. CASE r # s
    BY <1>0, <1>1, <1>5, <2>2 DEF ChatFails, Typed
  <2> QED
    BY <2>1, <2>2
<1>6. ASSUME NEW r \in Slots, Chat(r) PROVE TurnsFit(s)'
  <2>1. CASE r = s
    <3>1. PICK reply \in Covers :
            /\ reply \in Readings(history[s]) \/ reply = Nothing
            /\ history'[s] \in {Append(history[s], Assistant(reply)), <<>>}
      BY <1>6, <2>1, ChatStep
    <3>2. Assistant(reply) \in Turns /\ Assistant(reply).covers = reply
      BY TurnsTyped DEF Assistant
    <3>3. \A d \in Docs : reply[d] <= calls
      BY <1>0, <3>1, ReplyBounded
    <3>4. calls' = calls
      BY <1>6 DEF Chat
    <3>5. CASE history'[s] = <<>>
      BY <3>5 DEF TurnsFit
    <3>6. CASE history'[s] = Append(history[s], Assistant(reply))
      BY <1>0, <3>2, <3>3, <3>4, <3>6, BoundedAppend DEF TurnsFit
    <3> QED
      BY <3>1, <3>5, <3>6
  <2>2. CASE r # s
    BY <1>0, <1>1, <1>6, <2>2 DEF Chat, Typed
  <2> QED
    BY <2>1, <2>2
<1>7. CASE Restart
  BY <1>7 DEF Restart, TurnsFit
<1>8. ASSUME UNCHANGED <<history, calls>> PROVE TurnsFit(s)'
  BY <1>1, <1>8
<1> QED
  BY <1>2, <1>3, <1>4, <1>5, <1>6, <1>7, <1>8
     DEF Next, Caller, Service, Handler, Save, SaveBehind, GiveUp, Route, Spawn, SpawnFails, Forget, Forward,
         Notice, NoTemplate, Retry, vars, taskVars

\* Every step keeps the question of the call among the revisions there are.
LEMMA QuestionNext == RoutingInv /\ HistoryInv /\ [Next]_vars => QuestionFits'
<1> SUFFICES ASSUME RoutingInv, HistoryInv, [Next]_vars PROVE QuestionFits'
  OBVIOUS
<1> USE DEF QuestionFits
<1>0. Typed /\ CallFits /\ QuestionFits
  BY DEF RoutingInv, HistoryInv
<1>1. ASSUME NEW t \in Targets, NEW changed \in SUBSET Docs \ {{}}, Synthesize(t, changed)
      PROVE  QuestionFits'
  <2>1. PICK prior \in Priors(t) :
          /\ call'.stage = "sent" /\ call'.prior = prior
          /\ call'.sources = [d \in Docs |-> IF d \in changed THEN calls + 1 ELSE 0]
    BY <1>1, NoCallTyped DEF Synthesize, NoCall
  <2>2. calls' = calls + 1 /\ calls \in Nat
    BY <1>0, <1>1, NumbersAssumption DEF Synthesize, Typed
  <2>3. \A d \in Docs : prior[d] <= calls /\ prior[d] \in Nat
    <3>1. prior \in Covers
      BY <1>0, <2>1, NothingIsCovers DEF Priors, Typed
    <3>2. \A d \in Docs : prior[d] <= calls
      BY <2>1, <2>2 DEF Priors, HistoryInv, DiskFits, Nothing
    <3> QED
      BY <3>1, <3>2, NumbersAssumption DEF Covers
  <2> QED
    BY <2>1, <2>2, <2>3
<1>2. ASSUME call'.stage \in {"none", "failed", "replied"} PROVE QuestionFits'
  BY <1>2
<1>3. ASSUME NextMessage(Request), NEW s \in Slots, ForwardTo(s), UNCHANGED calls,
             s \in Live' => owner'[s] = call.target
      PROVE  QuestionFits'
  <2>1. call.stage = "sent"
    BY <1>0, <1>3, TakeFirst DEF CallFits
  <2>2. /\ call'.stage = "forward" /\ call'.task = s /\ call'.target = call.target
        /\ call'.prior = call.prior /\ call'.sources = call.sources
    BY <1>0, <1>3 DEF ForwardTo, Typed, Calls
  <2> QED
    BY <1>0, <1>3, <2>1, <2>2
<1>4. CASE Route
  <2> DEFINE s == tasks[call.target]
  <2>1. call.target \in Targets
    BY <1>0, <1>4, TakeFirst DEF Route, CallFits
  <2>2. s \in Slots
    BY <1>0, <1>4, <2>1 DEF Route, Known, Typed
  <2>3. s \in Live' => owner'[s] = call.target
    <3>1. UNCHANGED <<phase, owner>>
      BY <1>4 DEF Route, taskVars
    <3>2. s \in Live => owner[s] \in Targets /\ tasks[owner[s]] = s
      BY <2>2 DEF RoutingInv, Held, Live
    <3> QED
      BY <2>1, <2>2, <3>1, <3>2 DEF HistoryInv, RoutesDiffer, Live
  <2> QED
    BY <1>3, <1>4, <2>2, <2>3 DEF Route
<1>5. ASSUME NEW s \in Slots, Spawn(s) PROVE QuestionFits'
  <2>1. owner'[s] = call.target
    BY <1>0, <1>5 DEF Spawn, Typed
  <2> QED
    BY <1>3, <1>5, <2>1 DEF Spawn
<1>6. CASE Forward
  <2>1. CASE call.task \in Live
    <3>1. /\ call'.stage = "delivered" /\ call'.task = call.task /\ call'.target = call.target
          /\ call'.prior = call.prior /\ call'.sources = call.sources
          /\ call.stage = "forward" /\ UNCHANGED <<owner, calls>>
      BY <1>0, <1>6, <2>1 DEF Forward, Typed, Calls
    <3> QED
      BY <1>0, <2>1, <3>1
  <2>2. CASE call.task \notin Live
    BY <1>2, <1>6, <2>2 DEF Forward, Fail, NoCall
  <2> QED
    BY <2>1, <2>2
\* Steps that leave the call alone and start no task.
<1>7. ASSUME UNCHANGED <<call, calls>>, Live' \subseteq Live,
             \A s \in Live' : owner'[s] = owner[s]
      PROVE  QuestionFits'
  BY <1>0, <1>7
<1>8. ASSUME NEW s \in Slots, Terminate(s) PROVE QuestionFits'
  <2>1. CASE phase[s] = "queued"
    BY <1>2, <1>8, <2>1 DEF Terminate, Fail, NoCall
  <2>2. CASE phase[s] = "idle"
    BY <1>0, <1>7, <1>8, <2>2 DEF Terminate, Live, Typed
  <2> QED
    BY <1>8, <2>1, <2>2 DEF Terminate
<1>9. ASSUME NEW s \in Slots, Notice(s) \/ Start(s) \/ Retry(s) PROVE QuestionFits'
  BY <1>0, <1>7, <1>9 DEF Notice, Start, Retry, Live, Typed
<1>10. ASSUME NEW s \in Slots, NoTemplate(s) \/ ChatFails(s) PROVE QuestionFits'
  BY <1>2, <1>10 DEF NoTemplate, ChatFails, Fail, NoCall
<1>11. ASSUME NEW s \in Slots, Chat(s) PROVE QuestionFits'
  BY <1>2, <1>11, ChatStep
<1>12. ASSUME NEW t \in Targets, Forget(t) PROVE QuestionFits'
  BY <1>0, <1>7, <1>12 DEF Forget, taskVars, Live
<1>13. CASE Caller \/ SpawnFails \/ Restart
  BY <1>2, <1>13 DEF Caller, Save, SaveBehind, GiveUp, SpawnFails, Restart, Fail, NoCall
<1>14. CASE UNCHANGED vars
  BY <1>0, <1>7, <1>14 DEF vars, taskVars, Live
<1> QED
  BY <1>1, <1>4, <1>5, <1>6, <1>8, <1>9, <1>10, <1>11, <1>12, <1>13, <1>14
     DEF Next, Service, Handler

\* Every step keeps the reply between the disk and the conversations.
LEMMA ReplyNext == RoutingInv /\ HistoryInv /\ [Next]_vars => ReplyFits'
<1> SUFFICES ASSUME RoutingInv, HistoryInv, [Next]_vars PROVE ReplyFits'
  OBVIOUS
<1> USE DEF ReplyFits
<1>0. Typed /\ CallFits /\ ReplyFits
  BY DEF RoutingInv, HistoryInv
<1>1. ASSUME call'.stage # "replied" PROVE ReplyFits'
  BY <1>1
\* Steps that leave the call alone and start no task.
<1>2. ASSUME UNCHANGED <<call, disk, blind, calls>>, Live' \subseteq Live,
             \A s \in Live' : owner'[s] = owner[s] /\ history'[s] = history[s]
      PROVE  ReplyFits'
  BY <1>0, <1>2
<1>3. ASSUME NEW s \in Slots, Chat(s) PROVE ReplyFits'
  <2>1. PICK reply \in Covers :
          /\ reply \in Readings(history[s]) \/ reply = Nothing
          /\ history'[s] \in {Append(history[s], Assistant(reply)), <<>>}
          /\ reply # Nothing => Settled(Append(history[s], Assistant(reply)), reply)
          /\ reply # Nothing => \A d \in Docs : reply[d] >= Base(s)[d]
          /\ call'.reply = reply /\ call'.target = call.target
    BY <1>3, ChatStep
  <2>2. /\ phase[s] = "chatting" /\ call.stage = "delivered" /\ call.task = s /\ s \in Live
        /\ UNCHANGED <<owner, disk, blind, calls, tasks>> /\ phase' = [phase EXCEPT ![s] = "idle"]
    BY <1>0, <1>3 DEF Chat, Leave, CallFits, Live
  <2>3. owner[s] = call.target
    BY <2>2 DEF HistoryInv, QuestionFits
  <2>4. \A d \in Docs : reply[d] <= calls
    <3>1. TurnsFit(s) /\ calls \in Nat
      BY <1>0, NumbersAssumption DEF HistoryInv, Typed
    <3> QED
      BY <2>1, <3>1, ReplyBounded
  <2>5. reply # Nothing => Settled(history'[s], reply)
    BY <2>1, SettledEmpty
  <2>6. \A r \in Live' : owner'[r] = call.target => r = s
    BY <1>0, <2>2, <2>3 DEF Live, Typed, RoutingInv, Held
  <2>7. \A d \in Docs : reply[d] \in Int /\ disk[call.target][d] \in Int
    <3>1. owner[s] \in Targets
      BY <2>2 DEF RoutingInv, Held
    <3> QED
      BY <1>0, <2>3, <3>1 DEF Typed, Covers
  <2>8. reply # Nothing /\ call.target \notin blind
            => \A d \in Docs : disk[call.target][d] <= reply[d]
    BY <2>1, <2>3, <2>7 DEF Base
  <2> QED
    BY <2>1, <2>2, <2>4, <2>5, <2>6, <2>8
<1>4. ASSUME NEW s \in Slots, Terminate(s) PROVE ReplyFits'
  <2>1. CASE phase[s] = "queued"
    BY <1>1, <1>4, <2>1 DEF Terminate, Fail, NoCall
  <2>2. CASE phase[s] = "idle"
    <3>1. /\ phase' = [phase EXCEPT ![s] = "ended"] /\ history' = [history EXCEPT ![s] = <<>>]
          /\ UNCHANGED <<call, disk, blind, calls, owner>>
      BY <1>4, <2>2 DEF Terminate
    <3> QED
      BY <1>0, <1>2, <3>1 DEF Live, Typed
  <2> QED
    BY <1>4, <2>1, <2>2 DEF Terminate
<1>5. ASSUME NEW s \in Slots, Notice(s) PROVE ReplyFits'
  BY <1>0, <1>2, <1>5 DEF Notice, Live, Typed
<1>6. ASSUME NEW s \in Slots, NoTemplate(s) \/ ChatFails(s) PROVE ReplyFits'
  BY <1>1, <1>6 DEF NoTemplate, ChatFails, Fail, NoCall
<1>7. ASSUME NEW s \in Slots, Start(s) \/ Retry(s) PROVE ReplyFits'
  <2>1. call.stage = "delivered" /\ call' = call
    BY <1>0, <1>7 DEF Start, Retry, CallFits
  <2> QED
    BY <1>1, <2>1
<1>8. ASSUME NextMessage(Request), NEW s, ForwardTo(s) PROVE ReplyFits'
  <2>1. call'.stage = "forward"
    BY <1>0, <1>8 DEF ForwardTo, Typed, Calls
  <2> QED
    BY <1>1, <2>1
<1>9. ASSUME NEW t \in Targets, Forget(t) PROVE ReplyFits'
  BY <1>0, <1>2, <1>9 DEF Forget, taskVars, Live
<1>10. CASE Forward
  <2>1. call'.stage \in {"delivered", "failed"}
    BY <1>0, <1>10 DEF Forward, Fail, NoCall, Typed, Calls
  <2> QED
    BY <1>1, <2>1
<1>11. CASE Caller \/ SpawnFails \/ Restart
  BY <1>1, <1>11 DEF Caller, Save, SaveBehind, GiveUp, SpawnFails, Restart, Fail, NoCall
<1>12. ASSUME NEW t \in Targets, NEW changed, Synthesize(t, changed) PROVE ReplyFits'
  BY <1>1, <1>12 DEF Synthesize, NoCall
<1>13. CASE UNCHANGED vars
  BY <1>0, <1>2, <1>13 DEF vars, taskVars, Live
<1> QED
  BY <1>3, <1>4, <1>5, <1>6, <1>7, <1>8, <1>9, <1>10, <1>11, <1>12, <1>13
     DEF Next, Service, Handler, Route, Spawn

\* The conversations stay newer than the summaries, in every state.
THEOREM Histories == Spec => [](RoutingInv /\ HistoryInv)
<1>1. Init => RoutingInv /\ HistoryInv
  BY RoutingInit, HistoryInit
<1>2. RoutingInv /\ HistoryInv /\ [Next]_vars => (RoutingInv /\ HistoryInv)'
  <2> SUFFICES ASSUME RoutingInv, HistoryInv, [Next]_vars PROVE RoutingInv' /\ HistoryInv'
    OBVIOUS
  <2>1. RoutingInv'
    BY TypedNext, RestoreNext, HeldNext, NoticesNext, CallNext DEF RoutingInv
  <2>2. HistoryInv'
    BY SlotNext, TurnsNext, RoutesNext, DiskNext, QuestionNext, ReplyNext DEF HistoryInv
  <2> QED
    BY <2>1, <2>2
<1> QED
  BY <1>1, <1>2, PTL DEF Spec

\* A failed call leaves no turn behind: between calls every conversation is a seed,
\* if any, and then questions with their answers.
THEOREM NoTurnDangles == Spec => []NoDanglingTurn
<1>1. RoutingInv /\ HistoryInv => NoDanglingTurn
  BY DEF HistoryInv, SlotFits, Settled, Alternates, NoDanglingTurn
<1> QED
  BY <1>1, Histories, PTL

\* No stored summary goes back to an older revision of a document, for any number
\* of targets, documents, calls, failures and restarts, but by the first reply of a
\* conversation that began without it because its folder could not be listed.
THEOREM NeverForgets == Spec => NothingForgotten
<1> DEFINE Kept == \A t \in Targets : t \notin blind => \A d \in Docs : disk'[t][d] >= disk[t][d]
<1>1. RoutingInv /\ HistoryInv /\ [Next]_vars => [Kept]_vars
  <2> SUFFICES ASSUME RoutingInv, HistoryInv, [Next]_vars PROVE Kept
    OBVIOUS
  <2>0. Typed /\ \A t \in Targets : \A d \in Docs : disk[t][d] \in Int
    BY DEF RoutingInv, Typed, Covers
  <2>1. CASE UNCHANGED disk
    BY <2>0, <2>1
  <2>2. CASE Save
    <3>1. call.stage = "replied"
      BY <2>2 DEF Save
    <3>2. CASE call.reply = Nothing
      BY <2>1, <2>2, <3>2 DEF Save
    <3>3. CASE call.reply # Nothing
      <4>1. call.target \notin blind =>
                \A d \in Docs : call.reply[d] \in Int /\ disk[call.target][d] <= call.reply[d]
        BY <2>0, <3>1, <3>3 DEF HistoryInv, ReplyFits, Typed, Calls, Covers
      <4>2. disk' = [disk EXCEPT ![call.target] = call.reply]
        BY <2>2, <3>3 DEF Save
      <4>3. \A t \in Targets : disk'[t] = IF t = call.target THEN call.reply ELSE disk[t]
        BY <2>0, <4>2 DEF Typed
      <4> QED
        BY <2>0, <4>1, <4>3
    <3> QED
      BY <3>2, <3>3
  <2> QED
    BY <2>1, <2>2
       DEF Next, Caller, Service, Handler, Synthesize, SaveBehind, GiveUp, Route, Spawn, SpawnFails, Forget,
           Forward, Terminate, Notice, NoTemplate, Start, Retry, ChatFails, Chat, Restart, vars
<1> QED
  BY <1>1, Histories, PTL DEF Spec, NothingForgotten
=============================================================================
