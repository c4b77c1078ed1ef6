---------------------------- MODULE StoresProofs -----------------------------
(* Proofs about the two stores a memory is in.  The files (StorageFiles),   *)
(* for any number of requests, memories, summaries and contents: the        *)
(* Storage actor is a set of atomic registers.  The index (MemoryIndex),    *)
(* for any paths, chunks, dimensions and faults: its tables agree, and its  *)
(* searches answer with the best rows.                                      *)
EXTENDS StorageFiles, MemoryIndex, TLAPS, SequenceTheorems, FiniteSetTheorems,
        WellFoundedInduction

\* The mailbox holds the requests that wait, each of them once.
Mailbox ==
    /\ \A i \in 1..Len(queue) : stage[queue[i]] = "queued"
    /\ \A i, j \in 1..Len(queue) : i # j => queue[i] # queue[j]

\* One message is handled at a time; so nobody else writes to the temp file of a write.
OneAtWork == \A o, q \in Ops : stage[o] \in AtWork /\ stage[q] \in AtWork => o = q

\* A request under way is one, a temp file is written for writes only, and an idle slot has
\* nothing left of its last request.
StageFits ==
    \A o \in Ops : /\ stage[o] \in {"queued"} \cup AtWork => req[o] \in Requests
                   /\ stage[o] \in {"open", "full"} => req[o].kind = "write"
                   /\ stage[o] = "idle" => /\ req[o] = NoRequest
                                           /\ reply[o] = "none" /\ got[o] = NoMemory

StorageInv == TypeOK /\ Mailbox /\ OneAtWork /\ StageFits
-----------------------------------------------------------------------------
\* No file but a temp file has the name of one.
LEMMA TempApart ==
  /\ \A p \in Paths : Temp(p) \notin Kept /\ Temp(p) \in Files /\ p \in Files
  /\ \A p \in Paths : p \notin Kept \/ Temp(p) # p
  /\ Kept \subseteq Paths
<1>1. ASSUME NEW p \in Paths PROVE Temp(p)[3] = "tmp" /\ Temp(p) \in Files /\ p \in Files
  BY <1>1 DEF Temp, Files
<1> QED BY <1>1 DEF Kept

\* A memory that is called by the name of a temp file is its own.
LEMMA OwnTemp == \A p \in Paths \ Kept : Temp(p) = p
<1>1. ASSUME NEW p \in RawPaths, p[3] = "tmp" PROVE Temp(p) = p
  BY <1>1 DEF RawPaths, RawPath, Temp
<1>2. ASSUME NEW p \in SummaryPaths PROVE p[3] = "md"
  BY <1>2 DEF SummaryPaths, SummaryPath
<1> QED BY <1>1, <1>2 DEF Paths, Kept

\* What a request is made of.
LEMMA RequestFits ==
  ASSUME NEW r \in Requests
  PROVE  /\ r.kind \in {"write", "read", "delete"} /\ r.path \in Paths
         /\ r.content \in Contents \cup {NoMemory}
         /\ r.kind # "write" => r.content = NoMemory
  BY DEF Requests

\* A slot that leaves the mailbox alone and was not in it before keeps the mailbox in order.
LEMMA MailboxStays ==
  ASSUME TypeOK, Mailbox, NEW o \in Ops, stage[o] # "queued", NEW next,
         stage' = [stage EXCEPT ![o] = next], UNCHANGED queue
  PROVE  Mailbox'
<1>1. \A i \in 1..Len(queue) : queue[i] \in Ops /\ queue[i] # o
  BY ElementOfSeq DEF TypeOK, Mailbox
<1> QED BY <1>1 DEF Mailbox, TypeOK

\* A slot that was at work and goes on or ends leaves nobody beside it.
LEMMA OneAtWorkStays ==
  ASSUME TypeOK, OneAtWork, NEW o \in Ops, NEW next,
         stage[o] \in AtWork \/ next \notin AtWork,
         stage' = [stage EXCEPT ![o] = next]
  PROVE  OneAtWork'
  BY DEF TypeOK, OneAtWork

\* An answer.
LEMMA AnswerKeeps ==
  ASSUME StorageInv, NEW o \in Ops, stage[o] \in AtWork,
         NEW result \in {"ok", "err"}, NEW value \in Contents \cup {NoMemory, Partial},
         Answer(o, result, value)
  PROVE  StorageInv'
<1>1. stage[o] # "queued" /\ "done" \notin AtWork
  BY DEF AtWork
<1>2. TypeOK'
  BY DEF StorageInv, TypeOK, Answer
<1>3. Mailbox' /\ OneAtWork'
  BY <1>1, MailboxStays, OneAtWorkStays DEF StorageInv, Answer
<1>4. StageFits'
  BY <1>1 DEF StorageInv, StageFits, Answer, TypeOK
<1> QED BY <1>2, <1>3, <1>4 DEF StorageInv

\* A call of the file system for the one request at work: it may write to any file, if it
\* leaves the full temp file of its own request as it must be.
LEMMA PutKeeps ==
  ASSUME StorageInv, NEW o \in Ops, stage[o] \in AtWork, req[o] \in Requests,
         NEW next \in AtWork, next \in {"open", "full"} => req[o].kind = "write",
         disk' \in [Files -> Contents \cup {NoMemory, Partial}],
         next = "full" => disk'[Temp(req[o].path)] = req[o].content,
         stage' = [stage EXCEPT ![o] = next],
         UNCHANGED <<queue, req, reply, got>>
  PROVE  StorageInv'
<1>1. \A q \in Ops : q # o => stage'[q] = stage[q] /\ stage[q] \notin AtWork
  BY DEF StorageInv, TypeOK, OneAtWork
<1>2. stage'[o] = next /\ stage[o] # "queued" /\ "full" \in AtWork
  BY DEF StorageInv, TypeOK, AtWork
<1>3. TypeOK'
  <2>1. stage' \in [Ops -> {"idle", "queued", "done"} \cup AtWork]
    BY DEF StorageInv, TypeOK
  <2>2. \A q \in Ops : stage'[q] = "full" => disk'[Temp(req'[q].path)] = req'[q].content
    BY <1>1, <1>2
  <2> QED BY <2>1, <2>2 DEF StorageInv, TypeOK
<1>4. Mailbox' /\ OneAtWork'
  BY <1>2, MailboxStays, OneAtWorkStays DEF StorageInv
<1>5. StageFits'
  <2>1. next # "idle"
    BY DEF AtWork
  <2>2. \A q \in Ops : q # o => /\ stage'[q] = stage[q] /\ req'[q] = req[q]
                                /\ reply'[q] = reply[q] /\ got'[q] = got[q]
    BY <1>1
  <2> QED BY <1>2, <2>1, <2>2 DEF StorageInv, StageFits
<1> QED BY <1>3, <1>4, <1>5 DEF StorageInv

LEMMA InitInv == Init => StorageInv
<1> SUFFICES ASSUME Init PROVE StorageInv
  OBVIOUS
<1>1. queue \in Seq(Ops) /\ Len(queue) = 0
  BY EmptySeq DEF Init
<1>2. \A o \in Ops : /\ stage[o] = "idle" /\ req[o] = NoRequest
                     /\ reply[o] = "none" /\ got[o] = NoMemory
  BY Zenon DEF Init
<1>3. TypeOK
  BY <1>1, <1>2 DEF Init, TypeOK
<1> QED BY <1>1, <1>2, <1>3 DEF StorageInv, Mailbox, OneAtWork, StageFits, AtWork

\* A message is sent.
LEMMA AskKeeps ==
  ASSUME StorageInv, NEW o \in Ops, Ask(o)
  PROVE  StorageInv'
<1>1. PICK r \in Requests : req' = [req EXCEPT ![o] = r]
  BY DEF Ask
<1>2. stage[o] = "idle" /\ stage' = [stage EXCEPT ![o] = "queued"]
      /\ queue' = Append(queue, o) /\ UNCHANGED <<disk, reply, got>>
  BY DEF Ask
<1>3. /\ queue' \in Seq(Ops) /\ Len(queue') = Len(queue) + 1 /\ Len(queue) \in Nat
      /\ \A i \in 1..Len(queue) : queue'[i] = queue[i]
      /\ queue'[Len(queue) + 1] = o
  BY <1>2, AppendProperties, LenProperties DEF StorageInv, TypeOK
<1>4. \A i \in 1..Len(queue) : queue[i] \in Ops /\ queue[i] # o
  BY <1>2, ElementOfSeq DEF StorageInv, TypeOK, Mailbox
<1>5. "queued" \notin AtWork /\ "full" # "queued" /\ "queued" \notin {"open", "full"}
  BY DEF AtWork
<1>6. TypeOK'
  <2>1. stage' \in [Ops -> {"idle", "queued", "done"} \cup AtWork]
    BY <1>2 DEF StorageInv, TypeOK
  <2>2. req' \in [Ops -> Requests \cup {NoRequest}]
    BY <1>1 DEF StorageInv, TypeOK
  <2>3. \A q \in Ops : stage'[q] = "full" => disk'[Temp(req'[q].path)] = req'[q].content
    BY <1>1, <1>2, <1>5 DEF StorageInv, TypeOK
  <2> QED BY <1>2, <1>3, <2>1, <2>2, <2>3 DEF StorageInv, TypeOK
<1>7. Mailbox'
  <2>1. \A i \in 1..Len(queue') : i \in 1..Len(queue) \/ i = Len(queue) + 1
    BY <1>3
  <2>2. \A i \in 1..Len(queue) : stage'[queue'[i]] = "queued"
    BY <1>2, <1>3, <1>4 DEF StorageInv, TypeOK, Mailbox
  <2>3. stage'[o] = "queued"
    BY <1>2 DEF StorageInv, TypeOK
  <2>4. \A i \in 1..Len(queue') : stage'[queue'[i]] = "queued"
    BY <1>3, <2>1, <2>2, <2>3
  <2>5. \A i, j \in 1..Len(queue') : i # j => queue'[i] # queue'[j]
    BY <1>3, <1>4, <2>1 DEF StorageInv, Mailbox
  <2> QED BY <2>4, <2>5 DEF Mailbox
<1>8. OneAtWork'
  BY <1>2, <1>5, OneAtWorkStays DEF StorageInv
<1>9. StageFits'
  BY <1>1, <1>2, <1>5 DEF StorageInv, StageFits, TypeOK
<1> QED BY <1>6, <1>7, <1>8, <1>9 DEF StorageInv

\* The first message is taken, when nobody is at work.
LEMMA TakeKeeps ==
  ASSUME StorageInv, NEW o \in Ops, Take(o)
  PROVE  StorageInv' /\ stage[o] = "queued"
<1>1. queue # <<>> /\ Head(queue) = o /\ queue' = Tail(queue)
      /\ stage' = [stage EXCEPT ![o] = "working"] /\ UNCHANGED <<disk, req, reply, got>>
  BY DEF Take
<1>2. /\ Len(queue) \in Nat \ {0} /\ queue[1] = o
      /\ queue' \in Seq(Ops) /\ Len(queue') = Len(queue) - 1
      /\ \A i \in 1..Len(queue') : queue'[i] = queue[i + 1]
  BY <1>1, HeadTailProperties, EmptySeq, LenProperties DEF StorageInv, TypeOK
<1>3. stage[o] = "queued"
  BY <1>2 DEF StorageInv, Mailbox
<1>4. \A q \in Ops : stage[q] \notin AtWork
  BY DEF Take, Alone
<1>5. "working" \in AtWork /\ "working" \notin {"open", "full"} /\ "full" \in AtWork
  BY DEF AtWork
<1>6. TypeOK'
  <2>1. stage' \in [Ops -> {"idle", "queued", "done"} \cup AtWork]
    BY <1>1, <1>5 DEF StorageInv, TypeOK
  <2>2. \A q \in Ops : stage'[q] # "full"
    BY <1>1, <1>4, <1>5 DEF StorageInv, TypeOK
  <2> QED BY <1>1, <1>2, <2>1, <2>2 DEF StorageInv, TypeOK
<1>7. Mailbox'
  <2>1. \A i \in 1..Len(queue') : i + 1 \in 1..Len(queue) /\ i + 1 # 1
    BY <1>2
  <2>2. \A i \in 1..Len(queue') :
           queue'[i] \in Ops /\ queue'[i] # o /\ stage[queue'[i]] = "queued"
    BY <1>2, <2>1, ElementOfSeq DEF StorageInv, TypeOK, Mailbox
  <2>3. \A i \in 1..Len(queue') : stage'[queue'[i]] = "queued"
    BY <1>1, <2>2 DEF StorageInv, TypeOK
  <2>4. \A i, j \in 1..Len(queue') : i # j => i + 1 # j + 1
    BY <1>2
  <2>5. \A i, j \in 1..Len(queue') : i # j => queue'[i] # queue'[j]
    BY <1>2, <2>1, <2>4 DEF StorageInv, Mailbox
  <2> QED BY <2>3, <2>5 DEF Mailbox
<1>8. OneAtWork'
  BY <1>1, <1>4 DEF StorageInv, TypeOK, OneAtWork
<1>9. StageFits'
  BY <1>1, <1>3, <1>5 DEF StorageInv, StageFits, TypeOK
<1> QED BY <1>3, <1>6, <1>7, <1>8, <1>9 DEF StorageInv

\* Every step keeps the invariant.
LEMMA StepKeeps ==
  ASSUME StorageInv, [Next]_vars
  PROVE  StorageInv'
<1>0. /\ {"working", "open", "full", "applied"} = AtWork
      /\ \A o \in Ops : stage[o] \in AtWork => req[o] \in Requests
  BY DEF AtWork, StorageInv, StageFits
<1>1. ASSUME NEW o \in Ops, Open(o) PROVE StorageInv'
  <2>1. stage[o] = "working" /\ req[o].kind = "write" /\ req[o] \in Requests
        /\ disk' = [disk EXCEPT ![Temp(req[o].path)] = Partial]
        /\ stage' = [stage EXCEPT ![o] = "open"] /\ UNCHANGED <<queue, req, reply, got>>
    BY <1>0, <1>1 DEF Open, Put
  <2>2. disk' \in [Files -> Contents \cup {NoMemory, Partial}]
    BY <2>1 DEF StorageInv, TypeOK
  <2> QED BY <1>0, <2>1, <2>2, PutKeeps
<1>2. ASSUME NEW o \in Ops, Fill(o) PROVE StorageInv'
  <2>1. stage[o] = "open" /\ req[o].kind = "write" /\ req[o] \in Requests
        /\ disk' = [disk EXCEPT ![Temp(req[o].path)] = req[o].content]
        /\ stage' = [stage EXCEPT ![o] = "full"] /\ UNCHANGED <<queue, req, reply, got>>
    BY <1>0, <1>2 DEF Fill, Put, StorageInv, StageFits
  <2>2. req[o].path \in Paths /\ req[o].content \in Contents \cup {NoMemory}
    BY <2>1, RequestFits
  <2>3. disk' \in [Files -> Contents \cup {NoMemory, Partial}]
        /\ disk'[Temp(req[o].path)] = req[o].content
    BY <2>1, <2>2, TempApart DEF StorageInv, TypeOK
  <2> QED BY <1>0, <2>1, <2>3, PutKeeps
<1>3. ASSUME NEW o \in Ops, Rename(o) PROVE StorageInv'
  <2>1. stage[o] = "full" /\ req[o] \in Requests
        /\ \/ disk' = disk
           \/ disk' = [disk EXCEPT ![req[o].path] = disk[Temp(req[o].path)],
                                   ![Temp(req[o].path)] = NoMemory]
        /\ stage' = [stage EXCEPT ![o] = "applied"] /\ UNCHANGED <<queue, req, reply, got>>
    BY <1>0, <1>3 DEF Rename
  <2>2. disk[Temp(req[o].path)] \in Contents \cup {NoMemory, Partial}
    BY <2>1, RequestFits, TempApart DEF StorageInv, TypeOK
  <2>3. disk' \in [Files -> Contents \cup {NoMemory, Partial}]
    BY <2>1, <2>2 DEF StorageInv, TypeOK
  <2> QED BY <1>0, <2>1, <2>3, PutKeeps
<1>4. ASSUME NEW o \in Ops, Remove(o) PROVE StorageInv'
  <2>1. stage[o] = "working" /\ req[o] \in Requests
        /\ disk' = [disk EXCEPT ![req[o].path] = NoMemory]
        /\ stage' = [stage EXCEPT ![o] = "applied"] /\ UNCHANGED <<queue, req, reply, got>>
    BY <1>0, <1>4 DEF Remove, Put
  <2>2. disk' \in [Files -> Contents \cup {NoMemory, Partial}]
    BY <2>1 DEF StorageInv, TypeOK
  <2> QED BY <1>0, <2>1, <2>2, PutKeeps
<1>5. ASSUME NEW o \in Ops, Read(o) PROVE StorageInv'
  <2>1. stage[o] \in AtWork /\ Answer(o, "ok", disk[req[o].path])
    BY <1>0, <1>5 DEF Read
  <2>2. disk[req[o].path] \in Contents \cup {NoMemory, Partial}
    BY <1>0, <2>1, RequestFits, TempApart DEF StorageInv, TypeOK
  <2> QED BY <2>1, <2>2, AnswerKeeps
<1>6. ASSUME NEW o \in Ops, Succeed(o) \/ Fail(o) PROVE StorageInv'
  BY <1>0, <1>6, AnswerKeeps DEF Succeed, Fail
<1>7. ASSUME NEW o \in Ops, Retire(o) PROVE StorageInv'
  <2>1. stage[o] # "queued" /\ "idle" \notin AtWork /\ "idle" # "queued" /\ "full" # "idle"
    BY <1>7 DEF Retire, AtWork
  <2>2. TypeOK'
    BY <1>7, <2>1 DEF Retire, StorageInv, TypeOK
  <2>3. Mailbox' /\ OneAtWork'
    BY <1>7, <2>1, MailboxStays, OneAtWorkStays DEF Retire, StorageInv
  <2>4. StageFits'
    BY <1>7, <2>1 DEF Retire, StorageInv, StageFits, TypeOK, AtWork
  <2> QED BY <2>2, <2>3, <2>4 DEF StorageInv
<1>8. CASE Crash
  <2>1. queue' \in Seq(Ops) /\ Len(queue') = 0
    BY <1>8, EmptySeq DEF Crash
  <2>2. \A o \in Ops : /\ stage'[o] = "idle" /\ req'[o] = NoRequest
                       /\ reply'[o] = "none" /\ got'[o] = NoMemory
    BY <1>8 DEF Crash
  <2>3. TypeOK'
    BY <1>8, <2>1, <2>2 DEF Crash, StorageInv, TypeOK
  <2> QED BY <2>1, <2>2, <2>3 DEF StorageInv, Mailbox, OneAtWork, StageFits, AtWork
<1>9. CASE UNCHANGED vars
  BY <1>9 DEF vars, StorageInv, TypeOK, Mailbox, OneAtWork, StageFits
<1> QED
  BY <1>1, <1>2, <1>3, <1>4, <1>5, <1>6, <1>7, <1>8, <1>9, AskKeeps, TakeKeeps DEF Next

\* The mailbox is in order, one message is handled at a time, and each stage of a request
\* fits what is asked (Storage's handlers).
THEOREM MailboxOrder == Spec => []StorageInv
  BY InitInv, StepKeeps, PTL DEF Spec

\* The variables have their types, and a temp file that is about to be renamed holds the
\* whole content of its request, whoever shares its name.
THEOREM TypeCorrect == Spec => []TypeOK
<1>1. StorageInv => TypeOK
  BY DEF StorageInv
<1> QED BY <1>1, MailboxOrder, PTL
-----------------------------------------------------------------------------
(* Refinement: Storage behaves as the registers of MemoryKV.                 *)

\* The refinement mapping by names of its parts.
Abstract(s) == IF s \in {"queued", "working", "open", "full"} THEN "open" ELSE s

Store == [p \in Kept |-> disk[p]]
AbstractStage == [o \in Ops |-> IF Foreign(o) THEN "idle" ELSE Abstract(stage[o])]
AbstractReq == [o \in Ops |-> IF Foreign(o) THEN NoRequest ELSE req[o]]
AbstractReply == [o \in Ops |-> IF Foreign(o) THEN "none" ELSE reply[o]]
AbstractGot == [o \in Ops |-> IF Foreign(o) THEN NoMemory ELSE got[o]]

LEMMA Mapping ==
  /\ Store = [p \in Kept |-> disk[p]]
  /\ AbstractStage = [o \in Ops |-> IF Foreign(o) THEN "idle"
                                    ELSE IF stage[o] \in {"queued", "working", "open", "full"}
                                    THEN "open" ELSE stage[o]]
  /\ AbstractReq = [o \in Ops |-> IF Foreign(o) THEN NoRequest ELSE req[o]]
  /\ AbstractReply = [o \in Ops |-> IF Foreign(o) THEN "none" ELSE reply[o]]
  /\ AbstractGot = [o \in Ops |-> IF Foreign(o) THEN NoMemory ELSE got[o]]
  BY DEF Store, AbstractStage, Abstract, AbstractReq, AbstractReply, AbstractGot

LEMMA MappingNext ==
  /\ Store' = [p \in Kept |-> disk'[p]]
  /\ AbstractStage' = [o \in Ops |-> IF Foreign(o)' THEN "idle"
                                     ELSE IF stage'[o] \in {"queued", "working", "open", "full"}
                                     THEN "open" ELSE stage'[o]]
  /\ AbstractReq' = [o \in Ops |-> IF Foreign(o)' THEN NoRequest ELSE req'[o]]
  /\ AbstractReply' = [o \in Ops |-> IF Foreign(o)' THEN "none" ELSE reply'[o]]
  /\ AbstractGot' = [o \in Ops |-> IF Foreign(o)' THEN NoMemory ELSE got'[o]]
  BY DEF Store, AbstractStage, Abstract, AbstractReq, AbstractReply, AbstractGot

\* A slot that shows nothing: of a request for a temp file, or without one.
Blank(o) == stage[o] = "idle" /\ req[o] = NoRequest /\ reply[o] = "none" /\ got[o] = NoMemory

\* A slot that shows nothing before a step and after it, while no register changes, makes
\* the step a stutter.
LEMMA Unseen ==
  ASSUME NEW o \in Ops, Foreign(o) \/ Blank(o), Foreign(o)' \/ Blank(o)',
         \A q \in Ops : q # o => /\ stage'[q] = stage[q] /\ req'[q] = req[q]
                                 /\ reply'[q] = reply[q] /\ got'[q] = got[q],
         \A p \in Kept : disk'[p] = disk[p]
  PROVE  UNCHANGED KV!vars
<1>1. \A q \in Ops : q # o => Foreign(q)' = Foreign(q)
  BY DEF Foreign
<1>2. AbstractStage' = AbstractStage
  BY <1>1 DEF AbstractStage, Abstract, Blank
<1>3. AbstractReq' = AbstractReq
  BY <1>1 DEF AbstractReq, Blank
<1>4. AbstractReply' = AbstractReply
  BY <1>1 DEF AbstractReply, Blank
<1>5. AbstractGot' = AbstractGot
  BY <1>1 DEF AbstractGot, Blank
<1>6. Store' = Store
  BY DEF Store
<1> QED BY <1>2, <1>3, <1>4, <1>5, <1>6, Mapping, MappingNext DEF KV!vars

\* The initial state maps to that of MemoryKV.
LEMMA InitMaps == Init => KV!Init
<1> SUFFICES ASSUME Init PROVE KV!Init
  OBVIOUS
<1>1. \A o \in Ops : ~Foreign(o)
  BY Zenon DEF Init, Foreign
<1>2. AbstractStage = [o \in Ops |-> "idle"] /\ AbstractReply = [o \in Ops |-> "none"]
      /\ AbstractGot = [o \in Ops |-> NoMemory]
  BY <1>1 DEF Init, AbstractStage, Abstract, AbstractReply, AbstractGot
<1>3. AbstractReq = [o \in Ops |-> NoRequest]
  BY <1>1, Zenon DEF Init, AbstractReq
<1>4. Store = [p \in Kept |-> NoMemory]
  BY TempApart DEF Init, Store
<1>5. KV!NoRequest = NoRequest
  BY DEF KV!NoRequest, NoRequest
<1> QED BY <1>2, <1>3, <1>4, <1>5, Mapping, Zenon DEF KV!Init

\* The step of a slot that shows its request: what it shows, and nothing else, changes.
LEMMA OneSlot ==
  ASSUME TypeOK, NEW o \in Ops, ~Foreign(o), UNCHANGED req
  PROVE  /\ ~Foreign(o)' /\ AbstractReq' = AbstractReq
         /\ AbstractStage[o] = Abstract(stage[o]) /\ AbstractReq[o] = req[o]
         /\ \A next : stage' = [stage EXCEPT ![o] = next]
                         => AbstractStage' = [AbstractStage EXCEPT ![o] = Abstract(next)]
         /\ UNCHANGED reply => AbstractReply' = AbstractReply
         /\ UNCHANGED got => AbstractGot' = AbstractGot
<1>1. \A q \in Ops : Foreign(q)' = Foreign(q)
  BY DEF Foreign
<1>2. AbstractReq' = AbstractReq /\ AbstractReq[o] = req[o]
  BY <1>1 DEF AbstractReq
<1>3. ASSUME NEW next, stage' = [stage EXCEPT ![o] = next]
      PROVE  AbstractStage' = [AbstractStage EXCEPT ![o] = Abstract(next)]
  BY <1>1, <1>3 DEF TypeOK, AbstractStage, Abstract
<1>4. UNCHANGED reply => AbstractReply' = AbstractReply
  BY <1>1 DEF AbstractReply
<1>5. UNCHANGED got => AbstractGot' = AbstractGot
  BY <1>1 DEF AbstractGot
<1>6. AbstractStage[o] = Abstract(stage[o])
  BY DEF AbstractStage
<1> QED BY <1>1, <1>2, <1>3, <1>4, <1>5, <1>6

\* A step that keeps a request between its arrival and the change of its file, and writes
\* to a temp file at most, is a stutter.
LEMMA InnerStepMaps ==
  ASSUME TypeOK, NEW o \in Ops, NEW next \in {"working", "open", "full"},
         stage[o] \in {"queued", "working", "open", "full"},
         stage' = [stage EXCEPT ![o] = next],
         \A p \in Kept : disk'[p] = disk[p],
         UNCHANGED <<req, reply, got>>
  PROVE  UNCHANGED KV!vars
<1>1. CASE Foreign(o)
  <2>1. Foreign(o)'
    BY <1>1 DEF Foreign
  <2>2. \A q \in Ops : q # o => stage'[q] = stage[q]
    BY DEF TypeOK
  <2> QED BY <1>1, <2>1, <2>2, Unseen
<1>2. CASE ~Foreign(o)
  <2>1. AbstractStage' = AbstractStage
    <3>1. AbstractStage' = [AbstractStage EXCEPT ![o] = Abstract(next)]
          /\ AbstractStage[o] = Abstract(stage[o])
      BY <1>2, OneSlot
    <3>2. Abstract(next) = "open" /\ Abstract(stage[o]) = "open"
      BY DEF Abstract
    <3> QED BY <3>1, <3>2 DEF AbstractStage
  <2>2. Store' = Store
    BY DEF Store
  <2> QED BY <1>2, <2>1, <2>2, OneSlot, Mapping, MappingNext DEF KV!vars
<1> QED BY <1>1, <1>2

\* An answer to a request for a temp file is not seen, ...
LEMMA AnswerUnseen ==
  ASSUME TypeOK, NEW o \in Ops, NEW result, NEW value, Answer(o, result, value), Foreign(o)
  PROVE  UNCHANGED KV!vars
<1>1. Foreign(o)'
  BY DEF Answer, Foreign
<1>2. \A q \in Ops : q # o => /\ stage'[q] = stage[q] /\ req'[q] = req[q]
                              /\ reply'[q] = reply[q] /\ got'[q] = got[q]
  BY DEF Answer, TypeOK
<1>3. disk' = disk
  BY DEF Answer
<1> QED BY <1>1, <1>2, <1>3, Unseen

\* ... and one to another request is an answer.
LEMMA AnswerParts ==
  ASSUME TypeOK, NEW o \in Ops, NEW result, NEW value, Answer(o, result, value), ~Foreign(o)
  PROVE  /\ AbstractStage' = [AbstractStage EXCEPT ![o] = "done"]
         /\ AbstractReply' = [AbstractReply EXCEPT ![o] = result]
         /\ AbstractGot' = [AbstractGot EXCEPT ![o] = value]
         /\ AbstractReq' = AbstractReq /\ Store' = Store
<1>0. UNCHANGED <<disk, req>> /\ stage' = [stage EXCEPT ![o] = "done"]
  BY DEF Answer
<1>1. AbstractStage' = [AbstractStage EXCEPT ![o] = "done"] /\ AbstractReq' = AbstractReq
  BY <1>0, OneSlot DEF Abstract
<1>2. \A q \in Ops : Foreign(q)' = Foreign(q)
  BY <1>0 DEF Foreign
<1>3. AbstractReply' = [AbstractReply EXCEPT ![o] = result]
  BY <1>2 DEF Answer, TypeOK, AbstractReply
<1>4. AbstractGot' = [AbstractGot EXCEPT ![o] = value]
  BY <1>2 DEF Answer, TypeOK, AbstractGot
<1>5. Store' = Store
  BY <1>0 DEF Store
<1> QED BY <1>1, <1>3, <1>4, <1>5

LEMMA AnswerMaps ==
  ASSUME TypeOK, NEW o \in Ops, NEW result, NEW value, Answer(o, result, value), ~Foreign(o)
  PROVE  KV!Answer(o, result, value)
<1>1. /\ AbstractStage' = [AbstractStage EXCEPT ![o] = "done"]
      /\ AbstractReply' = [AbstractReply EXCEPT ![o] = result]
      /\ AbstractGot' = [AbstractGot EXCEPT ![o] = value]
      /\ AbstractReq' = AbstractReq /\ Store' = Store
  BY AnswerParts
<1> QED BY <1>1, Mapping, MappingNext DEF KV!Answer

\* The rename of a write and the removal of a delete are the instant they take effect.
LEMMA FileStepMaps ==
  ASSUME TypeOK, NEW o \in Ops, stage[o] \in {"working", "full"},
         req[o] \in Requests, req[o].kind \in {"write", "delete"}, ~Foreign(o),
         stage' = [stage EXCEPT ![o] = "applied"],
         \A p \in Kept : disk'[p] = IF p = req[o].path THEN req[o].content ELSE disk[p],
         UNCHANGED <<req, reply, got>>
  PROVE  KV!Apply(o)
<1>1. AbstractStage' = [AbstractStage EXCEPT ![o] = "applied"] /\ AbstractStage[o] = "open"
  BY OneSlot DEF Abstract
<1>2. AbstractReq' = AbstractReq /\ AbstractReq[o] = req[o]
      /\ AbstractReply' = AbstractReply /\ AbstractGot' = AbstractGot
  BY OneSlot
<1>3. Store' = [Store EXCEPT ![req[o].path] = req[o].content]
  BY DEF Store
<1> QED BY <1>1, <1>2, <1>3, Mapping, MappingNext DEF KV!Apply

\* A request is sent.
LEMMA AskMaps ==
  ASSUME StorageInv, NEW o \in Ops, Ask(o)
  PROVE  [KV!Next]_(KV!vars)
<1>0. TypeOK /\ stage[o] = "idle" /\ Blank(o)
  BY DEF StorageInv, StageFits, Ask, Blank
<1>1. PICK r \in Requests : req' = [req EXCEPT ![o] = r]
  BY DEF Ask
<1>2. /\ \A q \in Ops : q # o => stage'[q] = stage[q] /\ req'[q] = req[q]
      /\ req'[o] = r /\ UNCHANGED <<disk, reply, got>>
      /\ stage' = [stage EXCEPT ![o] = "queued"] /\ stage'[o] = "queued"
  BY <1>0, <1>1 DEF Ask, TypeOK
<1>3. ~Foreign(o) /\ NoRequest \notin Requests
  BY <1>0 DEF Blank, Foreign, NoRequest, Requests
<1>4. CASE r.path \notin Kept
  <2>1. Foreign(o)'
    BY <1>2, <1>3, <1>4 DEF Foreign
  <2> QED BY <1>0, <1>2, <2>1, Unseen
<1>5. CASE r.path \in Kept
  <2>1. r \in KV!Requests
    BY <1>5 DEF Requests, KV!Requests
  <2>2. \A q \in Ops : Foreign(q)' = (q # o /\ Foreign(q))
    BY <1>2, <1>3, <1>5 DEF Foreign
  <2>3. AbstractStage' = [AbstractStage EXCEPT ![o] = "open"] /\ AbstractStage[o] = "idle"
    BY <1>0, <1>2, <1>3, <2>2 DEF AbstractStage, Abstract
  <2>4. AbstractReq' = [AbstractReq EXCEPT ![o] = r]
    BY <1>2, <2>2 DEF AbstractReq
  <2>5. AbstractReply' = AbstractReply /\ AbstractGot' = AbstractGot /\ Store' = Store
    BY <1>2, <1>3, <2>2 DEF AbstractReply, AbstractGot, Store
  <2>6. KV!Invoke(o, r)
    BY <2>3, <2>4, <2>5, Mapping, MappingNext DEF KV!Invoke
  <2> QED BY <2>1, <2>6 DEF KV!Next
<1> QED BY <1>4, <1>5

\* A slot is done with its request.
LEMMA RetireMaps ==
  ASSUME StorageInv, NEW o \in Ops, Retire(o)
  PROVE  KV!Retire(o) \/ UNCHANGED KV!vars
<1>0. TypeOK /\ stage[o] = "done" /\ UNCHANGED disk
  BY DEF StorageInv, Retire
<1>1. /\ \A q \in Ops : q # o => /\ stage'[q] = stage[q] /\ req'[q] = req[q]
                                 /\ reply'[q] = reply[q] /\ got'[q] = got[q]
      /\ Blank(o)'
  BY <1>0 DEF Retire, TypeOK, Blank
<1>2. CASE Foreign(o)
  BY <1>0, <1>1, <1>2, Unseen
<1>3. CASE ~Foreign(o)
  <2>1. \A q \in Ops : Foreign(q)' = Foreign(q)
    BY <1>1, <1>3 DEF Foreign, Blank
  <2>2. AbstractStage' = [AbstractStage EXCEPT ![o] = "idle"] /\ AbstractStage[o] = "done"
    BY <1>0, <1>1, <1>3, <2>1 DEF AbstractStage, Abstract, Blank
  <2>3. AbstractReq' = [AbstractReq EXCEPT ![o] = NoRequest]
    BY <1>1, <1>3, <2>1 DEF AbstractReq, Blank
  <2>4. /\ AbstractReply' = [AbstractReply EXCEPT ![o] = "none"]
        /\ AbstractGot' = [AbstractGot EXCEPT ![o] = NoMemory]
    BY <1>1, <1>3, <2>1 DEF AbstractReply, AbstractGot, Blank
  <2>5. Store' = Store /\ KV!NoRequest = NoRequest
    BY <1>0 DEF Store, KV!NoRequest, NoRequest
  <2> QED BY <2>2, <2>3, <2>4, <2>5, Mapping, MappingNext DEF KV!Retire
<1> QED BY <1>2, <1>3

\* Every step maps to an abstract step or to a stutter.
LEMMA StepMaps ==
  ASSUME StorageInv, [Next]_vars
  PROVE  [KV!Next]_(KV!vars)
<1>0. /\ TypeOK
      /\ \A o \in Ops : stage[o] \in AtWork => req[o] \in Requests
      /\ \A o \in Ops : stage[o] \in {"open", "full"} => req[o].kind = "write"
      /\ {"working", "open", "full", "applied"} = AtWork
      /\ NoRequest \notin Requests
  BY DEF StorageInv, StageFits, AtWork, NoRequest, Requests
<1>1. \A o \in Ops : stage[o] \in AtWork /\ ~Foreign(o) => req[o].path \in Kept
  BY <1>0 DEF Foreign
<1>2. ASSUME NEW o \in Ops, Take(o) PROVE UNCHANGED KV!vars
  <2>1. stage[o] = "queued"
    BY <1>2, TakeKeeps
  <2> QED BY <1>0, <1>2, <2>1, InnerStepMaps DEF Take
<1>3. ASSUME NEW o \in Ops, Open(o) \/ Fill(o) PROVE UNCHANGED KV!vars
  <2>1. stage[o] \in {"working", "open"} /\ req[o].path \in Paths
    BY <1>0, <1>3, RequestFits DEF Open, Fill
  <2>2. \A p \in Kept : disk'[p] = disk[p]
    BY <1>0, <1>3, <2>1, TempApart DEF Open, Fill, Put, TypeOK
  <2> QED BY <1>0, <1>3, <2>1, <2>2, InnerStepMaps DEF Open, Fill, Put
<1>4. ASSUME NEW o \in Ops, Rename(o) PROVE KV!Apply(o) \/ UNCHANGED KV!vars
  <2>1. stage[o] = "full" /\ req[o] \in Requests /\ req[o].kind = "write"
        /\ req[o].path \in Paths /\ disk[Temp(req[o].path)] = req[o].content
        /\ stage' = [stage EXCEPT ![o] = "applied"] /\ UNCHANGED <<req, reply, got>>
    BY <1>0, <1>4, RequestFits DEF Rename, TypeOK
  <2>2. Temp(req[o].path) \notin Kept /\ Temp(req[o].path) \in Files /\ req[o].path \in Files
    BY <2>1, TempApart
  <2>3. CASE ~Foreign(o)
    <3>1. req[o].path \in Kept
      BY <1>0, <1>1, <2>1, <2>3
    <3>2. \A p \in Kept : disk'[p] = IF p = req[o].path THEN req[o].content ELSE disk[p]
      BY <1>0, <1>4, <2>1, <2>2, <3>1, TempApart DEF Rename, TypeOK
    <3> QED BY <1>0, <2>1, <2>3, <3>2, FileStepMaps
  <2>4. CASE Foreign(o)
    <3>1. disk' = disk
      BY <1>4, <2>1, <2>4, OwnTemp DEF Rename, Foreign
    <3>2. Foreign(o)' /\ \A q \in Ops : q # o => stage'[q] = stage[q]
      BY <1>0, <2>1, <2>4 DEF Foreign, TypeOK
    <3> QED BY <2>1, <2>4, <3>1, <3>2, Unseen
  <2> QED BY <2>3, <2>4
<1>5. ASSUME NEW o \in Ops, Remove(o) PROVE KV!Apply(o) \/ UNCHANGED KV!vars
  <2>1. stage[o] = "working" /\ req[o] \in Requests /\ req[o].kind = "delete"
        /\ req[o].path \in Paths /\ req[o].content = NoMemory
        /\ stage' = [stage EXCEPT ![o] = "applied"] /\ UNCHANGED <<req, reply, got>>
    BY <1>0, <1>5, RequestFits DEF Remove, Put
  <2>2. \A p \in Kept : disk'[p] = IF p = req[o].path THEN req[o].content ELSE disk[p]
    BY <1>0, <1>5, <2>1, TempApart DEF Remove, Put, TypeOK
  <2>3. CASE ~Foreign(o)
    BY <1>0, <2>1, <2>2, <2>3, FileStepMaps
  <2>4. CASE Foreign(o)
    <3>1. \A p \in Kept : disk'[p] = disk[p]
      BY <2>2, <2>4 DEF Foreign
    <3>2. Foreign(o)' /\ \A q \in Ops : q # o => stage'[q] = stage[q]
      BY <1>0, <2>1, <2>4 DEF Foreign, TypeOK
    <3> QED BY <2>1, <2>4, <3>1, <3>2, Unseen
  <2> QED BY <2>3, <2>4
<1>6. ASSUME NEW o \in Ops, Read(o) PROVE KV!Read(o) \/ UNCHANGED KV!vars
  <2>1. stage[o] = "working" /\ req[o].kind = "read" /\ Answer(o, "ok", disk[req[o].path])
    BY <1>6 DEF Read
  <2>2. CASE ~Foreign(o)
    <3>1. req[o].path \in Kept /\ UNCHANGED req
      BY <1>0, <1>1, <2>1, <2>2 DEF Answer
    <3>2. Store[req[o].path] = disk[req[o].path]
      BY <3>1 DEF Store
    <3>3. AbstractStage[o] = "open" /\ AbstractReq[o] = req[o]
      BY <1>0, <2>1, <2>2, <3>1, OneSlot DEF Abstract
    <3>4. PICK value : value = disk[req[o].path]
      OBVIOUS
    <3>5. /\ AbstractStage' = [AbstractStage EXCEPT ![o] = "done"]
          /\ AbstractReply' = [AbstractReply EXCEPT ![o] = "ok"]
          /\ AbstractGot' = [AbstractGot EXCEPT ![o] = value]
          /\ AbstractReq' = AbstractReq /\ Store' = Store
      BY <1>0, <2>1, <2>2, <3>4, AnswerParts
    <3>6. AbstractReq[o].kind = "read" /\ value = Store[AbstractReq[o].path]
      BY <2>1, <3>2, <3>3, <3>4
    <3> QED BY <3>3, <3>5, <3>6, Mapping, MappingNext DEF KV!Read, KV!Answer
  <2>3. CASE Foreign(o)
    BY <1>0, <2>1, <2>3, AnswerUnseen
  <2> QED BY <2>2, <2>3
<1>7. ASSUME NEW o \in Ops, Succeed(o) \/ Fail(o)
      PROVE  KV!Succeed(o) \/ KV!Fail(o) \/ UNCHANGED KV!vars
  <2>1. PICK result \in {"ok", "err"} :
           /\ Answer(o, result, NoMemory)
           /\ \/ result = "ok" /\ stage[o] = "applied"
              \/ result = "err" /\ stage[o] \in {"working", "open", "full"}
    BY <1>7 DEF Succeed, Fail
  <2>2. CASE ~Foreign(o)
    <3>1. KV!Answer(o, result, NoMemory)
      BY <1>0, <2>1, <2>2, AnswerMaps
    <3>2. AbstractStage[o] = Abstract(stage[o])
      BY <2>2 DEF AbstractStage
    <3> QED BY <2>1, <3>1, <3>2, Mapping DEF KV!Succeed, KV!Fail, Abstract
  <2>3. CASE Foreign(o)
    BY <1>0, <2>1, <2>3, AnswerUnseen
  <2> QED BY <2>2, <2>3
<1>8. CASE Crash
  <2>1. \A o \in Ops : ~Foreign(o)'
    BY <1>8 DEF Crash, Foreign
  <2>2. /\ AbstractStage' = [o \in Ops |-> "idle"] /\ Store' = Store
        /\ AbstractReply' = [o \in Ops |-> "none"] /\ AbstractGot' = [o \in Ops |-> NoMemory]
    BY <1>8, <2>1 DEF Crash, AbstractStage, Abstract, AbstractReply, AbstractGot, Store
  <2>3. AbstractReq' = [o \in Ops |-> NoRequest] /\ KV!NoRequest = NoRequest
    BY <1>8, <2>1 DEF Crash, AbstractReq, KV!NoRequest, NoRequest
  <2>4. KV!Halt
    BY <2>2, <2>3, Mapping, MappingNext DEF KV!Halt
  <2> QED BY <2>4 DEF KV!Next
<1>9. CASE UNCHANGED vars
  <2>1. \A o \in Ops : Foreign(o)' = Foreign(o)
    BY <1>9 DEF vars, Foreign
  <2> QED BY <1>9, <2>1, Mapping, MappingNext DEF vars, KV!vars
<1> QED
  BY <1>2, <1>3, <1>4, <1>5, <1>6, <1>7, <1>8, <1>9, AskMaps, RetireMaps DEF Next, KV!Next

\* Storage is a set of atomic registers, one for each name that is no temp file, under every
\* failure, crash and order of requests, those for temp files included.
THEOREM Refinement == Spec => ImplementsKV
<1>1. StorageInv /\ [Next]_vars => [KV!Next]_(KV!vars)
  BY StepMaps
<1> QED BY InitMaps, MailboxOrder, <1>1, PTL DEF Spec, ImplementsKV, KV!Spec
-----------------------------------------------------------------------------
(* The index.                                                               *)

Searching == [stage : Stages, scope : Scopes, raw : BOOLEAN,
              embeddings : SUBSET Points, result : SUBSET Rows, blind : BOOLEAN]

\* TablesAgree needs to know what the tables and the dimensions are.
IndexInv == IndexTypeOK /\ TablesAgree
-----------------------------------------------------------------------------
\* A file without chunks.
LEMMA EmptyText == <<>> \in Texts
<1>1. <<>> \in Seq(Points) /\ Len(<<>>) = 0
  BY EmptySeq
<1>2. <<>> \in [1..0 -> Points]
  BY <1>1, LenProperties
<1>3. 0 \in 0..MaxChunks
  BY NumbersAssumption
<1> QED BY <1>2, <1>3 DEF Texts

\* The rows of a table are rows.
LEMMA RowsTyped ==
  ASSUME NEW t \in [IndexedPaths -> Texts]
  PROVE  RowsOf(t) \subseteq Rows
<1> SUFFICES ASSUME NEW p \in IndexedPaths, NEW i \in DOMAIN t[p] PROVE <<p, i>> \in Rows
  BY DEF RowsOf
<1>1. PICK n \in 0..MaxChunks : t[p] \in [1..n -> Points]
  BY DEF Texts
<1>2. i \in 1..MaxChunks
  BY <1>1, NumbersAssumption
<1> QED BY <1>2 DEF Rows

\* A table has no rows exactly when none of its files has chunks.
LEMMA NoRows ==
  ASSUME NEW t \in [IndexedPaths -> Texts]
  PROVE  RowsOf(t) # {} => \E p \in IndexedPaths : t[p] # <<>>
<1> SUFFICES ASSUME NEW p \in IndexedPaths, NEW i \in DOMAIN t[p], t[p] = <<>> PROVE FALSE
  BY DEF RowsOf
<1>1. DOMAIN <<>> = {}
  OBVIOUS
<1> QED BY <1>1

\* What a search finds are rows of the index.
LEMMA AnswersAreRows ==
  ASSUME NEW result \in Answers
  PROVE  result \subseteq RowsOf(vec)
<1>1. PICK found \in [search.embeddings -> SUBSET RowsOf(vec)] :
         result \subseteq {r \in Merged(found) : Matches(r)}
  BY DEF Answers
<1>2. Merged(found) \subseteq RowsOf(vec)
  BY DEF Merged
<1> QED BY <1>1, <1>2

LEMMA InitIndex == IndexInit => IndexInv
<1> SUFFICES ASSUME IndexInit PROVE IndexInv
  OBVIOUS
<1>1. search \in Searching /\ search.stage = "idle"
  BY DEF IndexInit, Idle, Searching, Stages, Scopes
<1>2. chunks \in [IndexedPaths -> Texts] /\ vec = chunks /\ \A p \in IndexedPaths : chunks[p] = <<>>
  BY EmptyText DEF IndexInit
<1>3. RowsOf(chunks) = {}
  BY <1>2, NoRows
<1>4. IndexTypeOK
  BY <1>1, <1>2 DEF IndexInit, IndexTypeOK, Searching
<1>5. TablesAgree
  BY <1>2, <1>3 DEF TablesAgree
<1> QED BY <1>4, <1>5 DEF IndexInv

\* The record, if there is one, is a dimension, and so is what the table is created with.
LEMMA EnsuredTyped ==
  ASSUME IndexTypeOK
  PROVE  Ensured(table) \in Dims /\ Ensured(table) # NoDim /\ (table # NoDim => Ensured(table) = table)
  BY DimsAssumption DEF IndexTypeOK, Ensured

\* Dimensions change, but a table that is there stays, and so does a record.
LEMMA OnlyDims ==
  ASSUME IndexInv, UNCHANGED tables, table' \in Dims \cup {NoDim}, meta' \in Dims \cup {NoDim},
         dim' \in Dims, search' \in Searching,
         search'.stage = "query" => Cardinality(search'.embeddings) \in 1..MaxEmbeddings,
         table # NoDim => table' # NoDim, meta # NoDim => meta' # NoDim,
         stayed' \subseteq IndexedPaths
  PROVE  IndexInv'
<1>1. UNCHANGED <<files, chunks, vec>> /\ RowsOf(chunks)' = RowsOf(chunks)
  BY DEF tables, RowsOf
<1>2. IndexTypeOK'
  BY <1>1 DEF IndexInv, IndexTypeOK, Searching
<1>3. TablesAgree'
  BY <1>1 DEF IndexInv, TablesAgree
<1> QED BY <1>2, <1>3 DEF IndexInv

\* A step of a search.
LEMMA SearchStep ==
  ASSUME IndexInv, Asks \/ Searches
  PROVE  IndexInv'
<1>0. /\ search \in Searching /\ stayed \subseteq IndexedPaths /\ dim \in Dims
      /\ table \in Dims \cup {NoDim} /\ meta \in Dims \cup {NoDim}
      /\ search.stage = "query" => Cardinality(search.embeddings) \in 1..MaxEmbeddings
  BY DEF IndexInv, IndexTypeOK, Searching
<1>1. UNCHANGED <<tables, table, meta, dim>>
  BY Zenon DEF Asks, AskSearch, Searches, CheckEmpty, Embedded, EmbedFails, Query, QueryBlind, SearchFails, Reply
<1>2. Idle \in Searching /\ [Idle EXCEPT !.stage = "failed"] \in Searching
      /\ Idle.stage # "query" /\ [Idle EXCEPT !.stage = "failed"].stage # "query"
  BY DEF Idle, Searching, Stages, Scopes
<1>3. ASSUME search' \in Searching, stayed' \subseteq IndexedPaths,
             search'.stage = "query" => Cardinality(search'.embeddings) \in 1..MaxEmbeddings
      PROVE  IndexInv'
  BY <1>0, <1>1, <1>3, OnlyDims
<1>4. ASSUME NEW scope \in Scopes, NEW raw \in BOOLEAN, AskSearch(scope, raw) PROVE IndexInv'
  <2>1. search' \in Searching /\ search'.stage = "check"
    BY <1>2, <1>4 DEF AskSearch, Idle, Searching, Stages
  <2>2. stayed' \subseteq IndexedPaths
    BY <1>4 DEF AskSearch
  <2> QED BY <1>3, <2>1, <2>2
<1>5. CASE CheckEmpty
  <2>1. [Idle EXCEPT !.stage = "done"] \in Searching
        /\ [Idle EXCEPT !.stage = "done"].stage # "query"
    BY DEF Idle, Searching, Stages, Scopes
  <2>2. [search EXCEPT !.stage = "embed"] \in Searching
        /\ [search EXCEPT !.stage = "embed"].stage # "query"
    BY <1>0 DEF Searching, Stages
  <2> QED BY <1>0, <1>3, <1>5, <2>1, <2>2 DEF CheckEmpty
<1>6. CASE Embedded
  <2>1. PICK points \in SUBSET Points :
           /\ Cardinality(points) \in 1..MaxEmbeddings
           /\ search' = [search EXCEPT !.stage = "query", !.embeddings = points]
    BY <1>6, Zenon DEF Embedded
  <2>2. search' \in Searching /\ search'.embeddings = points /\ stayed' = stayed
    BY <1>0, <1>6, <2>1 DEF Embedded, Searching, Stages
  <2> QED BY <1>0, <1>3, <2>1, <2>2
<1>7. CASE EmbedFails \/ SearchFails
  <2>1. search' = [Idle EXCEPT !.stage = "failed"] /\ stayed' = stayed
    BY <1>7 DEF EmbedFails, SearchFails
  <2> QED BY <1>0, <1>2, <1>3, <2>1
<1>8. CASE QueryBlind
  <2>1. search' \in Searching /\ search'.stage = "done" /\ stayed' = stayed
    BY <1>8 DEF QueryBlind, Idle, Searching, Stages, Scopes
  <2> QED BY <1>0, <1>3, <2>1
<1>9. CASE Query
  <2>1. stayed' = stayed
    BY <1>9, Zenon DEF Query
  <2>2. CASE \E result \in IF table = NoDim THEN {{}} ELSE Answers :
                search' = [Idle EXCEPT !.stage = "done", !.result = result]
    <3>1. PICK result \in IF table = NoDim THEN {{}} ELSE Answers :
                search' = [Idle EXCEPT !.stage = "done", !.result = result]
      BY <2>2, Zenon
    <3>2. RowsOf(vec) \subseteq Rows
      BY RowsTyped DEF IndexInv, IndexTypeOK, TablesAgree
    <3>3. result \subseteq Rows
      BY <3>1, <3>2, AnswersAreRows
    <3>4. search' \in Searching /\ search'.stage = "done"
      BY <3>1, <3>3 DEF Idle, Searching, Stages, Scopes
    <3> QED BY <1>0, <1>3, <2>1, <3>4
  <2>3. CASE search' = [Idle EXCEPT !.stage = "failed"]
    BY <1>0, <1>2, <1>3, <2>1, <2>3
  <2> QED BY <1>9, <2>2, <2>3, Zenon DEF Query
<1>10. CASE Reply
  <2>1. search' = Idle /\ stayed' = {}
    BY <1>10 DEF Reply
  <2> QED BY <1>2, <1>3, <2>1
<1> QED BY <1>4, <1>5, <1>6, <1>7, <1>8, <1>9, <1>10 DEF Asks, Searches

\* An insert or a delete that is committed.
LEMMA ChangeStep ==
  ASSUME IndexInv, Changes
  PROVE  IndexInv'
<1>0. /\ chunks \in [IndexedPaths -> Texts] /\ vec = chunks /\ files \subseteq IndexedPaths
      /\ dim \in Dims /\ NoDim \notin Dims /\ stayed \subseteq IndexedPaths
  BY DimsAssumption DEF IndexInv, IndexTypeOK, TablesAgree
<1>1. ASSUME NEW p \in IndexedPaths, IndexDelete(p) PROVE IndexInv'
  <2>1. /\ chunks' = [chunks EXCEPT ![p] = <<>>] /\ vec' = chunks' /\ files' = files \ {p}
        /\ UNCHANGED <<table, meta, dim, search>> /\ stayed' \subseteq stayed
    BY <1>0, <1>1 DEF IndexDelete, Stay
  <2>2. chunks' \in [IndexedPaths -> Texts]
    BY <1>0, <2>1, EmptyText
  <2>3. IndexTypeOK'
    BY <1>0, <2>1, <2>2 DEF IndexInv, IndexTypeOK
  <2>4. RowsOf(chunks') # {} => RowsOf(chunks) # {}
    <3>1. ASSUME RowsOf(chunks') # {} PROVE RowsOf(chunks) # {}
      <4>0. PICK q \in IndexedPaths : DOMAIN chunks'[q] # {}
        BY <3>1 DEF RowsOf
      <4>1. PICK i \in DOMAIN chunks'[q] : TRUE
        BY <4>0
      <4>2. CASE q = p
        <5>1. chunks'[q] = <<>> /\ DOMAIN <<>> = {}
          BY <1>0, <2>1, <4>2
        <5> QED BY <4>1, <5>1
      <4>3. CASE q # p
        <5>1. <<q, i>> \in RowsOf(chunks)
          BY <1>0, <2>1, <4>1, <4>3 DEF RowsOf
        <5> QED BY <5>1
      <4> QED BY <4>2, <4>3
    <3> QED BY <3>1
  <2>5. TablesAgree'
    <3>1. \A q \in IndexedPaths : chunks'[q] # <<>> => q \in files'
      BY <1>0, <2>1 DEF IndexInv, TablesAgree
    <3> QED BY <2>1, <2>4, <3>1 DEF IndexInv, TablesAgree
  <2> QED BY <2>3, <2>5 DEF IndexInv
<1>2. ASSUME NEW p \in IndexedPaths, NEW texts \in Texts, IndexInsert(p, texts) PROVE IndexInv'
  <2>1. /\ chunks' = [chunks EXCEPT ![p] = texts] /\ vec' = chunks' /\ files' = files \cup {p}
        /\ UNCHANGED <<dim, search>> /\ stayed' \subseteq stayed
    BY <1>0, <1>2 DEF IndexInsert, Replace, Stay
  <2>2. chunks' \in [IndexedPaths -> Texts]
    BY <1>0, <2>1
  <2>3. \/ texts = <<>> /\ UNCHANGED <<table, meta>>
        \/ texts # <<>> /\ table' = dim /\ meta' = dim
    BY <1>2 DEF IndexInsert, VecReady
  <2>4. IndexTypeOK'
    BY <1>0, <2>1, <2>2, <2>3 DEF IndexInv, IndexTypeOK
  <2>5. texts = <<>> /\ RowsOf(chunks') # {} => RowsOf(chunks) # {}
    <3>1. ASSUME texts = <<>>, RowsOf(chunks') # {} PROVE RowsOf(chunks) # {}
      <4>0. PICK q \in IndexedPaths : DOMAIN chunks'[q] # {}
        BY <3>1 DEF RowsOf
      <4>1. PICK i \in DOMAIN chunks'[q] : TRUE
        BY <4>0
      <4>2. CASE q = p
        <5>1. chunks'[q] = <<>> /\ DOMAIN <<>> = {}
          BY <1>0, <2>1, <3>1, <4>2
        <5> QED BY <4>1, <5>1
      <4>3. CASE q # p
        <5>1. <<q, i>> \in RowsOf(chunks)
          BY <1>0, <2>1, <4>1, <4>3 DEF RowsOf
        <5> QED BY <5>1
      <4> QED BY <4>2, <4>3
    <3> QED BY <3>1
  <2>6. TablesAgree'
    <3>1. \A q \in IndexedPaths : chunks'[q] # <<>> => q \in files'
      BY <1>0, <2>1 DEF IndexInv, TablesAgree
    <3>2. RowsOf(chunks') # {} => table' # NoDim /\ meta' # NoDim
      BY <1>0, <2>3, <2>5 DEF IndexInv, TablesAgree
    <3> QED BY <2>1, <3>1, <3>2 DEF TablesAgree
  <2> QED BY <2>4, <2>6 DEF IndexInv
<1> QED BY <1>1, <1>2 DEF Changes

\* Every step keeps the tables in agreement.
LEMMA IndexStep ==
  ASSUME IndexInv, [IndexNext]_indexVars
  PROVE  IndexInv'
<1>0. /\ search \in Searching /\ stayed \subseteq IndexedPaths /\ dim \in Dims /\ NoDim \notin Dims
      /\ table \in Dims \cup {NoDim} /\ meta \in Dims \cup {NoDim} /\ IndexTypeOK
      /\ search.stage = "query" => Cardinality(search.embeddings) \in 1..MaxEmbeddings
  BY DimsAssumption DEF IndexInv, IndexTypeOK, Searching
<1>1. CASE Changes
  BY <1>1, ChangeStep
<1>2. CASE Asks \/ Searches
  BY <1>2, SearchStep
<1>3. CASE InsertRollsBack
  <2>1. table' = Ensured(table) /\ meta' = dim /\ UNCHANGED <<tables, dim, search, stayed>>
    BY <1>3 DEF InsertRollsBack
  <2> QED BY <1>0, <2>1, EnsuredTyped, OnlyDims
<1>4. CASE RecordFails
  <2>1. table' = Ensured(table) /\ UNCHANGED <<tables, meta, dim, search, stayed>>
    BY <1>4 DEF RecordFails
  <2> QED BY <1>0, <2>1, EnsuredTyped, OnlyDims
<1>5. CASE Reopen
  <2>1. /\ dim' \in Dims /\ search' = Idle /\ stayed' = {} /\ UNCHANGED <<tables, meta>>
        /\ table' \in IF table = NoDim THEN Recorded ELSE {table}
    BY <1>5 DEF Reopen
  <2>2. table' \in Dims \cup {NoDim} /\ (table # NoDim => table' # NoDim)
    BY <1>0, <2>1 DEF Recorded
  <2>3. Idle \in Searching /\ Idle.stage # "query"
    BY DEF Idle, Searching, Stages, Scopes
  <2> QED BY <1>0, <2>1, <2>2, <2>3, OnlyDims
<1>6. CASE DimensionMismatch \/ UNCHANGED indexVars
  <2>1. UNCHANGED <<tables, table, meta, dim, search, stayed>>
    BY <1>6 DEF DimensionMismatch, indexVars
  <2> QED BY <1>0, <2>1, OnlyDims
<1> QED BY <1>1, <1>2, <1>3, <1>4, <1>5, <1>6 DEF IndexNext, Refusals

LEMMA IndexAlways == IndexSpec => []IndexInv
  BY InitIndex, IndexStep, PTL DEF IndexSpec

\* The variables have their types; a search that queries has embeddings to query for.
THEOREM IndexTypeCorrect == IndexSpec => []IndexTypeOK
<1>1. IndexInv => IndexTypeOK
  BY DEF IndexInv
<1> QED BY <1>1, IndexAlways, PTL

\* Chunks and vectors agree after every order of inserts, deletes, failures, restarts and
\* changes of the dimension, and where there is a chunk there is a table and a record.
THEOREM TablesAlwaysAgree == IndexSpec => []TablesAgree
<1>1. IndexInv => TablesAgree
  BY DEF IndexInv
<1> QED BY <1>1, IndexAlways, PTL
-----------------------------------------------------------------------------
(* What a search answers.                                                   *)

\* A table has finitely many rows.
LEMMA RowsFinite ==
  ASSUME NEW t \in [IndexedPaths -> Texts]
  PROVE  IsFiniteSet(RowsOf(t))
<1>1. IsFiniteSet(1..MaxChunks)
  BY FS_Interval, NumbersAssumption
<1>2. IsFiniteSet(Rows)
  BY <1>1, FS_Product, PathsAssumption DEF Rows
<1> QED BY <1>2, RowsTyped, FS_Subset

\* The distance of a row from an embedding is that of two points.
LEMMA DistanceTyped ==
  ASSUME IndexInv, NEW r \in RowsOf(vec), NEW e \in Points
  PROVE  Distance(r, e) \in Points
<1>1. PICK p \in IndexedPaths : \E j \in DOMAIN vec[p] : r = <<p, j>>
  BY DEF RowsOf
<1>2. vec[p] \in Texts
  BY DEF IndexInv, IndexTypeOK, TablesAgree
<1>3. PICK n \in 0..MaxChunks : vec[p] \in [1..n -> Points]
  BY <1>2 DEF Texts
<1>4. PICK j \in DOMAIN vec[p] : r = <<p, j>>
  BY <1>1
<1>5. vec[p][j] \in Points
  BY <1>3
<1> QED BY <1>4, <1>5, NumbersAssumption DEF Distance, Points

\* Among some embeddings one is nearest to a row.
LEMMA OneIsNearest ==
  ASSUME IndexInv, NEW r \in RowsOf(vec), NEW E \in SUBSET Points, E # {}
  PROVE  \E e \in E : \A f \in E : Distance(r, e) <= Distance(r, f)
<1> DEFINE D == {Distance(r, e) : e \in E}
           Less == {ss \in Nat \X Nat : ss[1] < ss[2]}
<1>1. IsWellFoundedOn(Less, Nat)
  BY NatLessThanWellFounded DEF OpToRel
<1>2. \A e \in E : Distance(r, e) \in Nat
  BY DistanceTyped, NumbersAssumption DEF Points
<1>3. D \subseteq Nat /\ D # {}
  BY <1>2
<1>4. \E x \in D : \A y \in D : ~(<<y, x>> \in Less)
  <2> HIDE DEF D, Less
  <2> QED BY <1>1, <1>3, WFMin
<1>5. PICK e \in E : \A y \in D : ~(<<y, Distance(r, e)>> \in Less)
  BY <1>4
<1>6. ASSUME NEW f \in E PROVE Distance(r, e) <= Distance(r, f)
  <2>1. Distance(r, f) \in D /\ Distance(r, f) \in Nat /\ Distance(r, e) \in Nat
    BY <1>2
  <2>2. ~(<<Distance(r, f), Distance(r, e)>> \in Less)
    BY <1>5, <2>1
  <2>3. \A m, n \in Nat : m < n => <<m, n>> \in Less
    OBVIOUS
  <2>4. ~(Distance(r, f) < Distance(r, e))
    <3> HIDE DEF Less
    <3> QED BY <2>1, <2>2, <2>3
  <2> QED BY <2>1, <2>4
<1> QED BY <1>6
-----------------------------------------------------------------------------
\* What a search has fetched for its embeddings.
Fetched(found) == /\ found \in [search.embeddings -> SUBSET RowsOf(vec)]
                  /\ \A e \in search.embeddings : found[e] \in Nearest(e, FetchK)

\* What a search answers with, given what it has fetched.
Chosen(result, found) ==
    LET rows == {r \in Merged(found) : Matches(r)}
    IN  /\ result \subseteq rows
        /\ Cardinality(result) <= Limit
        /\ Cardinality(result) < Limit => result = rows
        /\ \A r \in result, o \in rows \ result : \A a, b \in Points :
              Found(a, r, found) /\ Found(b, o, found) => a <= b

\* An answer comes from some rows fetched.
LEMMA AnswersAreChosen ==
  ASSUME NEW result \in Answers
  PROVE  \E found : Fetched(found) /\ Chosen(result, found)
  BY DEF Answers, Fetched, Chosen

\* For one embedding, as many rows are fetched as allowed, or all there are.
LEMMA FetchedEnough ==
  ASSUME IndexInv, NEW found, Fetched(found), NEW e \in search.embeddings
  PROVE  /\ found[e] \subseteq RowsOf(vec)
         /\ IsFiniteSet(found[e]) /\ Cardinality(found[e]) \in Nat
         /\ found[e] = RowsOf(vec) \/ Cardinality(found[e]) = FetchK
         /\ Regular => \A r \in found[e], o \in RowsOf(vec) \ found[e] :
                          Distance(r, e) <= Distance(o, e)
<1>1. found[e] \in Nearest(e, FetchK)
  BY DEF Fetched
<1>2. /\ found[e] \subseteq RowsOf(vec)
      /\ Cardinality(found[e]) <= FetchK
      /\ Cardinality(found[e]) < FetchK => found[e] = RowsOf(vec)
      /\ Regular => \A r \in found[e], o \in RowsOf(vec) \ found[e] :
                       Distance(r, e) <= Distance(o, e)
  BY <1>1 DEF Nearest
<1>3. IsFiniteSet(RowsOf(vec))
  BY RowsFinite DEF IndexInv, IndexTypeOK, TablesAgree
<1>4. IsFiniteSet(found[e]) /\ Cardinality(found[e]) \in Nat
  BY <1>2, <1>3, FS_Subset, FS_CardinalityType
<1>5. FetchK \in Nat
  BY NumbersAssumption DEF FetchK
<1> QED BY <1>2, <1>4, <1>5

\* A row that was fetched was found at some distance, that of one of the embeddings it
\* was fetched for, and no farther than for any of them.
LEMMA FoundSomewhere ==
  ASSUME IndexInv, NEW found, Fetched(found), NEW r \in Merged(found)
  PROVE  \E a \in Points : Found(a, r, found)
<1> DEFINE E == {e \in search.embeddings : r \in found[e] /\ Rated(r, e)}
<1>1. search.embeddings \subseteq Points
  BY DEF IndexInv, IndexTypeOK
<1>2. E \in SUBSET Points /\ E # {} /\ r \in RowsOf(vec)
  BY <1>1 DEF Merged, Fetched
<1>3. PICK e \in E : \A f \in E : Distance(r, e) <= Distance(r, f)
  <2> HIDE DEF E
  <2> QED BY <1>2, OneIsNearest
<1>4. Distance(r, e) \in Points /\ \A f \in E : Distance(r, f) \in Points
  BY <1>2, DistanceTyped
<1>5. Found(Distance(r, e), r, found)
  BY <1>3, <1>4, NumbersAssumption DEF Found, Points
<1> QED BY <1>4, <1>5

\* A query without distances finds nothing.
LEMMA NoneIsBest ==
  ASSUME Good = {}, NEW found, NEW result, Chosen(result, found)
  PROVE  result = {} /\ Matching = {}
<1>1. \A r : \A e \in search.embeddings : ~Rated(r, e)
  BY DEF Good, Rated
<1> QED BY <1>1 DEF Chosen, Merged, Matching

\* A search answers with what it can see: the rows of the answer are finitely many.
LEMMA ChosenFinite ==
  ASSUME IndexInv, NEW found, Fetched(found), NEW result, Chosen(result, found)
  PROVE  /\ result \subseteq RowsOf(vec) /\ IsFiniteSet(RowsOf(vec))
         /\ IsFiniteSet(result) /\ Cardinality(result) \in Nat
<1>1. result \subseteq RowsOf(vec)
  BY DEF Chosen, Merged, Fetched
<1>2. IsFiniteSet(RowsOf(vec))
  BY RowsFinite DEF IndexInv, IndexTypeOK, TablesAgree
<1> QED BY <1>1, <1>2, FS_Subset, FS_CardinalityType

\* A set is larger than a part of it that lacks an element.
LEMMA NoRoomForMore ==
  ASSUME NEW S, IsFiniteSet(S), NEW T \in SUBSET S, NEW r \in S \ T
  PROVE  Cardinality(T) < Cardinality(S)
<1>1. Cardinality(T) <= Cardinality(S) /\ (Cardinality(S) = Cardinality(T) => S = T)
  BY FS_Subset
<1>2. Cardinality(T) \in Nat /\ Cardinality(S) \in Nat
  BY FS_Subset, FS_CardinalityType
<1> QED BY <1>1, <1>2
-----------------------------------------------------------------------------
\* A search of everything fetches enough for each embedding: no row left out is nearer
\* than one in the answer.
LEMMA AllIsBest ==
  ASSUME IndexInv, search.scope = "all", ~search.raw, Good # {}, Regular,
         NEW found, Fetched(found), NEW result, Chosen(result, found)
  PROVE  /\ BestOf(Matching, result)
         /\ Cardinality(result) = Limit \/ result = Matching
<1> DEFINE All == RowsOf(vec)
           E == Good
<1>0. /\ Limit \in Nat \ {0} /\ FetchK = Limit /\ E \subseteq Points /\ vec = chunks
      /\ E \subseteq search.embeddings /\ \A x \in Points : x \in Int
  BY NumbersAssumption DEF FetchK, IndexInv, IndexTypeOK, TablesAgree, Points, Good
<1>r. \A r \in All, e \in E : Rated(r, e)
  BY DEF Regular, Rated, Good
<1>1. Matching = All /\ \A r : Matches(r)
  <2>1. \A r : Matches(r)
    BY DEF Matches
  <2>2. \A r \in All : \E e \in search.embeddings : Rated(r, e)
    BY <1>0, <1>r
  <2> QED BY <1>0, <2>1, <2>2 DEF Matching
<1>2. /\ result \subseteq Merged(found) /\ Cardinality(result) <= Limit
      /\ Cardinality(result) < Limit => result = Merged(found)
      /\ \A r \in result, o \in Merged(found) \ result : \A a, b \in Points :
            Found(a, r, found) /\ Found(b, o, found) => a <= b
  BY <1>1 DEF Chosen
<1>3. /\ result \subseteq All /\ IsFiniteSet(result) /\ Cardinality(result) \in Nat
  BY ChosenFinite
<1>4. \A e \in E : found[e] \subseteq Merged(found)
  <2>1. \A e \in E : found[e] \subseteq All
    BY <1>0, FetchedEnough
  <2> QED BY <1>0, <1>r, <2>1 DEF Merged
<1>5. Cardinality(result) = Limit \/ result = Matching
  <2> SUFFICES ASSUME Cardinality(result) # Limit PROVE result = All
    BY <1>1
  <2>1. result = Merged(found) /\ Cardinality(result) < Limit
    BY <1>0, <1>2, <1>3
  <2>2. PICK e \in E : TRUE
    OBVIOUS
  <2>3. found[e] \subseteq result
    BY <1>4, <2>1
  <2>4. Cardinality(found[e]) <= Cardinality(result)
    BY <1>3, <2>3, FS_Subset
  <2>5. found[e] = All \/ Cardinality(found[e]) = Limit
    BY <1>0, FetchedEnough
  <2>6. ~(Limit <= Cardinality(result))
    BY <1>0, <1>3, <2>1
  <2>7. found[e] = All
    BY <2>4, <2>5, <2>6
  <2> QED BY <1>3, <2>3, <2>7
<1>6. ASSUME NEW r \in result, NEW o \in All \ result PROVE AsNear(r, o)
  <2>0. \A e \in E : Distance(r, e) \in Points /\ Distance(o, e) \in Points
    BY <1>0, <1>3, <1>6, DistanceTyped
  <2>1. PICK e \in E : \A f \in E : Distance(r, e) <= Distance(r, f)
    BY <1>0, <1>3, <1>6, OneIsNearest
  <2>2. SUFFICES ASSUME NEW f \in E, ~(Distance(r, e) <= Distance(o, f)) PROVE FALSE
    BY <1>6, <2>1 DEF AsNear, Nearness
  <2>3. Distance(o, f) < Distance(r, e) /\ \A g \in E : Distance(o, f) < Distance(r, g)
    BY <1>0, <2>0, <2>1, <2>2
  <2>4. PICK a \in Points : Found(a, r, found)
    BY <1>2, <1>6, FoundSomewhere
  <2>5. Distance(o, f) < a
    <3>1. PICK g \in search.embeddings : Rated(r, g) /\ Distance(r, g) = a
      BY <2>4 DEF Found
    <3>2. g \in E
      BY <3>1 DEF Rated, Good
    <3> QED BY <2>3, <3>1, <3>2
  \* Whatever was fetched for f is nearer than r, and would come before it.
  <2>6. ASSUME NEW x \in found[f], Distance(x, f) <= Distance(o, f) PROVE x \in result
    <3>1. SUFFICES ASSUME x \notin result PROVE FALSE
      OBVIOUS
    <3>2. x \in Merged(found) /\ x \in All
      BY <1>0, <1>4, <2>6, FetchedEnough
    <3>3. PICK b \in Points : Found(b, x, found)
      BY <3>2, FoundSomewhere
    <3>4. b <= Distance(x, f)
      BY <1>0, <1>r, <2>6, <3>2, <3>3 DEF Found
    <3>5. a <= b
      BY <1>2, <1>6, <2>4, <3>1, <3>2, <3>3
    <3>6. Distance(x, f) \in Points
      BY <1>0, <3>2, DistanceTyped
    <3> QED BY <1>0, <2>0, <2>5, <2>6, <3>4, <3>5, <3>6
  <2>7. CASE o \in found[f]
    <3>1. Distance(o, f) <= Distance(o, f)
      BY <1>0, <2>0
    <3> QED BY <1>6, <2>6, <2>7, <3>1
  <2>8. CASE o \notin found[f]
    <3>1. /\ IsFiniteSet(found[f]) /\ Cardinality(found[f]) = Limit
          /\ \A x \in found[f] : Distance(x, f) <= Distance(o, f)
      BY <1>0, <1>6, <2>8, FetchedEnough
    <3>2. found[f] \subseteq result
      BY <2>6, <3>1
    <3>3. r \notin found[f]
      BY <1>0, <2>0, <2>3, <3>1
    <3>4. Cardinality(found[f]) < Cardinality(result)
      BY <1>3, <1>6, <3>2, <3>3, NoRoomForMore
    <3> QED BY <1>0, <1>2, <1>3, <3>1, <3>4
  <2> QED BY <2>7, <2>8
<1>7. BestOf(Matching, result)
  BY <1>1, <1>3, <1>6 DEF BestOf
<1> QED BY <1>5, <1>7

\* A filtered search for one embedding has fetched the nearest rows before it dropped
\* strangers, and enough of them for a full answer when strangers are few.
LEMMA OneIsBest ==
  ASSUME IndexInv, Cardinality(search.embeddings) = 1, Good # {},
         NEW found, Fetched(found), NEW result, Chosen(result, found)
  PROVE  /\ result \subseteq Matching
         /\ Regular => BestOf(Matching, result)
         /\ search.scope # "all" /\ Cardinality(RowsOf(chunks) \ Matching) <= Limit * (Overfetch - 1)
               => Cardinality(result) = Limit \/ result = Matching
<1> DEFINE All == RowsOf(vec)
<1>0. /\ Limit \in Nat \ {0} /\ Overfetch \in Nat \ {0} /\ search.embeddings \subseteq Points
      /\ vec = chunks /\ \A x \in Points : x \in Int
  BY NumbersAssumption DEF IndexInv, IndexTypeOK, TablesAgree, Points
<1>1. PICK e : search.embeddings = {e}
  <2>1. IsFiniteSet(Points)
    BY FS_Interval, NumbersAssumption DEF Points
  <2>2. IsFiniteSet(search.embeddings)
    BY <1>0, <2>1, FS_Subset
  <2> QED BY <2>2, FS_Singleton
<1> DEFINE F == found[e]
<1>2. /\ F \subseteq All /\ IsFiniteSet(F) /\ (F = All \/ Cardinality(F) = FetchK)
      /\ Regular => \A r \in F, o \in All \ F : Distance(r, e) <= Distance(o, e)
  BY <1>1, FetchedEnough
<1>3. Merged(found) = {r \in F : Rated(r, e)} /\ Good = {e}
  BY <1>1 DEF Merged, Good
<1>4. Matching = {r \in All : Matches(r) /\ Rated(r, e)}
  BY <1>0, <1>1 DEF Matching
<1>5. /\ result \subseteq F \cap Matching
      /\ Cardinality(result) <= Limit
      /\ Cardinality(result) < Limit => result = F \cap Matching
      /\ \A r \in result, o \in (F \cap Matching) \ result : \A a, b \in Points :
            Found(a, r, found) /\ Found(b, o, found) => a <= b
  <2>1. {r \in Merged(found) : Matches(r)} = F \cap Matching
    BY <1>2, <1>3, <1>4
  <2> QED BY <2>1 DEF Chosen
<1>6. ASSUME NEW x \in F \cap Matching
      PROVE  Distance(x, e) \in Points /\ Found(Distance(x, e), x, found)
  <2>1. Distance(x, e) \in Points
    BY <1>0, <1>1, <1>2, <1>6, DistanceTyped
  <2> QED BY <1>0, <1>1, <1>4, <1>6, <2>1 DEF Found
<1>7. ASSUME Regular, NEW r \in result, NEW o \in Matching \ result PROVE AsNear(r, o)
  <2>1. Distance(r, e) <= Distance(o, e)
    <3>1. CASE o \in F
      BY <1>5, <1>6, <1>7, <3>1
    <3>2. CASE o \notin F
      BY <1>2, <1>4, <1>5, <1>7, <3>2
    <3> QED BY <3>1, <3>2
  <2>2. Distance(r, e) <= Distance(r, e)
    BY <1>0, <1>5, <1>6, <1>7
  <2> QED BY <1>3, <2>1, <2>2 DEF AsNear, Nearness
<1>8. result \subseteq Matching /\ (Regular => BestOf(Matching, result))
  BY <1>5, <1>7 DEF BestOf
<1>9. ASSUME search.scope # "all", Cardinality(All \ Matching) <= Limit * (Overfetch - 1),
             Cardinality(result) # Limit
      PROVE  result = Matching
  <2>0. IsFiniteSet(All) /\ Cardinality(result) \in Nat
    BY ChosenFinite
  <2>1. result = F \cap Matching /\ Cardinality(result) < Limit
    BY <1>0, <1>5, <1>9, <2>0
  <2>2. CASE F = All
    BY <1>4, <2>1, <2>2
  <2>3. CASE Cardinality(F) = FetchK
    <3>1. FetchK = Limit * Overfetch
      BY <1>9 DEF FetchK
    <3>2. /\ IsFiniteSet(F \ Matching)
          /\ Cardinality(F \ Matching) = Cardinality(F) - Cardinality(F \cap Matching)
      BY <1>2, FS_Difference
    <3>3. Cardinality(F \ Matching) <= Cardinality(All \ Matching)
      <4>1. IsFiniteSet(All \ Matching)
        BY <2>0, FS_Difference
      <4>2. F \ Matching \in SUBSET (All \ Matching)
        BY <1>2
      <4> QED BY <4>1, <4>2, FS_Subset
    <3>4. Cardinality(All \ Matching) \in Nat /\ Cardinality(F \ Matching) \in Nat
      BY <2>0, <3>2, FS_Difference, FS_CardinalityType
    <3>5. Limit * Overfetch - Cardinality(result) <= Limit * (Overfetch - 1)
      BY <1>0, <1>9, <2>0, <2>1, <2>3, <3>1, <3>2, <3>3, <3>4
    <3>6. Limit * (Overfetch - 1) = Limit * Overfetch - Limit /\ Limit * Overfetch \in Int
      BY <1>0
    <3> QED BY <1>0, <2>0, <2>1, <3>5, <3>6
  <2> QED BY <1>2, <2>2, <2>3
<1> QED BY <1>0, <1>8, <1>9

\* An answer with room for all rows has all that match.
LEMMA RoomForAll ==
  ASSUME IndexInv, Good # {}, Cardinality(RowsOf(chunks)) <= Limit,
         NEW found, Fetched(found), NEW result, Chosen(result, found)
  PROVE  \A p \in IndexedPaths : \A i \in DOMAIN chunks[p] :
            Matches(<<p, i>>) /\ chunks[p][i] \notin Degenerate => <<p, i>> \in result
<1> DEFINE All == RowsOf(chunks)
<1>0. Limit \in Nat \ {0} /\ Overfetch \in Nat \ {0} /\ vec = chunks
  BY NumbersAssumption DEF IndexInv, TablesAgree
<1>1. Limit <= FetchK /\ FetchK \in Nat
  <2>1. Limit <= Limit * Overfetch /\ Limit * Overfetch \in Nat
    <3>1. \A m, n \in Nat : n # 0 => m <= m * n /\ m * n \in Nat
      OBVIOUS
    <3> QED BY <1>0, <3>1
  <2> QED BY <1>0, <2>1 DEF FetchK
<1>2. /\ result \subseteq All /\ IsFiniteSet(All) /\ IsFiniteSet(result)
      /\ Cardinality(result) \in Nat /\ Cardinality(All) \in Nat
  BY <1>0, ChosenFinite, FS_CardinalityType
<1>3. PICK e \in search.embeddings : e \notin Degenerate
  BY DEF Good
<1>4. found[e] = All
  <2>1. found[e] \subseteq All /\ (found[e] = All \/ Cardinality(found[e]) = FetchK)
    BY <1>0, FetchedEnough
  <2>2. ASSUME found[e] # All PROVE FALSE
    <3>1. Cardinality(found[e]) < Cardinality(All)
      <4>1. PICK r \in All : r \notin found[e]
        BY <2>1, <2>2
      <4> QED BY <1>2, <2>1, <4>1, NoRoomForMore
    <3> QED BY <1>0, <1>1, <1>2, <2>1, <2>2, <3>1
  <2> QED BY <2>2
<1> SUFFICES ASSUME NEW p \in IndexedPaths, NEW i \in DOMAIN chunks[p],
                    Matches(<<p, i>>), chunks[p][i] \notin Degenerate
             PROVE  <<p, i>> \in result
  OBVIOUS
<1>r. <<p, i>> \in All
  BY DEF RowsOf
<1>5. <<p, i>> \in {x \in Merged(found) : Matches(x)}
  <2>1. Rated(<<p, i>>, e)
    BY <1>0, <1>3 DEF Rated
  <2> QED BY <1>3, <1>4, <1>r, <2>1 DEF Merged
<1>6. CASE Cardinality(result) < Limit
  BY <1>5, <1>6 DEF Chosen
<1>7. CASE ~(Cardinality(result) < Limit)
  <2>1. Cardinality(result) = Cardinality(All)
    <3>1. Cardinality(result) <= Cardinality(All)
      BY <1>2, FS_Subset
    <3> QED BY <1>0, <1>2, <1>7, <3>1
  <2>2. result = All
    BY <1>2, <2>1, FS_Subset
  <2> QED BY <1>r, <2>2
<1> QED BY <1>6, <1>7
-----------------------------------------------------------------------------
\* Every step of the index answers as it should: what answers is a query.
LEMMA StepAnswers ==
  ASSUME IndexInv, [IndexNext]_indexVars
  PROVE  AllIsExact /\ ScopedIsBest /\ FindsWhatStays
<1> DEFINE Queried == /\ search.stage = "query" /\ table # NoDim
                      /\ \E result \in Answers : search'.result = result
           Vacant == search.stage \in {"check", "query"} /\ RowsOf(chunks) = {}
           Quiet == search'.stage # "done" \/ search'.blind \/ search.stage \notin {"check", "query"}
<1>0. search \in [stage : Stages, scope : Scopes, raw : BOOLEAN,
                  embeddings : SUBSET Points, result : SUBSET Rows, blind : BOOLEAN]
  BY DEF IndexInv, IndexTypeOK
<1>1. \/ Queried \/ Quiet
      \/ Vacant /\ (search.stage = "query" => table = NoDim)
  <2>1. CASE CheckEmpty
    <3>1. search'.stage = IF IsEmpty THEN "done" ELSE "embed"
      BY <1>0, <2>1 DEF CheckEmpty, Idle
    <3> QED BY <2>1, <3>1 DEF CheckEmpty, IsEmpty
  <2>2. CASE Query
    <3>1. CASE /\ table \in {NoDim, dim}
               /\ \E result \in IF table = NoDim THEN {{}} ELSE Answers :
                     search' = [Idle EXCEPT !.stage = "done", !.result = result]
      <4>1. PICK result \in IF table = NoDim THEN {{}} ELSE Answers :
                     search' = [Idle EXCEPT !.stage = "done", !.result = result]
        BY <3>1, Zenon
      <4>2. search'.result = result
        BY <4>1 DEF Idle
      <4>3. table = NoDim => RowsOf(chunks) = {}
        BY DEF IndexInv, TablesAgree
      <4>4. search.stage = "query"
        BY <2>2, Zenon DEF Query
      <4> QED BY <4>1, <4>2, <4>3, <4>4
    <3>2. CASE search' = [Idle EXCEPT !.stage = "failed"]
      BY <3>2 DEF Idle
    <3> QED BY <2>2, <3>1, <3>2, Zenon DEF Query
  <2>3. CASE QueryBlind
    BY <2>3 DEF QueryBlind, Idle
  <2>4. CASE EmbedFails \/ SearchFails
    BY <2>4 DEF EmbedFails, SearchFails, Idle
  <2>5. CASE Reply \/ Reopen
    BY <2>5 DEF Reply, Reopen, Idle
  <2>6. CASE Asks
    BY <2>6 DEF Asks, AskSearch
  <2>7. CASE Embedded
    BY <2>7 DEF Embedded
  <2>8. CASE search' = search
    BY <2>8
  <2>9. Changes \/ Refusals \/ UNCHANGED indexVars => search' = search
    BY DEF Changes, Refusals, IndexDelete, IndexInsert, InsertRollsBack, DimensionMismatch,
           RecordFails, indexVars
  <2> QED BY <2>1, <2>2, <2>3, <2>4, <2>5, <2>6, <2>7, <2>8, <2>9 DEF IndexNext, Searches
<1>2. CASE Quiet
  BY <1>2 DEF AllIsExact, ScopedIsBest, FindsWhatStays, Answering
<1>3. CASE Vacant /\ (search.stage = "query" => table = NoDim)
  <2>1. ASSUME NEW p \in IndexedPaths, NEW i \in DOMAIN chunks[p] PROVE FALSE
    <3>1. <<p, i>> \in RowsOf(chunks)
      BY DEF RowsOf
    <3> QED BY <1>3, <3>1
  <2>2. stayed \subseteq IndexedPaths
    BY DEF IndexInv, IndexTypeOK
  <2> QED BY <1>3, <2>1, <2>2 DEF AllIsExact, ScopedIsBest, FindsWhatStays, Answering
<1>4. CASE Queried
  <2>1. search'.result \in Answers
    BY <1>4
  <2>2. PICK found : Fetched(found) /\ Chosen(search'.result, found)
    BY <2>1, AnswersAreChosen
  <2>3. CASE Good = {}
    <3>1. search'.result = {} /\ Matching = {}
      BY <2>2, <2>3, NoneIsBest
    <3> QED BY <1>4, <2>3, <3>1 DEF AllIsExact, ScopedIsBest, FindsWhatStays, BestOf
  <2>4. CASE Good # {}
    <3>1. AllIsExact
      BY <2>2, <2>4, AllIsBest DEF AllIsExact
    <3>2. ScopedIsBest
      BY <2>2, <2>4, OneIsBest DEF ScopedIsBest
    <3>3. FindsWhatStays
      <4>1. ASSUME Cardinality(RowsOf(chunks)) <= Limit
            PROVE  \A p \in IndexedPaths : \A i \in DOMAIN chunks[p] :
                      Matches(<<p, i>>) /\ chunks[p][i] \notin Degenerate
                         => <<p, i>> \in search'.result
        BY <2>2, <2>4, <4>1, RoomForAll
      <4>2. stayed \subseteq IndexedPaths
        BY DEF IndexInv, IndexTypeOK
      <4> QED BY <4>1, <4>2 DEF FindsWhatStays
    <3> QED BY <3>1, <3>2, <3>3
  <2> QED BY <2>3, <2>4
<1> QED BY <1>1, <1>2, <1>3, <1>4

\* A search answers with the best rows there are where the limit is taken before any filter,
\* with no worse ones where a filter follows, and never without what was there all the while,
\* whatever is inserted, deleted, or fails beside it.
THEOREM SearchesAlwaysRight == IndexSpec => SearchesAreRight
<1>1. IndexInv /\ [IndexNext]_indexVars => [AllIsExact /\ ScopedIsBest /\ FindsWhatStays]_indexVars
  BY StepAnswers
<1> QED BY <1>1, IndexAlways, PTL DEF IndexSpec, SearchesAreRight
=============================================================================
