--------------------------- MODULE FileOpsProofs ---------------------------
(* Theorems of module FileOps, for any slots, paths, contents and faults.   *)
EXTENDS FileOps, TLAPS

USE DEF Children, Window

\* Every reachable state is well typed and every slot stands at a step of the
\* pipeline of its own request (the handlers of file_op.rs).
THEOREM TypeCorrect == Spec => []TypeOK
<1> USE DEF TypeOK, StepFits, Maybe, Steps, WriteSteps, DeleteSteps, Healths,
        Requests, NoRequest
<1>1. Init => TypeOK
  BY DEF Init
<1>2. TypeOK /\ [Next]_vars => TypeOK'
  <2> SUFFICES ASSUME TypeOK, [Next]_vars PROVE TypeOK'
    OBVIOUS
  <2>1. ASSUME NEW o \in Ops, NEW r \in Requests, Submit(o, r) PROVE TypeOK'
    <3>1. FirstStep(r) \in {"embed", "insert", "unindex", "load"}
      BY DEF FirstStep
    <3>2. /\ FirstStep(r) \in {"embed", "insert"} => r.kind = "write"
          /\ FirstStep(r) = "unindex" => r.kind = "delete"
          /\ FirstStep(r) = "load" => r.kind = "read"
      BY DEF FirstStep
    <3> QED BY <2>1, <3>1, <3>2 DEF Submit
  <2>2. ASSUME NEW o \in Ops, NEW r \in Requests, Refuse(o, r) PROVE TypeOK'
    BY <2>2 DEF Refuse
  <2>3. ASSUME NEW o \in Ops, WriteOp(o) PROVE TypeOK'
    <3>1. CASE Embed(o)
      BY <3>1 DEF Embed, Answer, Goto
    <3>2. CASE Insert(o)
      <4>1. alone' \in [Ops -> BOOLEAN]
        BY <3>2 DEF Insert, Opens
      <4>2. health' \in [Paths -> Healths]
        BY <3>2 DEF Insert, Opens
      <4>3. req[o].content \in Maybe
        OBVIOUS
      <4>4. index' \in [Paths -> Maybe]
        BY <3>2, <4>3 DEF Insert
      <4>5. \A q \in Ops : StepFits(q)'
        BY <3>2 DEF Insert, Goto
      <4> QED BY <3>2, <4>1, <4>2, <4>4, <4>5 DEF Insert, Goto
    <3>3. CASE InsertFails(o)
      BY <3>3 DEF InsertFails, Answer
    <3>4. CASE Store(o)
      BY <3>4 DEF Store, Goto, Closes
    <3>5. CASE StoreFails(o)
      BY <3>5 DEF StoreFails, Goto
    <3>6. CASE StoreUnreachable(o)
      BY <3>6 DEF StoreUnreachable, Answer, Closes
    <3>7. CASE Undo(o)
      BY <3>7 DEF Undo, Answer, Closes
    <3>8. CASE UndoFails(o)
      BY <3>8 DEF UndoFails, Answer, Closes
    <3> QED BY <2>3, <3>1, <3>2, <3>3, <3>4, <3>5, <3>6, <3>7, <3>8 DEF WriteOp
  <2>4. ASSUME NEW o \in Ops, DeleteOp(o) PROVE TypeOK'
    <3>1. CASE Unindex(o)
      BY <3>1 DEF Unindex, Goto, Opens
    <3>2. CASE UnindexFails(o)
      BY <3>2 DEF UnindexFails, Answer
    <3>3. CASE Unlink(o)
      BY <3>3 DEF Unlink, Goto, Closes
    <3>4. CASE UnlinkFails(o)
      BY <3>4 DEF UnlinkFails, Answer, Closes
    <3> QED BY <2>4, <3>1, <3>2, <3>3, <3>4 DEF DeleteOp
  <2>5. ASSUME NEW o \in Ops, Load(o) PROVE TypeOK'
    BY <2>5 DEF Load, Answer
  <2>6. ASSUME NEW o \in Ops, Notify(o) PROVE TypeOK'
    BY <2>6 DEF Notify, Answer
  <2>7. ASSUME NEW o \in Ops, Retire(o) PROVE TypeOK'
    BY <2>7 DEF Retire
  <2>8. ASSUME NEW p \in Paths, Digest(p) \/ DigestFails(p) PROVE TypeOK'
    <3>1. CASE Digest(p)
      BY <3>1 DEF Digest, opVars
    <3>2. CASE DigestFails(p)
      BY <3>2 DEF DigestFails, opVars
    <3> QED BY <2>8, <3>1, <3>2
  <2>9. CASE StopChild
    BY <2>9 DEF StopChild, NextToStop, opVars
  <2>10. CASE Restart
    <3>1. \A p \in Paths : HealthAfterRestart(p) \in Healths
      BY DEF HealthAfterRestart
    <3> QED BY <2>10, <3>1 DEF Restart
  <2>11. CASE UNCHANGED vars
    BY <2>11 DEF vars
  <2> QED
    BY <2>1, <2>2, <2>3, <2>4, <2>5, <2>6, <2>7, <2>8, <2>9, <2>10, <2>11
    DEF Next, OpStep
<1> QED BY <1>1, <1>2, PTL DEF Spec
-----------------------------------------------------------------------------
(* File and index agree.  The lemmas are about one slot o and hold for any  *)
(* step that does to the stores and the windows what they assume.           *)

\* The two stores start out empty and agree.
LEMMA InitAgrees == Init => StoresAgree
  BY DEF Init, StoresAgree, WindowHolds, HealthHolds, Quiet, InWindow

\* What a slot that is not idle knows of its request.
LEMMA ReqTyped ==
  ASSUME TypeOK, NEW o \in Ops, pc[o] # "idle"
  PROVE  /\ req[o] \in Requests
         /\ req[o].path \in Paths
         /\ req[o].content \in Maybe
         /\ req[o].kind = "delete" => req[o].content = NoMemory
  BY DEF TypeOK, StepFits, Requests, Maybe

\* A step that opens and closes no window.
LEMMA WindowsStay ==
  ASSUME StoresAgree,
         UNCHANGED <<file, index, alone, health>>,
         \A q \in Ops : /\ pc'[q] \in Window <=> pc[q] \in Window
                        /\ pc[q] \in Window =>
                             /\ req'[q] = req[q]
                             /\ pc'[q] = pc[q] \/ (pc[q] = "store" /\ pc'[q] = "undo")
  PROVE  StoresAgree'
<1>1. \A p : InWindow(p)' = InWindow(p)
  BY DEF InWindow
<1>2. ASSUME NEW q \in Ops PROVE WindowHolds(q)'
  <2>1. WindowHolds(q)
    BY DEF StoresAgree
  <2>2. pc[q] \in Window => Rivals(q)' = Rivals(q)
    BY <1>1 DEF Rivals
  <2> QED BY <2>1, <2>2 DEF WindowHolds
<1>3. ASSUME NEW p \in Paths PROVE HealthHolds(p)'
  BY <1>1 DEF StoresAgree, HealthHolds, Quiet
<1> QED BY <1>2, <1>3 DEF StoresAgree

\* The index step of o opens its window and sets the entry of its path.
LEMMA WindowOpens ==
  ASSUME TypeOK, StoresAgree,
         NEW o \in Ops, pc[o] # "idle", pc[o] \notin Window,
         NEW step \in {"store", "unlink"}, Goto(o, step), Opens(o),
         NEW content, step = "store" => content = req[o].content,
         step = "unlink" => content = NoMemory,
         index' = [index EXCEPT ![req[o].path] = content],
         UNCHANGED file
  PROVE  StoresAgree'
<1> DEFINE p == req[o].path
<1>1. p \in Paths
  BY ReqTyped
<1>2. /\ pc' = [pc EXCEPT ![o] = step] /\ req' = req
      /\ pc'[o] = step /\ \A q \in Ops \ {o} : pc'[q] = pc[q]
  BY DEF Goto, TypeOK
<1>3. \A r : InWindow(r)' = IF r = p THEN InWindow(r) \cup {o} ELSE InWindow(r)
  BY <1>2 DEF InWindow
<1>4. o \notin InWindow(p)
  BY DEF InWindow
<1>5. Rivals(o)' = Rivals(o) /\ Rivals(o) = InWindow(p)
  BY <1>2, <1>3, <1>4 DEF Rivals
<1>6. index'[p] = content /\ \A r \in Paths \ {p} : index'[r] = index[r]
  BY <1>1 DEF TypeOK
<1>7. /\ alone'[o] <=> Rivals(o) = {}
      /\ \A q \in Ops \ {o} : alone'[q] <=> alone[q] /\ q \notin Rivals(o)
  BY DEF Opens
<1>8. /\ health'[p] = "suspect" \/ (Rivals(o) = {} /\ health' = health)
      /\ \A r \in Paths \ {p} : health'[r] = health[r]
      /\ Rivals(o) # {} => health'[p] = "suspect"
  BY <1>1 DEF Opens, TypeOK
<1>9. ASSUME NEW q \in Ops PROVE WindowHolds(q)'
  <2>1. CASE q = o
    BY <2>1, <1>2, <1>5, <1>6, <1>7, <1>8 DEF WindowHolds
  <2>2. CASE q # o /\ pc[q] \notin Window
    <3>1. WindowHolds(q)
      BY DEF StoresAgree
    <3> QED BY <2>2, <3>1, <1>2, <1>7 DEF WindowHolds
  <2>3. CASE q # o /\ pc[q] \in Window /\ req[q].path = p
    <3>1. q \in Rivals(o)
      BY <2>3, <1>5 DEF InWindow
    <3>2. ~alone'[q] /\ health'[p] = "suspect"
      BY <2>3, <3>1, <1>7, <1>8
    <3> QED BY <2>3, <3>2, <1>2 DEF WindowHolds
  <2>4. CASE q # o /\ pc[q] \in Window /\ req[q].path # p
    <3>1. WindowHolds(q) /\ q \notin Rivals(o)
      BY <2>4, <1>5 DEF StoresAgree, InWindow
    <3>2. req[q].path \in Paths \ {p}
      BY <2>4, ReqTyped
    <3>3. Rivals(q)' = Rivals(q)
      BY <2>4, <1>2, <1>3 DEF Rivals
    <3> QED BY <2>4, <3>1, <3>2, <3>3, <1>2, <1>6, <1>7, <1>8 DEF WindowHolds
  <2> QED BY <2>1, <2>2, <2>3, <2>4
<1>10. ASSUME NEW r \in Paths PROVE HealthHolds(r)'
  BY <1>3, <1>6, <1>8 DEF StoresAgree, HealthHolds, Quiet
<1> QED BY <1>9, <1>10 DEF StoresAgree

\* The last step of o inside its window closes it.
LEMMA WindowCloses ==
  ASSUME TypeOK, StoresAgree,
         NEW o \in Ops, pc[o] \in Window,
         NEW step, step \notin Window, pc' = [pc EXCEPT ![o] = step], req' = req,
         NEW state, Closes(o, state),
         \A r \in Paths \ {req[o].path} : file'[r] = file[r] /\ index'[r] = index[r],
         alone[o] => /\ state = "synced" => index'[req[o].path] = file'[req[o].path]
                     /\ state = "unindexed" => index'[req[o].path] = NoMemory
  PROVE  StoresAgree'
<1> DEFINE p == req[o].path
<1>1. p \in Paths
  BY ReqTyped
<1>2. pc'[o] = step /\ \A q \in Ops \ {o} : pc'[q] = pc[q]
  BY DEF TypeOK
<1>3. \A r : InWindow(r)' = InWindow(r) \ {o}
  BY <1>2 DEF InWindow
<1>4. ~alone'[o] /\ \A q \in Ops \ {o} : alone'[q] = alone[q]
  BY DEF Closes, TypeOK
<1>5. /\ alone[o] => health'[p] = state
      /\ ~alone[o] => health' = health
      /\ \A r \in Paths \ {p} : health'[r] = health[r]
  BY <1>1 DEF Closes, TypeOK
<1>6. alone[o] => Rivals(o) = {}
  BY DEF StoresAgree, WindowHolds
<1>7. ~alone[o] => health[p] = "suspect"
  BY DEF StoresAgree, WindowHolds
<1>8. ASSUME NEW q \in Ops PROVE WindowHolds(q)'
  <2>0. WindowHolds(q)
    BY DEF StoresAgree
  <2>1. CASE q = o
    BY <2>1, <1>2, <1>4 DEF WindowHolds
  <2>2. CASE q # o /\ pc[q] \notin Window
    BY <2>0, <2>2, <1>2, <1>4 DEF WindowHolds
  <2>3. CASE q # o /\ pc[q] \in Window /\ req[q].path = p
    <3>1. q \in Rivals(o) /\ o \in Rivals(q)
      BY <2>3 DEF Rivals, InWindow
    <3>2. ~alone[q] /\ ~alone[o]
      BY <2>0, <3>1, <1>6 DEF WindowHolds
    <3> QED BY <2>3, <3>2, <1>2, <1>4, <1>5, <1>7 DEF WindowHolds
  <2>4. CASE q # o /\ pc[q] \in Window /\ req[q].path # p
    <3>1. req[q].path \in Paths \ {p}
      BY <2>4, ReqTyped
    <3>2. Rivals(q)' = Rivals(q) \ {o}
      BY <2>4, <1>3 DEF Rivals
    <3> QED BY <2>0, <2>4, <3>1, <3>2, <1>2, <1>4, <1>5 DEF WindowHolds
  <2> QED BY <2>1, <2>2, <2>3, <2>4
<1>9. ASSUME NEW r \in Paths PROVE HealthHolds(r)'
  <2>1. CASE r = p
    BY <2>1, <1>5, <1>7 DEF HealthHolds
  <2>2. CASE r # p
    <3>1. InWindow(r)' = InWindow(r)
      BY <2>2, <1>3 DEF InWindow
    <3> QED BY <2>2, <3>1, <1>5 DEF StoresAgree, HealthHolds, Quiet
  <2> QED BY <2>1, <2>2
<1> QED BY <1>8, <1>9 DEF StoresAgree

\* A restart closes every window, and health tells what each one leaves behind.
LEMMA RestartAgrees ==
  ASSUME TypeOK, StoresAgree, Restart
  PROVE  StoresAgree'
<1>1. \A p : InWindow(p)' = {}
  BY DEF Restart, InWindow
<1>2. ASSUME NEW o \in Ops PROVE WindowHolds(o)'
  BY DEF Restart, WindowHolds
<1>3. ASSUME NEW p \in Paths PROVE HealthHolds(p)'
  <2>1. health'[p] = HealthAfterRestart(p) /\ file'[p] = file[p]
    BY DEF Restart
  <2>2. CASE ~PersistentIndex
    BY <2>1, <2>2 DEF Restart, HealthAfterRestart, HealthHolds
  <2>3. CASE PersistentIndex /\ InWindow(p) = {}
    BY <2>1, <2>3 DEF Restart, HealthAfterRestart, StoresAgree, HealthHolds, Quiet
  <2>4. CASE PersistentIndex /\ \E o \in InWindow(p) : pc[o] \in {"store", "undo"}
    BY <2>1, <2>4 DEF HealthAfterRestart, HealthHolds
  <2>5. CASE /\ PersistentIndex
             /\ ~ \E o \in InWindow(p) : pc[o] \in {"store", "undo"}
             /\ InWindow(p) # {}
    <3>1. PICK o \in InWindow(p) : pc[o] = "unlink"
      BY <2>5 DEF InWindow
    <3>2. o \in Ops /\ req[o].path = p /\ WindowHolds(o)
      BY <3>1 DEF InWindow, StoresAgree
    <3>3. index'[p] = index[p]
      BY <2>5 DEF Restart
    <3>4. CASE alone[o]
      <4>1. health'[p] = "unindexed"
        BY <2>1, <2>5, <3>1, <3>4 DEF HealthAfterRestart
      <4>2. index[p] = NoMemory
        BY <3>1, <3>2, <3>4 DEF WindowHolds
      <4> QED BY <3>3, <4>1, <4>2 DEF HealthHolds
    <3>5. CASE ~alone[o]
      <4>1. health[p] = "suspect"
        BY <3>1, <3>2, <3>5 DEF WindowHolds
      <4>2. ~ \E q \in InWindow(p) : alone[q]
        <5> SUFFICES ASSUME NEW q \in InWindow(p), alone[q] PROVE FALSE
          OBVIOUS
        <5>1. q \in Ops /\ q # o /\ req[q].path = p /\ WindowHolds(q)
          BY <3>5 DEF InWindow, StoresAgree
        <5> QED BY <3>1, <5>1 DEF WindowHolds, Rivals
      <4> QED BY <2>1, <2>5, <4>1, <4>2 DEF HealthAfterRestart, HealthHolds
    <3> QED BY <3>4, <3>5
  <2> QED BY <2>2, <2>3, <2>4, <2>5 DEF InWindow
<1> QED BY <1>2, <1>3 DEF StoresAgree

\* Every step of the system keeps the stores in agreement.
LEMMA StepAgrees ==
  ASSUME TypeOK, StoresAgree, [Next]_vars
  PROVE  StoresAgree'
<1>1. ASSUME NEW o \in Ops, NEW r \in Requests, Submit(o, r) PROVE StoresAgree'
  <2>1. FirstStep(r) \notin Window
    BY DEF FirstStep
  <2> QED BY <1>1, <2>1, WindowsStay DEF Submit, TypeOK
<1>2. ASSUME NEW o \in Ops, NEW r \in Requests, Refuse(o, r) PROVE StoresAgree'
  BY <1>2, WindowsStay DEF Refuse, TypeOK
<1>3. ASSUME NEW o \in Ops, WriteOp(o) PROVE StoresAgree'
  <2>1. CASE Embed(o)
    BY <2>1, WindowsStay DEF Embed, Answer, Goto, TypeOK
  <2>2. CASE Insert(o)
    BY <2>2, WindowOpens DEF Insert
  <2>3. CASE InsertFails(o)
    BY <2>3, WindowsStay DEF InsertFails, Answer, TypeOK
  <2>4. CASE Store(o)
    <3>1. alone[o] => index[req[o].path] = req[o].content
      BY <2>4 DEF Store, StoresAgree, WindowHolds
    <3>2. req[o].path \in Paths
      BY <2>4, ReqTyped DEF Store
    <3>3. file'[req[o].path] = req[o].content
          /\ \A r \in Paths \ {req[o].path} : file'[r] = file[r]
      BY <2>4, <3>2 DEF Store, TypeOK
    <3> QED BY <2>4, <3>1, <3>3, WindowCloses DEF Store, Goto
  <2>5. CASE StoreFails(o)
    BY <2>5, WindowsStay DEF StoreFails, Goto, TypeOK
  <2>6. CASE StoreUnreachable(o)
    BY <2>6, WindowCloses DEF StoreUnreachable, Answer
  <2>7. CASE Undo(o)
    <3>1. req[o].path \in Paths
      BY <2>7, ReqTyped DEF Undo
    <3>2. index'[req[o].path] = NoMemory
          /\ \A r \in Paths \ {req[o].path} : index'[r] = index[r]
      BY <2>7, <3>1 DEF Undo, TypeOK
    <3> QED BY <2>7, <3>2, WindowCloses DEF Undo, Answer
  <2>8. CASE UndoFails(o)
    BY <2>8, WindowCloses DEF UndoFails, Answer
  <2> QED BY <1>3, <2>1, <2>2, <2>3, <2>4, <2>5, <2>6, <2>7, <2>8 DEF WriteOp
<1>4. ASSUME NEW o \in Ops, DeleteOp(o) PROVE StoresAgree'
  <2>1. CASE Unindex(o)
    BY <2>1, WindowOpens DEF Unindex
  <2>2. CASE UnindexFails(o)
    BY <2>2, WindowsStay DEF UnindexFails, Answer, TypeOK
  <2>3. CASE Unlink(o)
    <3>1. alone[o] => index[req[o].path] = NoMemory
      BY <2>3 DEF Unlink, StoresAgree, WindowHolds
    <3>2. req[o].path \in Paths
      BY <2>3, ReqTyped DEF Unlink
    <3>3. file'[req[o].path] = NoMemory
          /\ \A r \in Paths \ {req[o].path} : file'[r] = file[r]
      BY <2>3, <3>2 DEF Unlink, TypeOK
    <3> QED BY <2>3, <3>1, <3>3, WindowCloses DEF Unlink, Goto
  <2>4. CASE UnlinkFails(o)
    <3>1. alone[o] => index[req[o].path] = NoMemory
      BY <2>4 DEF UnlinkFails, StoresAgree, WindowHolds
    <3> QED BY <2>4, <3>1, WindowCloses DEF UnlinkFails, Answer
  <2> QED BY <1>4, <2>1, <2>2, <2>3, <2>4 DEF DeleteOp
<1>5. ASSUME NEW o \in Ops, Load(o) PROVE StoresAgree'
  BY <1>5, WindowsStay DEF Load, Answer, TypeOK
<1>6. ASSUME NEW o \in Ops, Notify(o) PROVE StoresAgree'
  BY <1>6, WindowsStay DEF Notify, Answer, TypeOK
<1>7. ASSUME NEW o \in Ops, Retire(o) PROVE StoresAgree'
  BY <1>7, WindowsStay DEF Retire, TypeOK
<1>8. ASSUME NEW p \in Paths, Digest(p) \/ DigestFails(p) PROVE StoresAgree'
  <2>1. CASE Digest(p)
    BY <2>1, WindowsStay DEF Digest, opVars
  <2>2. CASE DigestFails(p)
    BY <2>2, WindowsStay DEF DigestFails, opVars
  <2> QED BY <1>8, <2>1, <2>2
<1>9. CASE StopChild
  BY <1>9, WindowsStay DEF StopChild, opVars
<1>10. CASE Restart
  BY <1>10, RestartAgrees
<1>11. CASE UNCHANGED vars
  BY <1>11, WindowsStay DEF vars
<1> QED
  BY <1>1, <1>2, <1>3, <1>4, <1>5, <1>6, <1>7, <1>8, <1>9, <1>10, <1>11 DEF Next, OpStep

\* The inductive invariant of the pipelines, for any number of concurrent
\* requests: inside a window that met no rival the index already holds what the
\* request is about to make true, and outside the windows health tells the truth.
THEOREM StoresAlwaysAgree == Spec => []StoresAgree
<1>1. TypeOK /\ StoresAgree /\ [Next]_vars => StoresAgree'
  BY StepAgrees
<1> QED BY InitAgrees, TypeCorrect, <1>1, PTL DEF Spec

\* Searching never points at a file that is gone or that holds something else,
\* unless windows overlapped, an undo was lost, or a write died in its window
\* (the order of the steps and the undo in file_op.rs).
THEOREM NeverAhead == Spec => []IndexNeverAhead
<1>1. TypeOK /\ StoresAgree => IndexNeverAhead
  BY DEF TypeOK, StoresAgree, HealthHolds, IndexNeverAhead, Healths
<1> QED BY TypeCorrect, StoresAlwaysAgree, <1>1, PTL

\* After a write or a delete that succeeded and had its path to itself, the index
\* holds exactly the stored file, whatever happened on the path before.
THEOREM AlwaysSearchable == Spec => []SavedIsSearchable
<1>1. StoresAgree => SavedIsSearchable
  BY DEF StoresAgree, HealthHolds, SavedIsSearchable
<1> QED BY StoresAlwaysAgree, <1>1, PTL
-----------------------------------------------------------------------------
(* The Synthesizer misses no change.                                        *)

Announcing(p) == \E o \in Ops : pc[o] = "notify" /\ req[o].path = p

\* A step that leaves files, digests and announcements alone, or only adds to them.
LEMMA HeardStays ==
  ASSUME NothingUnheard,
         NEW p \in Paths,
         file'[p] = file[p], seen'[p] = seen[p],
         p \in inbox \cup unheard => (p \in inbox \cup unheard)',
         Announcing(p) => Announcing(p)' \/ (p \in inbox \cup unheard)'
  PROVE  \/ (p \in inbox \cup unheard)'
         \/ (\E o \in Ops : pc[o] = "notify" /\ req[o].path = p)'
         \/ (seen[p] = file[p])'
  BY DEF NothingUnheard, Announcing

\* The file step of o leads to the announcement of the path it changed.
LEMMA FileStepIsAnnounced ==
  ASSUME TypeOK, NothingUnheard,
         NEW o \in Ops, pc[o] \notin {"idle", "notify"}, Goto(o, "notify"),
         NEW content, file' = [file EXCEPT ![req[o].path] = content],
         UNCHANGED <<inbox, unheard, seen>>
  PROVE  NothingUnheard'
<1>1. /\ pc'[o] = "notify" /\ req' = req
      /\ \A q \in Ops \ {o} : pc'[q] = pc[q]
  BY DEF Goto, TypeOK
<1>2. SUFFICES ASSUME NEW p \in Paths
               PROVE  \/ (p \in inbox \cup unheard)'
                      \/ (\E q \in Ops : pc[q] = "notify" /\ req[q].path = p)'
                      \/ (seen[p] = file[p])'
  BY DEF NothingUnheard
<1>3. CASE p = req[o].path
  BY <1>1, <1>3
<1>4. CASE p # req[o].path
  <2>1. file'[p] = file[p]
    BY <1>4 DEF TypeOK
  <2>2. Announcing(p) => Announcing(p)'
    BY <1>1 DEF Announcing
  <2> QED BY <2>1, <2>2, HeardStays
<1> QED BY <1>3, <1>4

\* A step of o that changes no file and is not its announcement.
LEMMA OtherStepsHeard ==
  ASSUME NothingUnheard,
         NEW o \in Ops, pc[o] # "notify",
         \A q \in Ops \ {o} : pc'[q] = pc[q] /\ req'[q] = req[q],
         UNCHANGED <<file, inbox, unheard, seen>>
  PROVE  NothingUnheard'
<1>1. ASSUME NEW p \in Paths, Announcing(p) PROVE Announcing(p)'
  BY <1>1 DEF Announcing
<1> QED BY <1>1, HeardStays DEF NothingUnheard

\* Every step of the system keeps the Synthesizer informed.
LEMMA StepHeard ==
  ASSUME TypeOK, NothingUnheard, [Next]_vars
  PROVE  NothingUnheard'
<1> USE DEF TypeOK
<1>1. ASSUME NEW o \in Ops, NEW r \in Requests, Submit(o, r) \/ Refuse(o, r)
      PROVE  NothingUnheard'
  BY <1>1, OtherStepsHeard DEF Submit, Refuse
<1>2. ASSUME NEW o \in Ops, WriteOp(o) PROVE NothingUnheard'
  <2>1. CASE Store(o)
    BY <2>1, FileStepIsAnnounced DEF Store
  <2>2. CASE Embed(o)
    BY <2>2, OtherStepsHeard DEF Embed, Goto, Answer
  <2>3. CASE Insert(o) \/ StoreFails(o)
    BY <2>3, OtherStepsHeard DEF Insert, StoreFails, Goto
  <2>4. CASE InsertFails(o) \/ StoreUnreachable(o) \/ Undo(o) \/ UndoFails(o)
    BY <2>4, OtherStepsHeard DEF InsertFails, StoreUnreachable, Undo, UndoFails, Answer
  <2> QED BY <1>2, <2>1, <2>2, <2>3, <2>4 DEF WriteOp
<1>3. ASSUME NEW o \in Ops, DeleteOp(o) PROVE NothingUnheard'
  <2>1. CASE Unlink(o)
    BY <2>1, FileStepIsAnnounced DEF Unlink
  <2>2. CASE Unindex(o)
    BY <2>2, OtherStepsHeard DEF Unindex, Goto
  <2>3. CASE UnindexFails(o) \/ UnlinkFails(o)
    BY <2>3, OtherStepsHeard DEF UnindexFails, UnlinkFails, Answer
  <2> QED BY <1>3, <2>1, <2>2, <2>3 DEF DeleteOp
<1>4. ASSUME NEW o \in Ops, Load(o) PROVE NothingUnheard'
  BY <1>4, OtherStepsHeard DEF Load, Answer
<1>5. ASSUME NEW o \in Ops, Notify(o) PROVE NothingUnheard'
  <2> DEFINE q == req[o].path
  <2>1. /\ inbox \cup unheard \subseteq (inbox \cup unheard)'
        /\ q \in (inbox \cup unheard)'
    BY <1>5 DEF Notify
  <2>2. ASSUME NEW p \in Paths, Announcing(p)
        PROVE  Announcing(p)' \/ p \in (inbox \cup unheard)'
    BY <1>5, <2>1, <2>2 DEF Announcing, Notify, Answer
  <2>3. UNCHANGED <<file, seen>>
    BY <1>5 DEF Notify
  <2> QED BY <2>1, <2>2, <2>3, HeardStays DEF NothingUnheard
<1>6. ASSUME NEW o \in Ops, Retire(o) PROVE NothingUnheard'
  BY <1>6, OtherStepsHeard DEF Retire
<1>7. ASSUME NEW p \in Paths, Digest(p) \/ DigestFails(p) PROVE NothingUnheard'
  <2>1. CASE Digest(p)
    <3>1. UNCHANGED <<file, opVars>> /\ seen'[p] = file'[p]
          /\ \A r \in Paths \ {p} : /\ seen'[r] = seen[r]
                                    /\ r \in inbox \cup unheard => r \in (inbox \cup unheard)'
      BY <2>1 DEF Digest
    <3> QED BY <3>1 DEF NothingUnheard, opVars
  <2>2. CASE DigestFails(p)
    <3>1. UNCHANGED <<file, seen, opVars>> /\ (inbox \cup unheard)' = inbox \cup unheard
      BY <2>2 DEF DigestFails
    <3> QED BY <3>1 DEF NothingUnheard, opVars
  <2> QED BY <1>7, <2>1, <2>2
<1>8. CASE StopChild
  <2>1. UNCHANGED <<file, seen, opVars>> /\ (inbox \cup unheard)' = inbox \cup unheard
    BY <1>8 DEF StopChild
  <2> QED BY <2>1 DEF NothingUnheard, opVars
<1>9. CASE Restart
  <2>1. UNCHANGED <<file, seen>>
        /\ unheard' = unheard \cup inbox \cup {p \in Paths : Announcing(p)}
    BY <1>9 DEF Restart, Announcing
  <2> QED BY <2>1 DEF NothingUnheard, Announcing
<1>10. CASE UNCHANGED vars
  BY <1>10 DEF vars, NothingUnheard
<1> QED
  BY <1>1, <1>2, <1>3, <1>4, <1>5, <1>6, <1>7, <1>8, <1>9, <1>10 DEF Next, OpStep

\* The files the Synthesizer last read are the files as stored, except on paths
\* that it still has to read, that are about to be announced, or whose last
\* announcement died with the process or was dropped by a failed read (step 6 of
\* the write handler, and the reads of synthesize_agent).
THEOREM AllHeard == Spec => []NothingUnheard
<1>1. Init => NothingUnheard
  BY DEF Init, NothingUnheard
<1>2. TypeOK /\ NothingUnheard /\ [Next]_vars => NothingUnheard'
  BY StepHeard
<1> QED BY <1>1, <1>2, TypeCorrect, PTL DEF Spec
-----------------------------------------------------------------------------
(* Refinement: the files behave as the registers of MemoryKV.               *)

\* The initial states map to the initial state of MemoryKV.
LEMMA InitMaps == Init => KV!Init
  BY DEF Init, KV!Init, KVStage, KV!NoRequest, NoRequest

\* A step of one slot changes the abstract stage of that slot only.
LEMMA KVStages ==
  ASSUME TypeOK, NEW o \in Ops, NEW step, pc' = [pc EXCEPT ![o] = step]
  PROVE  [q \in Ops |-> KVStage(q)]' = [[q \in Ops |-> KVStage(q)] EXCEPT ![o] = KVStage(o)']
  BY DEF TypeOK, KVStage

\* A step of o between its arrival and its file step changes nothing abstractly.
LEMMA InnerStepMaps ==
  ASSUME TypeOK, NEW o \in Ops,
         NEW step \in {"insert", "store", "undo", "unlink"},
         pc[o] \notin {"idle", "done", "notify"}, Goto(o, step),
         UNCHANGED file
  PROVE  UNCHANGED KV!vars
<1>1. \A q \in Ops : KVStage(q)' = KVStage(q)
  BY DEF Goto, KVStage, TypeOK
<1> QED BY <1>1 DEF Goto, KV!vars

\* An error answer before the file step is an abstract failure.
LEMMA FailureMaps ==
  ASSUME TypeOK, NEW o \in Ops, pc[o] \notin {"idle", "done", "notify"},
         Answer(o, "err", NoMemory), UNCHANGED file
  PROVE  KV!Fail(o)
<1>1. KVStage(o) = "open" /\ KVStage(o)' = "done"
  BY DEF KVStage, Answer, TypeOK
<1> QED BY <1>1, KVStages DEF Answer, KV!Fail, KV!Answer

\* The file step is the instant the request takes effect.
LEMMA FileStepMaps ==
  ASSUME TypeOK, NEW o \in Ops, pc[o] \in {"store", "unlink"}, Goto(o, "notify"),
         file' = [file EXCEPT ![req[o].path] = req[o].content]
  PROVE  KV!Apply(o)
<1>1. KVStage(o) = "open" /\ KVStage(o)' = "applied"
  BY DEF KVStage, Goto, TypeOK
<1>2. req[o].kind \in {"write", "delete"}
  BY DEF TypeOK, StepFits, WriteSteps, DeleteSteps
<1> QED BY <1>1, <1>2, KVStages DEF Goto, KV!Apply

\* Every step maps to an abstract step or to a stutter.
LEMMA StepMaps ==
  ASSUME TypeOK, [Next]_vars
  PROVE  [KV!Next]_(KV!vars)
<1>0. KV!Requests = Requests /\ KV!NoRequest = NoRequest
  BY DEF KV!Requests, Requests, KV!NoRequest, NoRequest
<1>1. ASSUME NEW o \in Ops, NEW r \in Requests, Submit(o, r) PROVE KV!Invoke(o, r)
  <2>1. KVStage(o) = "idle" /\ KVStage(o)' = "open"
    BY <1>1 DEF Submit, KVStage, FirstStep, TypeOK
  <2> QED BY <1>1, <2>1, KVStages DEF Submit, KV!Invoke
<1>2. ASSUME NEW o \in Ops, NEW r \in Requests, Refuse(o, r) PROVE KV!Refuse(o, r)
  <2>1. KVStage(o) = "idle" /\ KVStage(o)' = "done"
    BY <1>2 DEF Refuse, KVStage, TypeOK
  <2> QED BY <1>2, <2>1, KVStages DEF Refuse, KV!Refuse
<1>3. ASSUME NEW o \in Ops, WriteOp(o)
      PROVE  KV!Apply(o) \/ KV!Fail(o) \/ UNCHANGED KV!vars
  <2>1. CASE Store(o)
    BY <2>1, FileStepMaps DEF Store
  <2>2. CASE Embed(o)
    BY <2>2, InnerStepMaps, FailureMaps DEF Embed
  <2>3. CASE Insert(o) \/ StoreFails(o)
    BY <2>3, InnerStepMaps DEF Insert, StoreFails
  <2>4. CASE InsertFails(o) \/ StoreUnreachable(o) \/ Undo(o) \/ UndoFails(o)
    BY <2>4, FailureMaps DEF InsertFails, StoreUnreachable, Undo, UndoFails
  <2> QED BY <1>3, <2>1, <2>2, <2>3, <2>4 DEF WriteOp
<1>4. ASSUME NEW o \in Ops, DeleteOp(o)
      PROVE  KV!Apply(o) \/ KV!Fail(o) \/ UNCHANGED KV!vars
  <2>1. CASE Unlink(o)
    <3>1. pc[o] = "unlink" /\ req[o].content = NoMemory
      BY <2>1, ReqTyped DEF Unlink, TypeOK, StepFits, DeleteSteps
    <3> QED BY <2>1, <3>1, FileStepMaps DEF Unlink
  <2>2. CASE Unindex(o)
    BY <2>2, InnerStepMaps DEF Unindex
  <2>3. CASE UnindexFails(o) \/ UnlinkFails(o)
    BY <2>3, FailureMaps DEF UnindexFails, UnlinkFails
  <2> QED BY <1>4, <2>1, <2>2, <2>3 DEF DeleteOp
<1>5. ASSUME NEW o \in Ops, Load(o) PROVE KV!Read(o) \/ KV!Fail(o)
  <2>1. pc[o] = "load" /\ req[o].kind = "read" /\ UNCHANGED file
    BY <1>5 DEF Load, TypeOK, StepFits
  <2>2. CASE Answer(o, "err", NoMemory)
    BY <2>1, <2>2, FailureMaps
  <2>3. CASE Answer(o, "ok", file[req[o].path])
    <3>1. KVStage(o) = "open" /\ KVStage(o)' = "done"
      BY <2>1, <2>3 DEF KVStage, Answer, TypeOK
    <3> QED BY <2>1, <2>3, <3>1, KVStages DEF Answer, KV!Read, KV!Answer
  <2> QED BY <1>5, <2>2, <2>3 DEF Load
<1>6. ASSUME NEW o \in Ops, Notify(o) PROVE KV!Succeed(o)
  <2>1. KVStage(o) = "applied" /\ KVStage(o)' = "done"
    BY <1>6 DEF Notify, KVStage, Answer, TypeOK
  <2> QED BY <1>6, <2>1, KVStages DEF Notify, Answer, KV!Succeed, KV!Answer
<1>7. ASSUME NEW o \in Ops, Retire(o) PROVE KV!Retire(o)
  <2>1. KVStage(o) = "done" /\ KVStage(o)' = "idle"
    BY <1>7 DEF Retire, KVStage, TypeOK
  <2> QED BY <1>0, <1>7, <2>1, KVStages DEF Retire, KV!Retire
<1>8. ASSUME NEW p \in Paths, Digest(p) \/ DigestFails(p) PROVE UNCHANGED KV!vars
  <2>1. CASE Digest(p)
    BY <2>1 DEF Digest, opVars, KV!vars, KVStage
  <2>2. CASE DigestFails(p)
    BY <2>2 DEF DigestFails, opVars, KV!vars, KVStage
  <2> QED BY <1>8, <2>1, <2>2
<1>9. CASE StopChild
  BY <1>9 DEF StopChild, opVars, KV!vars, KVStage
<1>10. CASE Restart
  <2>1. KV!Halt
    BY <1>0, <1>10 DEF Restart, KV!Halt, KVStage
  <2> QED BY <2>1 DEF KV!Next
<1>11. CASE UNCHANGED vars
  BY <1>11 DEF vars, KV!vars, KVStage
<1> QED
  BY <1>0, <1>1, <1>2, <1>3, <1>4, <1>5, <1>6, <1>7, <1>8, <1>9, <1>10, <1>11
  DEF Next, OpStep, KV!Next

\* The pipelines implement the registers of MemoryKV: each request takes effect
\* on its file at most once, between its arrival and its answer, and not at all
\* when it is answered with an error, under every fault and interleaving.
THEOREM Refinement == Spec => ImplementsKV
<1>1. TypeOK /\ [Next]_vars => [KV!Next]_(KV!vars)
  BY StepMaps
<1> QED BY InitMaps, TypeCorrect, <1>1, PTL DEF Spec, ImplementsKV, KV!Spec
=============================================================================
