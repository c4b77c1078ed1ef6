------------------------------ MODULE FileOps ------------------------------
(***************************************************************************)
(* The write, read and delete pipelines of the memory manager.             *)
(*                                                                         *)
(* The MemoryManager starts one short-lived FileOp actor for each request, *)
(* so requests, on the same path too, run concurrently; the Storage and    *)
(* Indexer actors they share handle one message at a time, so a message    *)
(* and its reply are one step here.  A pipeline touches two stores:        *)
(*                                                                         *)
(*   write  : embed -> insert -> store -> notify, or store -> undo         *)
(*   delete : unindex -> unlink -> notify                                  *)
(*   read   : load                                                         *)
(*                                                                         *)
(* and between its index step and its file step (the request's window) the *)
(* two stores disagree.  The history variables alone, health and unheard   *)
(* record what may have gone wrong; no action's guard reads them.          *)
(***************************************************************************)
EXTENDS FiniteSets

CONSTANTS Ops,              \* slots for requests in flight
          Paths,            \* storage paths (get_raw_path)
          Contents,         \* file contents
          Blank,            \* the contents chunk_text makes no chunk of
          NoMemory,         \* no file, or no index entry
          PersistentIndex,  \* FALSE when db_path is ":memory:"
          Faults            \* the faults the environment may inject

FaultKinds == {"refuse", "embed", "index", "storage", "stop", "crash"}

ASSUME BlankAssumption == Blank \subseteq Contents
ASSUME NoMemoryAssumption == NoMemory \notin Contents
ASSUME PersistentIndexAssumption == PersistentIndex \in BOOLEAN
ASSUME FaultsAssumption == Faults \subseteq FaultKinds

VARIABLES file,     \* Storage: path -> content or NoMemory
          index,    \* Indexer: path -> the content its rows were made from
          alive,    \* the manager's child actors that are running
          inbox,    \* paths announced to the Synthesizer and not yet read by it
          pc,       \* slot -> the step its FileOp takes next
          req,      \* slot -> its request
          reply,    \* slot -> the answer
          got,      \* slot -> the content a read returned
          alone,    \* history: slot -> its window is open and none on its path overlapped it
          health,   \* history: path -> how file and index relate when no window is open
          seen,     \* history: path -> the file as the Synthesizer last read it
          unheard   \* history: paths whose last announcement was lost or not read

opVars == <<pc, req, reply, got>>
vars == <<file, index, alive, inbox, pc, req, reply, got, alone, health, seen, unheard>>

Maybe == Contents \cup {NoMemory}
Children == {"synthesizer", "storage", "index"}

Requests == [kind : {"write"}, path : Paths, content : Contents]
              \cup [kind : {"read", "delete"}, path : Paths, content : {NoMemory}]

NoRequest == [kind |-> "none", path |-> NoMemory, content |-> NoMemory]

WriteSteps  == {"embed", "insert", "store", "undo"}
DeleteSteps == {"unindex", "unlink"}
Window      == {"store", "undo", "unlink"}
Steps == WriteSteps \cup DeleteSteps \cup {"load", "notify", "idle", "done"}

\* health: "synced" index = file; "unindexed" no index entry; "suspect" anything.
Healths == {"synced", "unindexed", "suspect"}

InWindow(p) == {o \in Ops : pc[o] \in Window /\ req[o].path = p}
Rivals(o) == InWindow(req[o].path) \ {o}

Init ==
    /\ file = [p \in Paths |-> NoMemory]
    /\ index = [p \in Paths |-> NoMemory]
    /\ alive = Children
    /\ inbox = {}
    /\ pc = [o \in Ops |-> "idle"]
    /\ req = [o \in Ops |-> NoRequest]
    /\ reply = [o \in Ops |-> "none"]
    /\ got = [o \in Ops |-> NoMemory]
    /\ alone = [o \in Ops |-> FALSE]
    /\ health = [p \in Paths |-> "synced"]
    /\ seen = [p \in Paths |-> NoMemory]
    /\ unheard = {}
-----------------------------------------------------------------------------
(* Requests arrive while the manager runs, that is until its post_stop.     *)

\* Seeded fault: a blank write goes straight to Storage and leaves the old rows.
BlankSkipsIndex(r) ==
    IF r.kind = "delete" THEN "unindex"
    ELSE IF r.kind = "read" THEN "load"
    ELSE IF r.content \in Blank THEN "store" ELSE "embed"

\* chunk_text gives a blank text no chunks, and then nothing is embedded.
FirstStep(r) ==
    IF r.kind = "delete" THEN "unindex"
    ELSE IF r.kind = "read" THEN "load"
    ELSE IF r.content \in Blank THEN "insert" ELSE "embed"

Submit(o, r) ==
    /\ alive = Children
    /\ pc[o] = "idle"
    /\ pc' = [pc EXCEPT ![o] = FirstStep(r)]
    /\ req' = [req EXCEPT ![o] = r]
    /\ UNCHANGED <<file, index, alive, inbox, reply, got, alone, health, seen, unheard>>

\* The FileOp actor does not start, or get_raw_path rejects the project.
Refuse(o, r) ==
    /\ alive = Children
    /\ "refuse" \in Faults
    /\ pc[o] = "idle"
    /\ pc' = [pc EXCEPT ![o] = "done"]
    /\ req' = [req EXCEPT ![o] = r]
    /\ reply' = [reply EXCEPT ![o] = "err"]
    /\ UNCHANGED <<file, index, alive, inbox, got, alone, health, seen, unheard>>

Answer(o, result, value) ==
    /\ pc' = [pc EXCEPT ![o] = "done"]
    /\ reply' = [reply EXCEPT ![o] = result]
    /\ got' = [got EXCEPT ![o] = value]
    /\ UNCHANGED req

Goto(o, step) ==
    /\ pc' = [pc EXCEPT ![o] = step]
    /\ UNCHANGED <<req, reply, got>>

\* The caller takes the answer and the slot is free again.
Retire(o) ==
    /\ pc[o] = "done"
    /\ pc' = [pc EXCEPT ![o] = "idle"]
    /\ req' = [req EXCEPT ![o] = NoRequest]
    /\ reply' = [reply EXCEPT ![o] = "none"]
    /\ got' = [got EXCEPT ![o] = NoMemory]
    /\ UNCHANGED <<file, index, alive, inbox, alone, health, seen, unheard>>

\* A child answers a message with an error of its own, or it is gone and the
\* message cannot be delivered.
Errs(child, fault) == child \notin alive \/ fault \in Faults

(* History: the index step of o opens its window, the file step closes it. *)
Opens(o) ==
    /\ alone' = [q \in Ops |-> IF q = o THEN Rivals(o) = {} ELSE alone[q] /\ q \notin Rivals(o)]
    /\ health' = IF Rivals(o) = {} THEN health
                 ELSE [health EXCEPT ![req[o].path] = "suspect"]

Closes(o, state) ==
    /\ health' = IF alone[o] THEN [health EXCEPT ![req[o].path] = state] ELSE health
    /\ alone' = [alone EXCEPT ![o] = FALSE]
-----------------------------------------------------------------------------
(* Write.                                                                   *)

Embed(o) ==
    /\ pc[o] = "embed"
    /\ \/ Goto(o, "insert")
       \/ "embed" \in Faults /\ Answer(o, "err", NoMemory)
    /\ UNCHANGED <<file, index, alive, inbox, alone, health, seen, unheard>>

\* One transaction replaces the rows of the path.
Insert(o) ==
    /\ pc[o] = "insert"
    /\ "index" \in alive
    /\ index' = [index EXCEPT ![req[o].path] = req[o].content]
    /\ Goto(o, "store")
    /\ Opens(o)
    /\ UNCHANGED <<file, alive, inbox, seen, unheard>>

\* The transaction is rolled back, or the Indexer is gone.
InsertFails(o) ==
    /\ pc[o] = "insert"
    /\ Errs("index", "index")
    /\ Answer(o, "err", NoMemory)
    /\ UNCHANGED <<file, index, alive, inbox, alone, health, seen, unheard>>

Store(o) ==
    /\ pc[o] = "store"
    /\ "storage" \in alive
    /\ file' = [file EXCEPT ![req[o].path] = req[o].content]
    /\ Goto(o, "notify")
    /\ Closes(o, "synced")
    /\ UNCHANGED <<index, alive, inbox, seen, unheard>>

\* Seeded fault: the failed write is undone on Storage instead of the Indexer.
StoreFailsUnlinks(o) ==
    /\ pc[o] = "store"
    /\ "storage" \in alive
    /\ "storage" \in Faults
    /\ Goto(o, "unlink")
    /\ UNCHANGED <<file, index, alive, inbox, alone, health, seen, unheard>>

\* Storage answers with an error: the index entry is to be dropped again.
StoreFails(o) ==
    /\ pc[o] = "store"
    /\ "storage" \in alive
    /\ "storage" \in Faults
    /\ Goto(o, "undo")
    /\ UNCHANGED <<file, index, alive, inbox, alone, health, seen, unheard>>

\* Storage is gone: the send fails and ? returns at once, past the undo.
StoreUnreachable(o) ==
    /\ pc[o] = "store"
    /\ "storage" \notin alive
    /\ Answer(o, "err", NoMemory)
    /\ Closes(o, "suspect")
    /\ UNCHANGED <<file, index, alive, inbox, seen, unheard>>

\* Seeded fault: the error is returned without removing the entry.
UndoForgets(o) ==
    /\ pc[o] = "undo"
    /\ "index" \in alive
    /\ Answer(o, "err", NoMemory)
    /\ Closes(o, "unindexed")
    /\ UNCHANGED <<file, index, alive, inbox, seen, unheard>>

Undo(o) ==
    /\ pc[o] = "undo"
    /\ "index" \in alive
    /\ index' = [index EXCEPT ![req[o].path] = NoMemory]
    /\ Answer(o, "err", NoMemory)
    /\ Closes(o, "unindexed")
    /\ UNCHANGED <<file, alive, inbox, seen, unheard>>

\* The failure of the undo is logged and otherwise ignored.
UndoFails(o) ==
    /\ pc[o] = "undo"
    /\ Errs("index", "index")
    /\ Answer(o, "err", NoMemory)
    /\ Closes(o, "suspect")
    /\ UNCHANGED <<file, index, alive, inbox, seen, unheard>>
-----------------------------------------------------------------------------
(* Delete, read, and the announcement that ends a write or a delete.        *)

Unindex(o) ==
    /\ pc[o] = "unindex"
    /\ "index" \in alive
    /\ index' = [index EXCEPT ![req[o].path] = NoMemory]
    /\ Goto(o, "unlink")
    /\ Opens(o)
    /\ UNCHANGED <<file, alive, inbox, seen, unheard>>

UnindexFails(o) ==
    /\ pc[o] = "unindex"
    /\ Errs("index", "index")
    /\ Answer(o, "err", NoMemory)
    /\ UNCHANGED <<file, index, alive, inbox, alone, health, seen, unheard>>

\* Seeded fault: a delete answers without telling the Synthesizer.
UnlinkSilently(o) ==
    /\ pc[o] = "unlink"
    /\ "storage" \in alive
    /\ file' = [file EXCEPT ![req[o].path] = NoMemory]
    /\ Answer(o, "ok", NoMemory)
    /\ Closes(o, "synced")
    /\ UNCHANGED <<index, alive, inbox, seen, unheard>>

\* A file that is not there counts as removed.
Unlink(o) ==
    /\ pc[o] = "unlink"
    /\ "storage" \in alive
    /\ file' = [file EXCEPT ![req[o].path] = NoMemory]
    /\ Goto(o, "notify")
    /\ Closes(o, "synced")
    /\ UNCHANGED <<index, alive, inbox, seen, unheard>>

\* Seeded fault: the error of Storage is swallowed and the delete goes on.
UnlinkErrorIgnored(o) ==
    /\ pc[o] = "unlink"
    /\ Errs("storage", "storage")
    /\ Goto(o, "notify")
    /\ Closes(o, "unindexed")
    /\ UNCHANGED <<file, index, alive, inbox, seen, unheard>>

\* An error of Storage, or its absence: nothing puts the index entry back.
UnlinkFails(o) ==
    /\ pc[o] = "unlink"
    /\ Errs("storage", "storage")
    /\ Answer(o, "err", NoMemory)
    /\ Closes(o, "unindexed")
    /\ UNCHANGED <<file, index, alive, inbox, seen, unheard>>

\* do_send to the Synthesizer; a failure is only a warning.
Notify(o) ==
    /\ pc[o] = "notify"
    /\ LET p == req[o].path
       IN  IF "synthesizer" \in alive
           THEN inbox' = inbox \cup {p} /\ UNCHANGED unheard
           ELSE unheard' = unheard \cup {p} /\ UNCHANGED inbox
    /\ Answer(o, "ok", NoMemory)
    /\ UNCHANGED <<file, index, alive, alone, health, seen>>

Load(o) ==
    /\ pc[o] = "load"
    /\ \/ "storage" \in alive /\ Answer(o, "ok", file[req[o].path])
       \/ Errs("storage", "storage") /\ Answer(o, "err", NoMemory)
    /\ UNCHANGED <<file, index, alive, inbox, alone, health, seen, unheard>>
-----------------------------------------------------------------------------
(* The Synthesizer, as far as the pipelines can see it: some time after an  *)
(* announcement it reads the file.  Module Synthesizer has the whole of it. *)

Digest(p) ==
    /\ p \in inbox
    /\ {"synthesizer", "storage"} \subseteq alive
    /\ inbox' = inbox \ {p}
    /\ seen' = [seen EXCEPT ![p] = file[p]]
    /\ unheard' = unheard \ {p}
    /\ UNCHANGED <<file, index, alive, opVars, alone, health>>

\* The pending set is taken before the files are read: a read that fails, of p or
\* of another file of the agent, drops the announcement with a mere warning.
DigestFails(p) ==
    /\ p \in inbox
    /\ "synthesizer" \in alive
    /\ Errs("storage", "storage")
    /\ inbox' = inbox \ {p}
    /\ unheard' = unheard \cup {p}
    /\ UNCHANGED <<file, index, alive, opVars, alone, health, seen>>

(* post_stop of the manager terminates its children one after the other; it *)
(* neither knows nor awaits the FileOps in flight.                          *)
NextToStop == IF "synthesizer" \in alive THEN "synthesizer"
              ELSE IF "storage" \in alive THEN "storage" ELSE "index"

StopChild ==
    /\ "stop" \in Faults
    /\ alive # {}
    /\ alive' = alive \ {NextToStop}
    /\ IF NextToStop = "synthesizer"
       THEN inbox' = {} /\ unheard' = unheard \cup inbox
       ELSE UNCHANGED <<inbox, unheard>>
    /\ UNCHANGED <<file, index, opVars, alone, health, seen>>

(* The process ends, by a crash at any moment or once the manager has        *)
(* stopped, and is started again.  The files and a database on disk remain. *)
HealthAfterRestart(p) ==
    IF ~PersistentIndex THEN "unindexed"
    ELSE IF \E o \in InWindow(p) : pc[o] \in {"store", "undo"} THEN "suspect"
    ELSE IF \E o \in InWindow(p) : alone[o] THEN "unindexed"
    ELSE health[p]

Restart ==
    /\ "crash" \in Faults \/ alive = {}
    /\ alive' = Children
    /\ index' = IF PersistentIndex THEN index ELSE [p \in Paths |-> NoMemory]
    /\ inbox' = {}
    /\ pc' = [o \in Ops |-> "idle"]
    /\ req' = [o \in Ops |-> NoRequest]
    /\ reply' = [o \in Ops |-> "none"]
    /\ got' = [o \in Ops |-> NoMemory]
    /\ alone' = [o \in Ops |-> FALSE]
    /\ health' = [p \in Paths |-> HealthAfterRestart(p)]
    /\ unheard' = unheard \cup inbox
                    \cup {p \in Paths : \E o \in Ops : pc[o] = "notify" /\ req[o].path = p}
    /\ UNCHANGED <<file, seen>>

WriteOp(o) == Embed(o) \/ Insert(o) \/ InsertFails(o) \/ Store(o) \/ StoreFails(o)
                \/ StoreUnreachable(o) \/ Undo(o) \/ UndoFails(o)
DeleteOp(o) == Unindex(o) \/ UnindexFails(o) \/ Unlink(o) \/ UnlinkFails(o)

OpStep(o) == WriteOp(o) \/ DeleteOp(o) \/ Load(o) \/ Notify(o)

Next ==
    \/ \E o \in Ops : \/ \E r \in Requests : Submit(o, r) \/ Refuse(o, r)
                      \/ OpStep(o)
                      \/ Retire(o)
    \/ \E p \in Paths : Digest(p) \/ DigestFails(p)
    \/ StopChild
    \/ Restart

Spec == Init /\ [][Next]_vars
-----------------------------------------------------------------------------
(* Properties.                                                              *)

StepFits(o) ==
    /\ pc[o] = "idle" <=> req[o] = NoRequest
    /\ pc[o] \in WriteSteps => req[o].kind = "write"
    /\ pc[o] \in DeleteSteps => req[o].kind = "delete"
    /\ pc[o] = "load" => req[o].kind = "read"
    /\ pc[o] = "notify" => req[o].kind \in {"write", "delete"}
    /\ pc[o] # "done" => reply[o] = "none" /\ got[o] = NoMemory

\* Every variable has its type, and every slot stands at a step of the pipeline
\* its own request runs (file_op.rs has one handler for each kind of request).
TypeOK ==
    /\ file \in [Paths -> Maybe]
    /\ index \in [Paths -> Maybe]
    /\ alive \subseteq Children
    /\ inbox \subseteq Paths
    /\ pc \in [Ops -> Steps]
    /\ req \in [Ops -> Requests \cup {NoRequest}]
    /\ reply \in [Ops -> {"none", "ok", "err"}]
    /\ got \in [Ops -> Maybe]
    /\ alone \in [Ops -> BOOLEAN]
    /\ health \in [Paths -> Healths]
    /\ seen \in [Paths -> Maybe]
    /\ unheard \subseteq Paths
    /\ \A o \in Ops : StepFits(o)

Quiet(p) == InWindow(p) = {}

\* What makes the two properties below inductive: inside a window that met no
\* rival the index already holds what the request is about to make true.
WindowHolds(o) ==
    /\ alone[o] => pc[o] \in Window /\ Rivals(o) = {}
    /\ pc[o] \in {"store", "undo"} /\ alone[o] => index[req[o].path] = req[o].content
    /\ pc[o] = "unlink" /\ alone[o] => index[req[o].path] = NoMemory
    /\ pc[o] \in Window /\ ~alone[o] => health[req[o].path] = "suspect"

HealthHolds(p) ==
    Quiet(p) => /\ health[p] = "synced" => index[p] = file[p]
                /\ health[p] = "unindexed" => index[p] = NoMemory

StoresAgree == (\A o \in Ops : WindowHolds(o)) /\ (\A p \in Paths : HealthHolds(p))

\* Searching never points at a file that is gone or holds something else, unless
\* two windows overlapped on the path, an undo failed or could not be sent, or
\* the process died inside the window of a write; and a later write or delete
\* that has the path to itself repairs it (file_op.rs: index first, undo on error).
IndexNeverAhead ==
    \A p \in Paths :
        Quiet(p) /\ health[p] # "suspect" => index[p] \in {NoMemory, file[p]}

\* A stored memory is searchable: a path whose last window closed with success
\* and met no rival has exactly its file in the index, across any number of
\* failed, refused or interrupted requests on it before.
SavedIsSearchable ==
    \A p \in Paths : Quiet(p) /\ health[p] = "synced" => index[p] = file[p]

\* The Synthesizer works from the latest files: a path that is not waiting to be
\* read by it and not about to be announced was last read as it is stored now,
\* unless its last announcement died with the process or with a child, or was
\* dropped when Storage answered the Synthesizer with an error; the next
\* announcement of the path that is read makes up for those.
NothingUnheard ==
    \A p \in Paths :
        \/ p \in inbox \cup unheard
        \/ \E o \in Ops : pc[o] = "notify" /\ req[o].path = p
        \/ seen[p] = file[p]

(* The files alone, seen from the callers, are the registers of MemoryKV.   *)
KVStage(o) == IF pc[o] \in {"idle", "done"} THEN pc[o]
              ELSE IF pc[o] = "notify" THEN "applied" ELSE "open"

KV == INSTANCE MemoryKV WITH store <- file, stage <- [o \in Ops |-> KVStage(o)]

\* Every request takes effect on its file at most once and between its arrival
\* and its answer, an error answer means no effect, and a read returns what was
\* stored at one instant of it, whatever fails and however requests interleave.
ImplementsKV == KV!Spec
=============================================================================
