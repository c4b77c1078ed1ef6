---------------------------- MODULE StorageFiles ----------------------------
(***************************************************************************)
(* The Storage actor: memories and summaries as files.  It handles one     *)
(* message at a time, and writes to a temp file that it then renames.  The *)
(* temp file bears the stem of the name only, so files that differ in      *)
(* their extension share one, which a failed write or a crash leaves       *)
(* behind.  The folder of one agent stands for all: a file is the project  *)
(* it is in, its stem and its extension.                                   *)
(***************************************************************************)
EXTENDS Integers, Sequences

CONSTANTS Ops,        \* request slots
          Memories,   \* the memories callers name: project, stem, extension
          Summaries,  \* the stems of the summaries
          Contents,   \* what a file can hold
          NoMemory,   \* the absence of a file
          Partial     \* what an unfinished write leaves

Chars == {"a", "b", "_", "/", "\\"}
Projects == {"", "_default", "_synthesized", "p", "p/q", ".", ".."}

ASSUME MemoriesAssumption ==
    Memories \subseteq [project : Projects, stem : Seq(Chars), ext : {"md", "txt", "tmp", ""}]
ASSUME SummariesAssumption == Summaries \subseteq Seq(Chars)
ASSUME ContentsAssumption == NoMemory \notin Contents /\ Partial \notin Contents \cup {NoMemory}

VARIABLES disk,   \* file -> what it holds
          queue,  \* the mailbox: slots, first come first
          stage,  \* slot -> how far its request is
          req,    \* slot -> the request
          reply, got

vars == <<disk, queue, stage, req, reply, got>>
-----------------------------------------------------------------------------
(* Paths.                                                                   *)

\* resolve_project: no slash in it, and not one of RESERVED_PROJECTS.  That lets "." pass,
\* which puts the memory beside the project folders, and "..", which puts it beside the
\* folders of the agents.
Valid(project) == project \notin {"p/q", "_default", "_synthesized"}

Bucket(project) == IF project = "" THEN "_default" ELSE project

Flat(stem) == [i \in DOMAIN stem |-> IF stem[i] \in {"/", "\\"} THEN "_" ELSE stem[i]]

\* get_raw_path, within the folder of an agent.
RawPath(m) == <<Bucket(m.project), Flat(m.stem), m.ext>>

SummaryPath(stem) == <<"_synthesized", stem, "md">>

RawPaths == {RawPath(m) : m \in {m \in Memories : Valid(m.project)}}
SummaryPaths == {SummaryPath(s) : s \in Summaries}
Paths == RawPaths \cup SummaryPaths

\* Path::with_extension.  A memory that is called {stem}.tmp is its own temp file.
Temp(path) == <<path[1], path[2], "tmp">>

Files == Paths \cup {Temp(p) : p \in Paths}

\* The files that are no temp file, of another or of themselves.
Kept == {p \in Paths : p[3] # "tmp"}
-----------------------------------------------------------------------------
Requests == [kind : {"write"}, path : Paths, content : Contents]
              \cup [kind : {"read", "delete"}, path : Paths, content : {NoMemory}]

NoRequest == [kind |-> "none", path |-> NoMemory, content |-> NoMemory]

Init ==
    /\ disk = [f \in Files |-> NoMemory]
    /\ queue = <<>>
    /\ stage = [o \in Ops |-> "idle"]
    /\ req = [o \in Ops |-> NoRequest]
    /\ reply = [o \in Ops |-> "none"]
    /\ got = [o \in Ops |-> NoMemory]

\* A message is sent: by a FileOp for a memory, by the Synthesizer for a summary.
Ask(o) ==
    /\ stage[o] = "idle"
    /\ \E r \in Requests : req' = [req EXCEPT ![o] = r]
    /\ stage' = [stage EXCEPT ![o] = "queued"]
    /\ queue' = Append(queue, o)
    /\ UNCHANGED <<disk, reply, got>>

AtWork == {"working", "open", "full", "applied"}

\* Seeded fault: each message is handled by a task of its own.
Concurrently(o) == TRUE

\* An actor takes the next message when it is through with the last.
Alone(o) == \A q \in Ops : stage[q] \notin AtWork

Take(o) ==
    /\ queue # <<>> /\ Head(queue) = o
    /\ Alone(o)
    /\ stage' = [stage EXCEPT ![o] = "working"]
    /\ queue' = Tail(queue)
    /\ UNCHANGED <<disk, req, reply, got>>

Answer(o, result, value) ==
    /\ stage' = [stage EXCEPT ![o] = "done"]
    /\ reply' = [reply EXCEPT ![o] = result]
    /\ got' = [got EXCEPT ![o] = value]
    /\ UNCHANGED <<disk, queue, req>>

Put(o, file, content, next) ==
    /\ disk' = [disk EXCEPT ![file] = content]
    /\ stage' = [stage EXCEPT ![o] = next]
    /\ UNCHANGED <<queue, req, reply, got>>

\* fs::write creates or empties the temp file ...
Open(o) ==
    /\ stage[o] = "working" /\ req[o].kind = "write"
    /\ Put(o, Temp(req[o].path), Partial, "open")

\* ... and fills it.
Fill(o) ==
    /\ stage[o] = "open"
    /\ Put(o, Temp(req[o].path), req[o].content, "full")

\* fs::rename; of a file onto itself it does nothing.
Rename(o) ==
    /\ stage[o] = "full"
    /\ disk' = IF Temp(req[o].path) = req[o].path THEN disk
               ELSE [disk EXCEPT ![req[o].path] = disk[Temp(req[o].path)],
                                 ![Temp(req[o].path)] = NoMemory]
    /\ stage' = [stage EXCEPT ![o] = "applied"]
    /\ UNCHANGED <<queue, req, reply, got>>

\* fs::remove_file; a file that is not there is as good as removed.
Remove(o) ==
    /\ stage[o] = "working" /\ req[o].kind = "delete"
    /\ Put(o, req[o].path, NoMemory, "applied")

Read(o) ==
    /\ stage[o] = "working" /\ req[o].kind = "read"
    /\ Answer(o, "ok", disk[req[o].path])

Succeed(o) == stage[o] = "applied" /\ Answer(o, "ok", NoMemory)

\* Seeded fault: the result of fs::write is not looked at.
WriteIgnored(o) ==
    /\ stage[o] \in {"working", "open", "full"}
    /\ IF stage[o] = "open"
       THEN stage' = [stage EXCEPT ![o] = "full"] /\ UNCHANGED <<disk, queue, req, reply, got>>
       ELSE Answer(o, "err", NoMemory)

\* Any of the calls fails, fs::write with a part of the file written.
Fail(o) ==
    /\ stage[o] \in {"working", "open", "full"}
    /\ Answer(o, "err", NoMemory)

Retire(o) ==
    /\ stage[o] = "done"
    /\ stage' = [stage EXCEPT ![o] = "idle"]
    /\ req' = [req EXCEPT ![o] = NoRequest]
    /\ reply' = [reply EXCEPT ![o] = "none"]
    /\ got' = [got EXCEPT ![o] = NoMemory]
    /\ UNCHANGED <<disk, queue>>

\* The process ends at any point; what is on the disk stays there.
Crash ==
    /\ queue' = <<>>
    /\ stage' = [o \in Ops |-> "idle"]
    /\ req' = [o \in Ops |-> NoRequest]
    /\ reply' = [o \in Ops |-> "none"]
    /\ got' = [o \in Ops |-> NoMemory]
    /\ UNCHANGED disk

Next ==
    \/ \E o \in Ops : \/ Ask(o) \/ Take(o) \/ Open(o) \/ Fill(o) \/ Rename(o) \/ Remove(o)
                      \/ Read(o) \/ Succeed(o) \/ Fail(o) \/ Retire(o)
    \/ Crash

Spec == Init /\ [][Next]_vars
-----------------------------------------------------------------------------
(* Properties.                                                              *)

\* The types, and what the handlers leave to each other: only a write that is open or
\* full has its temp file to itself, and a full one holds the content to be renamed.
TypeOK ==
    /\ disk \in [Files -> Contents \cup {NoMemory, Partial}]
    /\ queue \in Seq(Ops)
    /\ stage \in [Ops -> {"idle", "queued", "done"} \cup AtWork]
    /\ req \in [Ops -> Requests \cup {NoRequest}]
    /\ reply \in [Ops -> {"none", "ok", "err"}]
    /\ got \in [Ops -> Contents \cup {NoMemory, Partial}]
    /\ \A o \in Ops : stage[o] = "full" => disk[Temp(req[o].path)] = req[o].content

\* A request for a file that is a temp file.
Foreign(o) == req[o] # NoRequest /\ req[o].path \notin Kept

KV == INSTANCE MemoryKV WITH
          Paths <- Kept,
          store <- [p \in Kept |-> disk[p]],
          stage <- [o \in Ops |-> IF Foreign(o) THEN "idle"
                                  ELSE IF stage[o] \in {"queued", "working", "open", "full"}
                                  THEN "open" ELSE stage[o]],
          req <- [o \in Ops |-> IF Foreign(o) THEN NoRequest ELSE req[o]],
          reply <- [o \in Ops |-> IF Foreign(o) THEN "none" ELSE reply[o]],
          got <- [o \in Ops |-> IF Foreign(o) THEN NoMemory ELSE got[o]]

\* Storage is a set of atomic registers, one for each name that is no temp file: whatever
\* fails, wherever the process ends, whichever names share a temp file and whoever calls
\* a memory of their own by its name, a file changes from one whole content to another and
\* only for a request that names it, an error means that nothing was done, and a read
\* returns what one write left (src/docs/memory-manager-design.md:46, "Writes are
\* atomic").  A file that is a temp file is not one: a write of it that fails leaves a
\* part of the content, and a write of its namesake takes it away.
ImplementsKV == KV!Spec
=============================================================================
