----------------------------- MODULE Supervisor -----------------------------
(***************************************************************************)
(* The life of the process: main starts the MemoryHub actor, which creates *)
(* its three children in the order of their dependencies; each child opens *)
(* what it needs on its own and may fail at it.  The hub stops when a      *)
(* child has ended or on ctrl-c, and terminates its children in the        *)
(* reverse order.  Requests arrive meanwhile, over new connections while   *)
(* the accept loop runs and over kept ones as long as the process lives.   *)
(* The children of the memory manager are tasks of their own, which outlive *)
(* a manager that panics or fails to start.                                *)
(***************************************************************************)
EXTENDS Integers, Sequences

CONSTANTS Requests,  \* request slots
          Faults     \* the faults the environment may inject

FaultKinds == {"start", "die", "call"}

ASSUME FaultsAssumption == Faults \subseteq FaultKinds

VARIABLES child,    \* child of the hub -> how far it is
          parts,    \* the children of the memory manager that are alive
          serving,  \* the task of axum::serve: "off", "on", or "aborted" and not yet ended
          kept,     \* a client keeps a connection open
          inbox,    \* of the hub: children that have ended, or "Stop"
          hub, main,
          blocking, \* a call to SQLite or the file system is on a blocking thread
          request,  \* slot -> how far a request is
          ended     \* history: children that have ended on their own

hubVars == <<child, parts, serving, kept, inbox, hub, main, blocking, request, ended>>

Children == {"llm", "memory", "http"}
Startup == <<"llm", "memory", "http">>
Parts == {"synthesizer", "storage", "index"}

Inside == {"working", "indexed"}  \* there is a FileOp, with the addresses of all parts
Open == {"accepted", "queued"} \cup Inside

HubInit ==
    /\ child = [c \in Children |-> "none"]
    /\ parts = {}
    /\ serving = "off" /\ kept = FALSE
    /\ inbox = {}
    /\ hub = "starting" /\ main = "waiting"
    /\ blocking = FALSE
    /\ request = [r \in Requests |-> "idle"]
    /\ ended = {}
-----------------------------------------------------------------------------
(* Starting.                                                                *)

\* pre_start of the hub: the next child, with the hub as its supervisor already.
Create ==
    /\ hub = "starting"
    /\ \E i \in 1..3 :
          /\ child[Startup[i]] = "none"
          /\ \A j \in 1..i - 1 : child[Startup[j]] # "none"
          /\ child' = [child EXCEPT ![Startup[i]] = "starting"]
          /\ hub' = IF i = 3 THEN "running" ELSE hub
    /\ UNCHANGED <<parts, serving, kept, inbox, main, blocking, request, ended>>

\* post_start of a child, which runs beside the others: it builds the providers,
\* opens the index and starts the parts, or binds and serves.
Started(c) ==
    /\ child[c] = "starting"
    /\ child' = [child EXCEPT ![c] = "running"]
    /\ parts' = IF c = "memory" THEN Parts ELSE parts
    /\ serving' = IF c = "http" THEN "on" ELSE serving
    /\ UNCHANGED <<kept, inbox, hub, main, blocking, request, ended>>

\* Seeded fault: the supervisor of a child is set once the hub has started.
UnheardIn(c) == IF hub = "starting" THEN inbox ELSE inbox \cup {c}

\* The supervisor gets SupervisionEvent::Terminated or Panicked.
HeardIn(c) == inbox \cup {c}

\* What a manager has started before it fails.
Begun == {{}, {"storage"}, {"storage", "index"}}

\* An unset key, an index that does not open, an address that cannot be bound.
StartFails(c) ==
    /\ "start" \in Faults
    /\ child[c] = "starting"
    /\ child' = [child EXCEPT ![c] = "gone"]
    /\ parts' \in IF c = "memory" THEN Begun ELSE {parts}
    /\ inbox' = HeardIn(c)
    /\ ended' = ended \cup {c}
    /\ UNCHANGED <<serving, kept, hub, main, blocking, request>>

\* A handler panics; HttpServer has none.  The handles of the manager's parts are
\* dropped, which detaches their tasks.
Dies(c) ==
    /\ "die" \in Faults
    /\ c # "http" /\ child[c] = "running"
    /\ child' = [child EXCEPT ![c] = "gone"]
    /\ inbox' = HeardIn(c)
    /\ ended' = ended \cup {c}
    /\ UNCHANGED <<parts, serving, kept, hub, main, blocking, request>>

\* Seeded fault: the FileOps do not keep the addresses they use.
AddressesGone(p) == p # "synthesizer" => "synthesizer" \notin parts

\* A FileOp has the addresses of all parts, the synthesizer those of the other two.
Unreachable(p) ==
    /\ \A r \in Requests : request[r] \notin Inside
    /\ p # "synthesizer" => "synthesizer" \notin parts

\* A part left behind ends once nobody has its address, and when it is done.
OrphanEnds ==
    /\ child["memory"] = "gone"
    /\ \E p \in parts : Unreachable(p) /\ parts' = parts \ {p}
    /\ UNCHANGED <<child, serving, kept, inbox, hub, main, blocking, request, ended>>
-----------------------------------------------------------------------------
(* Stopping.                                                                *)

\* tokio::signal::ctrl_c, and Signal::Stop for the hub, if it is still there.
Interrupt ==
    /\ main = "waiting" /\ hub # "starting"
    /\ main' = "limited"
    /\ inbox' = IF hub = "gone" THEN inbox ELSE inbox \cup {"Stop"}
    /\ UNCHANGED <<child, parts, serving, kept, hub, blocking, request, ended>>

\* Any of these messages stops the hub; what follows it is not handled.
Stop ==
    /\ hub = "running"
    /\ inbox # {}
    /\ hub' = "stopping"
    /\ inbox' = {}
    /\ UNCHANGED <<child, parts, serving, kept, main, blocking, request, ended>>

\* Seeded fault: the children are terminated in the order they were started in.
StartupOrder(c) == \A i, j \in 1..3 : Startup[j] = c /\ i < j => child[Startup[i]] = "gone"

\* post_stop of the hub waits for one child before it turns to the next.
Turn(c) == \A i, j \in 1..3 : Startup[i] = c /\ i < j => child[Startup[j]] = "gone"

\* terminate_actor, which a child heeds once it has started.
Terminate(c) ==
    /\ hub = "stopping"
    /\ child[c] = "running"
    /\ Turn(c)
    /\ child' = [child EXCEPT ![c] = "stopping"]
    /\ UNCHANGED <<parts, serving, kept, inbox, hub, main, blocking, request, ended>>

\* Seeded fault: the index is stopped before storage.
IndexFirst == IF "synthesizer" \in parts THEN "synthesizer"
              ELSE IF "index" \in parts THEN "index" ELSE "storage"

NextPart == IF "synthesizer" \in parts THEN "synthesizer"
            ELSE IF "storage" \in parts THEN "storage" ELSE "index"

\* post_stop of the manager: the part finishes what it is at, however long.
StopPart ==
    /\ child["memory"] = "stopping"
    /\ parts # {}
    /\ parts' = parts \ {NextPart}
    /\ UNCHANGED <<child, serving, kept, inbox, hub, main, blocking, request, ended>>

\* Seeded fault: the handle of the task is dropped, which detaches it.
ServingAfter(c) == serving

\* post_stop of HttpServer aborts the accept loop, not the connections, and does not
\* wait for its end.
ServingThen(c) == IF c = "http" /\ serving = "on" THEN "aborted" ELSE serving

Stopped(c) ==
    /\ child[c] = "stopping"
    /\ c = "memory" => parts = {}
    /\ child' = [child EXCEPT ![c] = "gone"]
    /\ serving' = ServingThen(c)
    /\ UNCHANGED <<parts, kept, inbox, hub, main, blocking, request, ended>>

AcceptEnds ==
    /\ serving = "aborted"
    /\ serving' = "off"
    /\ UNCHANGED <<child, parts, kept, inbox, hub, main, blocking, request, ended>>

AllGone == \A c \in Children : child[c] = "gone"

HubGone ==
    /\ hub = "stopping"
    /\ AllGone
    /\ hub' = "gone"
    /\ UNCHANGED <<child, parts, serving, kept, inbox, main, blocking, request, ended>>

\* main returns, and the runtime that is dropped drops every task.
Leave(how) ==
    /\ main' = how
    /\ request' = [r \in Requests |-> IF request[r] \in Open THEN "cut" ELSE request[r]]
    /\ UNCHANGED <<child, parts, serving, kept, inbox, hub, blocking, ended>>

\* The hub has ended: on ctrl-c, or "stopped unexpectedly".
LeaveAfterHub == main \in {"waiting", "limited"} /\ hub = "gone" /\ Leave("left")

\* Seeded fault: the limit is not applied.
NoLimit == FALSE

\* tokio::time::timeout: five seconds after ctrl-c, at any point of the stop.
Limit == main = "limited"

LeaveAtLimit == Limit /\ hub # "gone" /\ Leave("late")

\* The runtime waits for the blocking calls that have begun, however long they take.
Exit ==
    /\ main \in {"left", "late"}
    /\ ~blocking
    /\ main' = "exited"
    /\ UNCHANGED <<child, parts, serving, kept, inbox, hub, blocking, request, ended>>

\* spawn_blocking and tokio::fs, by any task.
Block ==
    /\ ~blocking
    /\ blocking' = TRUE
    /\ UNCHANGED <<child, parts, serving, kept, inbox, hub, main, request, ended>>

Unblock ==
    /\ blocking
    /\ blocking' = FALSE
    /\ UNCHANGED <<child, parts, serving, kept, inbox, hub, main, request, ended>>
-----------------------------------------------------------------------------
(* Requests.                                                                *)

Arrive(r) ==
    /\ request[r] = "idle"
    /\ serving # "off" \/ kept
    /\ request' = [request EXCEPT ![r] = "accepted"]
    /\ kept' = TRUE
    /\ UNCHANGED <<child, parts, serving, inbox, hub, main, blocking, ended>>

Hangup ==
    /\ kept /\ \A r \in Requests : request[r] \notin Open
    /\ kept' = FALSE
    /\ UNCHANGED <<child, parts, serving, inbox, hub, main, blocking, request, ended>>

SetRequest(r, to) ==
    /\ request' = [request EXCEPT ![r] = to]
    /\ UNCHANGED <<child, parts, serving, kept, inbox, hub, main, blocking, ended>>

\* The manager may not have started yet: its mailbox keeps the message.
Dispatch(r) ==
    /\ request[r] = "accepted"
    /\ SetRequest(r, IF child["memory"] \in {"starting", "running"} THEN "queued" ELSE "error")

\* The manager starts a FileOp; a manager that ends drops its mailbox.
Take(r) ==
    /\ request[r] = "queued"
    /\ \/ child["memory"] = "running" /\ SetRequest(r, "working")
       \/ child["memory"] \in {"stopping", "gone"} /\ SetRequest(r, "error")

\* do_send to the index and then to storage fails when the actor has gone, and
\* either call may fail.  An embedding that finds no LLM service counts as a fault
\* of the index step.
Index(r) ==
    /\ request[r] = "working"
    /\ \/ "index" \in parts /\ SetRequest(r, "indexed")
       \/ /\ "index" \notin parts \/ child["llm"] # "running" \/ "call" \in Faults
          /\ SetRequest(r, "error")

Store(r) ==
    /\ request[r] = "indexed"
    /\ \/ "storage" \in parts /\ SetRequest(r, "ok")
       \/ ("storage" \notin parts \/ "call" \in Faults) /\ SetRequest(r, "error")

\* TimeoutLayer.
Expire(r) == request[r] \in Open /\ SetRequest(r, "error")

Retire(r) == request[r] \in {"ok", "error"} /\ SetRequest(r, "idle")

System == Create \/ Stop \/ HubGone \/ (\E c \in Children : Terminate(c))
            \/ LeaveAfterHub \/ LeaveAtLimit
ChildWork == StopPart \/ (\E c \in Children : Started(c) \/ StartFails(c) \/ Stopped(c))
RequestStep(r) == Arrive(r) \/ Dispatch(r) \/ Take(r) \/ Index(r) \/ Store(r) \/ Expire(r) \/ Retire(r)

Alive == main \in {"waiting", "limited"}

HubNext ==
    \/ /\ Alive
       /\ \/ System \/ ChildWork \/ Interrupt \/ Hangup \/ OrphanEnds \/ AcceptEnds \/ Block
          \/ \E c \in Children : Dies(c)
          \/ \E r \in Requests : RequestStep(r)
    \/ Unblock \/ Exit

\* The hub, main and their timers go on.  Nothing is said of the children, of which one
\* may be at a call that takes minutes, nor of the blocking calls.
HubFairness ==
    /\ WF_hubVars((Alive /\ System) \/ Exit)
    /\ \A r \in Requests : WF_hubVars(Alive /\ Expire(r))

HubSpec == HubInit /\ [][HubNext]_hubVars /\ HubFairness
-----------------------------------------------------------------------------
(* Properties.                                                              *)

\* The types, and what belongs to a child is there only while the child is, or is left
\* behind by one that has ended on its own.
HubTypeOK ==
    /\ child \in [Children -> {"none", "starting", "running", "stopping", "gone"}]
    /\ parts \subseteq Parts /\ serving \in {"off", "on", "aborted"} /\ kept \in BOOLEAN
    /\ inbox \subseteq Children \cup {"Stop"}
    /\ hub \in {"starting", "running", "stopping", "gone"}
    /\ main \in {"waiting", "limited", "left", "late", "exited"}
    /\ blocking \in BOOLEAN
    /\ request \in [Requests -> Open \cup {"idle", "ok", "error", "cut"}]
    /\ ended \subseteq Children
    /\ parts # {} => child["memory"] \in {"running", "stopping"} \/ "memory" \in ended
    /\ serving = "on" => child["http"] \in {"running", "stopping"}

\* When the hub turns to the memory manager the accept loop has been aborted.  When it
\* turns to the LLM service no part of the manager, which may be in the middle of a
\* synthesis, is left that needs it, unless the manager itself has ended before its time
\* and left its parts behind.
DependenciesOutlive ==
    /\ child["memory"] = "stopping" => serving # "on"
    /\ child["llm"] = "stopping" => serving # "on" /\ (parts = {} \/ "memory" \in ended)

\* Storage stops before the index does (manager.rs:144-156), and the FileOps keep both
\* alive when their manager has panicked: no write of a request, however late it came
\* over a kept connection, is stored and answered with success after the index that
\* holds its entry has closed.
OkMeansBoth ==
    [][\A r \in Requests : request'[r] = "ok" /\ request[r] # "ok" =>
          {"storage", "index"} \subseteq parts]_hubVars

\* Ctrl-c ends the process, even when a child never finishes (main.rs:49), provided that
\* a call that is on a blocking thread does.
OperatorEndsProcess == WF_hubVars(Unblock) => ((main = "limited") ~> (main = "exited"))

\* The end of a child, also one at its start, ends the process, provided that the other
\* children can finish: here nothing limits the wait (main.rs:55).
DeathEndsProcess ==
    WF_hubVars(Unblock) /\ WF_hubVars(Alive /\ ChildWork) => ((ended # {}) ~> (main = "exited"))

\* An operator ends the process whatever its children do, and the end of any child at any
\* time ends it when the others let it.
ProcessEnds == OperatorEndsProcess /\ DeathEndsProcess
=============================================================================
