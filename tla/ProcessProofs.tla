---------------------------- MODULE ProcessProofs ----------------------------
(***************************************************************************)
(* Theorems about the two programs as processes, for any number of         *)
(* requests, slots, calls, files and faults: the life of the hub           *)
(* (Supervisor), and the clients that agents and hooks run (McpClient).    *)
(*                                                                         *)
(* A client's identity goes from a file through a call and a process into  *)
(* the requests, and each may be gone while the others remain; so the      *)
(* invariant of the second part says of each what the next relies on:      *)
(*   SlotsFit     which stages of a process and of its calls go together;  *)
(*   RequestsFit  that a request has what its process has, and that of the *)
(*                requests of one call only the last one is open;          *)
(*   SlugsFit     that without a race an id in use is the one in the file; *)
(*   IdsApart     that no id, wherever it is, belongs to two slugs;        *)
(*   AnswersFit   that an answer heard is one the server gave and means;   *)
(*   UploadsFit   how far an upload is, and what it has of each file;      *)
(*   ConfigFits   that URL and token come from one saved configuration.    *)
(***************************************************************************)
EXTENDS Supervisor, McpClient, SequenceTheorems, FiniteSetTheorems, FunctionTheorems, TLAPS

-----------------------------------------------------------------------------
(* The hub.                                                                 *)

\* The index is there as long as storage is, except among the parts a manager has left
\* behind when no FileOp uses them any more.
PartsInOrder ==
    "storage" \in parts /\ "index" \notin parts =>
        child["memory"] = "gone" /\ \A r \in Requests : request[r] \notin Inside

\* There are FileOps only once the manager has started; and one that has ended before its
\* time is gone.
StartsInOrder ==
    /\ \A r \in Requests : request[r] \in Inside => child["memory"] \notin {"none", "starting"}
    /\ "memory" \in ended => child["memory"] = "gone"

\* The children of the hub go in one order: none is told to stop before those that
\* were created after it are gone.
StopsInOrder ==
    /\ child["memory"] = "stopping" => child["http"] = "gone"
    /\ child["llm"] = "stopping" => child["memory"] = "gone" /\ child["http"] = "gone"

HubInv == HubTypeOK /\ PartsInOrder /\ StartsInOrder /\ StopsInOrder
-----------------------------------------------------------------------------
LEMMA StartupIs ==
  /\ Startup[1] = "llm" /\ Startup[2] = "memory" /\ Startup[3] = "http"
  /\ \A c \in Children : \E i \in 1..3 : c = Startup[i]
BY DEF Startup, Children

LEMMA HubInitInv == HubInit => HubInv
BY DEF HubInit, HubInv, HubTypeOK, PartsInOrder, StartsInOrder, StopsInOrder, Children, Parts, Open, Inside

\* A request changes nothing but itself and the connection, and has a FileOp only from
\* a manager that runs.
LEMMA RequestStepInv ==
  ASSUME HubInv, NEW r \in Requests, RequestStep(r)
  PROVE  HubInv'
<1>1. UNCHANGED <<child, parts, serving, inbox, hub, main, blocking, ended>>
  BY DEF RequestStep, Arrive, Dispatch, Take, Index, Store, Expire, Retire, SetRequest
<1>2. kept' \in BOOLEAN
  <2>1. kept' = kept \/ kept' = TRUE
    BY DEF RequestStep, Arrive, Dispatch, Take, Index, Store, Expire, Retire, SetRequest
  <2> QED BY <2>1 DEF HubInv, HubTypeOK
<1>3. PICK to \in Open \cup {"idle", "ok", "error", "cut"} :
         /\ request' = [request EXCEPT ![r] = to]
         /\ to \in Inside => child["memory"] = "running" \/ request[r] \in Inside
  BY DEF RequestStep, Arrive, Dispatch, Take, Index, Store, Expire, Retire, SetRequest, Open, Inside
<1>4. request \in [Requests -> Open \cup {"idle", "ok", "error", "cut"}]
  BY DEF HubInv, HubTypeOK
<1>5. request' \in [Requests -> Open \cup {"idle", "ok", "error", "cut"}]
  BY <1>3, <1>4
<1>6. \A q \in Requests : request'[q] \in Inside => child["memory"] = "running" \/ request[q] \in Inside
  BY <1>3, <1>4
<1>7. StartsInOrder'
  BY <1>1, <1>6 DEF HubInv, StartsInOrder
<1>8. PartsInOrder'
  BY <1>1, <1>6 DEF HubInv, PartsInOrder
<1>9. HubTypeOK' /\ StopsInOrder'
  BY <1>1, <1>2, <1>5 DEF HubInv, HubTypeOK, StopsInOrder
<1> QED BY <1>7, <1>8, <1>9 DEF HubInv

LEMMA HubStepInv ==
  ASSUME HubInv, [HubNext]_hubVars
  PROVE  HubInv'
<1> USE DEF HubInv, PartsInOrder, StartsInOrder, StopsInOrder, Children
<1>1. CASE Create
  BY <1>1, StartupIs DEF Create, HubTypeOK
<1>2. ASSUME NEW c \in Children, Started(c) PROVE HubInv'
  BY <1>2 DEF Started, HubTypeOK, Parts
<1>3. ASSUME NEW c \in Children, StartFails(c) PROVE HubInv'
  <2>1. CASE c = "memory"
    <3>1. \A r \in Requests : request[r] \notin Inside
      BY <1>3, <2>1 DEF StartFails
    <3> QED BY <1>3, <2>1, <3>1 DEF StartFails, HeardIn, HubTypeOK, Begun, Parts
  <2>2. CASE c # "memory"
    BY <1>3, <2>2 DEF StartFails, HeardIn, HubTypeOK
  <2> QED BY <2>1, <2>2
<1>4. ASSUME NEW c \in Children, Dies(c) PROVE HubInv'
  BY <1>4 DEF Dies, HeardIn, HubTypeOK
<1>5. CASE Interrupt
  BY <1>5 DEF Interrupt, HubTypeOK
<1>6. CASE Stop
  BY <1>6 DEF Stop, HubTypeOK
<1>7. ASSUME NEW c \in Children, Terminate(c) PROVE HubInv'
  <2>1. /\ c = "memory" => child["http"] = "gone"
        /\ c = "llm" => child["memory"] = "gone" /\ child["http"] = "gone"
    BY <1>7, StartupIs DEF Terminate, Turn
  <2> QED BY <1>7, <2>1 DEF Terminate, HubTypeOK
<1>8. CASE StopPart
  BY <1>8 DEF StopPart, NextPart, HubTypeOK, Parts
<1>9. ASSUME NEW c \in Children, Stopped(c) PROVE HubInv'
  BY <1>9 DEF Stopped, ServingThen, HubTypeOK
<1>10. CASE HubGone
  BY <1>10 DEF HubGone, HubTypeOK
<1>11. CASE LeaveAfterHub \/ LeaveAtLimit
  <2>1. PICK how \in {"left", "late"} : Leave(how)
    BY <1>11 DEF LeaveAfterHub, LeaveAtLimit
  <2>2. /\ request' \in [Requests -> Open \cup {"idle", "ok", "error", "cut"}]
        /\ \A r \in Requests : request'[r] \in Inside => request[r] \in Inside
    BY <2>1 DEF Leave, HubTypeOK, Open, Inside
  <2>3. main' \in {"left", "late"} /\ UNCHANGED <<child, parts, serving, kept, inbox, hub, blocking, ended>>
    BY <2>1 DEF Leave
  <2> QED BY <2>2, <2>3 DEF HubTypeOK
<1>12. CASE Hangup
  <2>1. kept' = FALSE /\ UNCHANGED <<child, parts, serving, inbox, hub, main, blocking, request, ended>>
    BY <1>12 DEF Hangup
  <2>2. HubTypeOK'
    BY <2>1 DEF HubTypeOK
  <2> HIDE DEF HubInv, PartsInOrder, StartsInOrder, StopsInOrder
  <2>3. PartsInOrder'
    BY <2>1 DEF HubInv, PartsInOrder
  <2>4. StartsInOrder' /\ StopsInOrder'
    BY <2>1 DEF HubInv, StartsInOrder, StopsInOrder
  <2> QED BY <2>2, <2>3, <2>4 DEF HubInv
<1>13. CASE UNCHANGED hubVars
  <2>1. UNCHANGED <<child, parts, serving, kept, inbox, hub, main, blocking, request, ended>>
    BY <1>13 DEF hubVars
  <2> QED BY <2>1 DEF HubTypeOK
<1>14. ASSUME NEW r \in Requests, RequestStep(r) PROVE HubInv'
  BY <1>14, RequestStepInv
<1>15. CASE OrphanEnds
  <2>1. PICK p \in parts : Unreachable(p) /\ parts' = parts \ {p}
    BY <1>15 DEF OrphanEnds
  <2>2. /\ child["memory"] = "gone" /\ \A r \in Requests : request[r] \notin Inside
        /\ UNCHANGED <<child, serving, kept, inbox, hub, main, blocking, request, ended>>
    BY <1>15, <2>1 DEF OrphanEnds, Unreachable
  <2> QED BY <2>1, <2>2 DEF HubTypeOK
<1>16. CASE AcceptEnds
  BY <1>16 DEF AcceptEnds, HubTypeOK
<1>17. CASE Block \/ Unblock
  <2>1. /\ blocking' \in BOOLEAN
        /\ UNCHANGED <<child, parts, serving, kept, inbox, hub, main, request, ended>>
    BY <1>17 DEF Block, Unblock
  <2> QED BY <2>1 DEF HubTypeOK
<1>18. CASE Exit
  BY <1>18 DEF Exit, HubTypeOK
<1> QED
  BY <1>1, <1>2, <1>3, <1>4, <1>5, <1>6, <1>7, <1>8, <1>9, <1>10, <1>11, <1>12, <1>13, <1>14,
     <1>15, <1>16, <1>17, <1>18
  DEF HubNext, System, ChildWork

LEMMA HubAlways == HubSpec => []HubInv
BY HubInitInv, HubStepInv, PTL DEF HubSpec

\* The types, and what belongs to a child is there only while the child is, or is left
\* behind by one that has ended on its own.
THEOREM HubTypeCorrect == HubSpec => []HubTypeOK
<1>1. HubInv => HubTypeOK
  BY DEF HubInv
<1> QED BY <1>1, HubAlways, PTL

\* The stop takes the children apart from the top: the memory manager is not told to stop
\* before the accept loop has been aborted, nor the LLM service while a part of a manager
\* that was stopped is there; only a manager that ended by itself may leave parts behind.
THEOREM DependenciesAlwaysOutlive == HubSpec => []DependenciesOutlive
<1>1. HubInv => DependenciesOutlive
  BY DEF HubInv, HubTypeOK, StopsInOrder, DependenciesOutlive
<1> QED BY <1>1, HubAlways, PTL

\* No write succeeds when the index that holds its entry has closed, also where a manager
\* has panicked and left index and storage behind.
THEOREM OkAlwaysMeansBoth == HubSpec => OkMeansBoth
<1>1. ASSUME HubInv, [HubNext]_hubVars
      PROVE  [\A r \in Requests : request'[r] = "ok" /\ request[r] # "ok" =>
                 {"storage", "index"} \subseteq parts]_hubVars
  <2> SUFFICES ASSUME NEW r \in Requests, request'[r] = "ok", request[r] # "ok", HubNext
               PROVE  {"storage", "index"} \subseteq parts
    BY <1>1 DEF hubVars
  <2>1. request \in [Requests -> Open \cup {"idle", "ok", "error", "cut"}]
    BY <1>1 DEF HubInv, HubTypeOK
  <2>2. PICK q \in Requests : RequestStep(q)
    BY <2>1 DEF HubNext, System, ChildWork, Create, Started, StartFails, Dies, Interrupt, Stop,
       Terminate, StopPart, Stopped, HubGone, LeaveAfterHub, LeaveAtLimit, Leave, Hangup,
       OrphanEnds, AcceptEnds, Block, Unblock, Exit
  <2>3. Store(q) /\ "storage" \in parts /\ request[q] \in Inside
    BY <2>1, <2>2 DEF RequestStep, Arrive, Dispatch, Take, Index, Store, Expire, Retire, SetRequest, Inside
  <2> QED BY <1>1, <2>3 DEF HubInv, PartsInOrder
<1> QED BY <1>1, HubAlways, PTL DEF HubSpec, OkMeansBoth
-----------------------------------------------------------------------------
(* The clients: what their state is made of, and the invariant.             *)

Processes ==
    [run : Nat, stage : {"off", "starting", "up", "saving", "done", "failed"},
     url : {None} \cup Setups, token : {None} \cup Setups, cell : Ids]
Launches == [kind : Kinds, name : Names, env : Environments]
Requested ==
    [run : Nat, task : Nat, op : {"write", "upload", "read", "search", "summary"},
     file : {""} \cup Files, id : Ids, url : {None} \cup Setups, token : {None} \cup Setups,
     answer : {"none", "ok", "missing", "denied", "failed"},
     told : {"none", "done", "nothing", "error"}]

TypesFit ==
    /\ idFile \in [Slugs -> Nat] /\ config \in Sources
    /\ runs \in Seq(Launches)
    /\ proc \in [Procs -> Processes]
    /\ task = [p \in Procs |-> task[p]]
    /\ \A p \in Procs : task[p] \in [Tasks[p] -> Calls]
    /\ reqs \in Seq(Requested)
    /\ stored \subseteq DOMAIN reqs /\ remade \subseteq Slugs

\* A process is one of those that were started, and no other slot holds it.
ProcFits(p) ==
    /\ proc[p].run \in 0..Len(runs)
    /\ proc[p].stage # "off" => proc[p].run > 0
    /\ \A q \in Procs : proc[p].run = proc[q].run /\ proc[p].run > 0 => p = q
    /\ proc[p].stage \in {"off", "starting"} => proc[p].cell = None
    /\ proc[p].stage = "up" =>
          proc[p].url # None /\ proc[p].token # None /\ Kind(p) \in {"mcp", "upload", "recall"}
    /\ proc[p].stage = "saving" =>
          /\ Kind(p) = "config"
          /\ proc[p].url # None /\ proc[p].token # None => proc[p].url = proc[p].token

\* How far a call is, and the process it belongs to.
CallFits(p, t) ==
    LET call == task[p][t]
    IN  /\ Len(call.told) <= Len(call.items)
        /\ proc[p].stage \in {"off", "starting"} => call = NoCall
        /\ call.stage # "idle" =>
              /\ proc[p].stage = "up"
              /\ IF Kind(p) = "mcp" THEN call.told = <<>> /\ Len(call.items) = 1 ELSE t = First
        /\ call.stage = "sent" => Len(call.told) < Len(call.items)
        /\ call.stage \in {"ready", "sent"} => proc[p].cell # None
        /\ call.stage \in Writing =>
              /\ call.made > 0 /\ proc[p].cell = None /\ EnvOf(p).id # Given
              /\ \A u \in Tasks[p] : task[p][u].stage \in Writing => u = t

SlotsFit == \A p \in Procs : ProcFits(p) /\ \A t \in Tasks[p] : CallFits(p, t)

\* A request and the process that made it, as long as that is there.
MakerFits(n, p) ==
    proc[p].run = reqs[n].run =>
        /\ reqs[n].id = proc[p].cell /\ reqs[n].url = proc[p].url /\ reqs[n].token = proc[p].token
        /\ reqs[n].task \in Tasks[p]
        /\ reqs[n].told = "none" =>
              /\ task[p][reqs[n].task].stage = "sent"
              /\ reqs[n].op = Item(p, reqs[n].task).op /\ reqs[n].file = Item(p, reqs[n].task).file

\* Two requests of one process: the same identity and server, and one call at a time.
PairFits(m, n) ==
    reqs[m].run = reqs[n].run =>
        /\ reqs[m].id = reqs[n].id /\ reqs[m].url = reqs[n].url
        /\ m < n /\ reqs[m].task = reqs[n].task => reqs[m].told # "none"

RequestsFit ==
    \A n \in DOMAIN reqs :
        /\ reqs[n].run \in 1..Len(runs) /\ reqs[n].id # None
        /\ \A p \in Procs : MakerFits(n, p)
        /\ \A m \in DOMAIN reqs : PairFits(m, n)

\* An identity is where it can be found again: in the file, once somebody uses it.
SlugFits(s) ==
    s \notin remade =>
        /\ \A p \in Procs :
              proc[p].run > 0 /\ SlugOf(p) = s /\ EnvOf(p).id # Given =>
                  /\ proc[p].cell \in {None, idFile[s]}
                  /\ \A t \in Tasks[p] : task[p][t].stage \in Writing => 
                        /\ idFile[s] = None
                        /\ \A q \in Procs : \A u \in Tasks[q] :
                              task[q][u].stage \in Writing /\ SlugOf(q) = s => q = p
        /\ \A n \in DOMAIN reqs :
              SlugFor[NameOf(n)] = s /\ ~Chosen(n) => reqs[n].id = idFile[s]

SlugsFit == \A s \in Slugs : SlugFits(s)

\* An id belongs to a client when it is in its file, in one of its processes or calls,
\* or in one of their requests.
Owns(s, x) ==
    \/ x = idFile[s]
    \/ \E p \in Procs : /\ proc[p].run > 0 /\ SlugOf(p) = s /\ EnvOf(p).id # Given
                        /\ x = proc[p].cell
    \/ \E p \in Procs : \E t \in Tasks[p] : /\ task[p][t].stage \in Writing /\ SlugOf(p) = s
                                            /\ x = task[p][t].made
    \/ \E n \in DOMAIN reqs : /\ SlugFor[NameOf(n)] = s /\ ~Chosen(n)
                              /\ x = reqs[n].id

IdsApart == \A r, s \in Slugs : \A x : Owns(r, x) /\ Owns(s, x) /\ x # None => r = s

\* What a caller is told, and what the server answered and holds.
Told(n) ==
    /\ reqs[n].told = "done" => reqs[n].answer = "ok"
    /\ reqs[n].told = "nothing" => reqs[n].answer = "missing" /\ reqs[n].op \in {"read", "summary"}
    /\ reqs[n].op \in Writes /\ reqs[n].answer = "ok" => \E m \in stored : SameMemory(m, n)

ReadFits(m, n) ==
    /\ m < n /\ reqs[m].run = reqs[n].run /\ reqs[m].task = reqs[n].task
    /\ reqs[m].op \in Writes /\ reqs[m].told = "done"
    /\ reqs[n].op = "read" /\ reqs[n].file = reqs[m].file
    => reqs[n].answer # "missing"

AnswersFit == \A n \in DOMAIN reqs : Told(n) /\ \A m \in DOMAIN reqs : ReadFits(m, n)

Uploads == {item \in Items : item.op = "upload"}

\* Where an upload command stands in its list.
UploadFits(p) ==
    proc[p].run > 0 /\ Kind(p) = "upload" =>
        LET call == task[p][First]
        IN  /\ call.items \in Seq(Uploads)
            /\ proc[p].stage = "done" => Len(call.told) = Len(call.items)
            /\ \A i \in DOMAIN call.told :
                  \/ call.told[i] = "error"
                  \/ \E n \in DOMAIN reqs : /\ reqs[n].run = proc[p].run /\ reqs[n].answer = "ok"
                                            /\ reqs[n].file = call.items[i].file

UploadsFit == \A p \in Procs : UploadFits(p)

\* The URL and the token that config.toml gives belong together, and those a process
\* has from it.
NoEnv(run) == runs[run].env.url = None /\ runs[run].env.token = None

ConfigFits ==
    /\ config.url # None /\ config.token # None => config.url = config.token
    /\ \A p \in Procs : proc[p].stage = "up" /\ NoEnv(proc[p].run) => proc[p].url = proc[p].token
    /\ \A n \in DOMAIN reqs : NoEnv(reqs[n].run) => reqs[n].url = reqs[n].token

McpInv ==
    /\ TypesFit /\ SlotsFit /\ RequestsFit /\ SlugsFit /\ IdsApart /\ AnswersFit /\ UploadsFit
    /\ ConfigFits
-----------------------------------------------------------------------------
\* What a function gives for the elements of a finite set is finite.
LEMMA ImageIsFinite ==
  ASSUME NEW S, IsFiniteSet(S), NEW f
  PROVE  IsFiniteSet({f[x] : x \in S})
<1> DEFINE T == {f[x] : x \in S}
           g == [x \in S |-> f[x]]
<1>1. g \in [S -> T] /\ \A y \in T : \E x \in S : g[x] = y
  OBVIOUS
<1> HIDE DEF g, T
<1>2. g \in Surjection(S, T)
  BY <1>1, Fun_IsSurj
<1>3. IsFiniteSet(T)
  BY <1>2, FS_Surjection
<1> QED BY <1>3 DEF T

LEMMA ThreadsAreFinite == IsFiniteSet(Threads)
<1>1. ASSUME NEW p \in Procs PROVE IsFiniteSet({p} \X Tasks[p])
  <2>1. IsFiniteSet({p}) /\ IsFiniteSet(Tasks[p])
    BY FS_Singleton, SlotsAssumption
  <2> QED BY <2>1, FS_Product
<1> DEFINE f == [p \in Procs |-> {p} \X Tasks[p]]
<1>2. \A p \in Procs : f[p] = {p} \X Tasks[p]
  OBVIOUS
<1> HIDE DEF f
<1>3. Threads = UNION {f[p] : p \in Procs}
  BY <1>2 DEF Threads
<1>4. IsFiniteSet({f[p] : p \in Procs})
  BY ImageIsFinite, SlotsAssumption
<1>5. \A T \in {f[p] : p \in Procs} : IsFiniteSet(T)
  BY <1>1, <1>2
<1> QED BY <1>3, <1>4, <1>5, FS_UNION

LEMMA UsedIsFinite ==
  ASSUME TypesFit
  PROVE  IsFiniteSet(Used)
<1>1. IsFiniteSet({idFile[s] : s \in Slugs})
  <2>1. IsFiniteSet({SlugFor[name] : name \in Names})
    <3>1. IsFiniteSet(Names)
      BY SlotsAssumption
    <3> QED BY <3>1, ImageIsFinite
  <2>2. IsFiniteSet(Slugs)
    BY <2>1 DEF Slugs
  <2> QED BY <2>2, ImageIsFinite
<1>2. IsFiniteSet({proc[p].cell : p \in Procs})
  <2> DEFINE f == [p \in Procs |-> proc[p].cell]
  <2>1. {proc[p].cell : p \in Procs} = {f[p] : p \in Procs}
    OBVIOUS
  <2>2. IsFiniteSet(Procs)
    BY SlotsAssumption
  <2> HIDE DEF f
  <2> QED BY <2>1, <2>2, ImageIsFinite
<1>3. IsFiniteSet({task[th[1]][th[2]].made : th \in Threads})
  <2> DEFINE f == [th \in Threads |-> task[th[1]][th[2]].made]
  <2>1. {task[th[1]][th[2]].made : th \in Threads} = {f[th] : th \in Threads}
    OBVIOUS
  <2> HIDE DEF f
  <2> QED BY <2>1, ImageIsFinite, ThreadsAreFinite
<1>4. IsFiniteSet({reqs[n].id : n \in DOMAIN reqs})
  <2> DEFINE f == [n \in DOMAIN reqs |-> reqs[n].id]
  <2>1. {reqs[n].id : n \in DOMAIN reqs} = {f[n] : n \in DOMAIN reqs}
    OBVIOUS
  <2>2. IsFiniteSet(DOMAIN reqs)
    <3>1. DOMAIN reqs = 1..Len(reqs) /\ Len(reqs) \in Nat
      BY DEF TypesFit
    <3> QED BY <3>1, FS_Interval
  <2> HIDE DEF f
  <2> QED BY <2>1, <2>2, ImageIsFinite
<1> QED BY <1>1, <1>2, <1>3, <1>4, FS_Union DEF Used

\* Among one more numbers than there are ids is one nobody has.
LEMMA FreshIsNew ==
  ASSUME TypesFit
  PROVE  Fresh \in Nat /\ Fresh > 0 /\ Fresh \notin Used
<1> DEFINE k == Cardinality(Used)
<1>1. IsFiniteSet(Used) /\ k \in Nat
  BY UsedIsFinite, FS_CardinalityType
<1>2. \E i \in 1..k + 1 : i \notin Used
  <2> SUFFICES ASSUME 1..k + 1 \subseteq Used PROVE FALSE
    OBVIOUS
  <2>1. Cardinality(1..k + 1) <= k
    BY <1>1, FS_Subset
  <2>2. k + 1 \in Int /\ 1 \in Int /\ ~(1 > k + 1)
    BY <1>1
  <2>3. Cardinality(1..k + 1) = k + 1
    BY <1>1, <2>2, FS_Interval
  <2> QED BY <1>1, <2>1, <2>3
<1>3. Fresh \in 1..k + 1 /\ Fresh \notin Used
  BY <1>2 DEF Fresh
<1> HIDE DEF k
<1> QED BY <1>1, <1>3
-----------------------------------------------------------------------------
(* What each action does, call by call.                                     *)

\* No process but p, and no call but p's t.
OnlyProc(p) == \A q \in Procs : q # p => proc'[q] = proc[q]
OnlyCall(p, t) == \A q \in Procs : \A u \in Tasks[q] : q # p \/ u # t => task'[q][u] = task[q][u]

TasksTyped ==
    task = [p \in Procs |-> task[p]] /\ \A p \in Procs : task[p] \in [Tasks[p] -> Calls]

LEMMA ConstantsTyped ==
  /\ NoCall \in Calls /\ Off \in Processes
  /\ \A p \in Procs : Idle(p) \in [Tasks[p] -> Calls] /\ First \in Tasks[p]
<1>1. <<>> \in Seq(Items) /\ <<>> \in Seq({"done", "nothing", "error"})
  OBVIOUS
<1>2. NoCall \in Calls
  BY <1>1 DEF NoCall, Calls, None
<1> QED BY <1>2, SlotsAssumption DEF Off, Processes, Ids, None, Idle, First

LEMMA CallSet ==
  ASSUME TasksTyped, NEW p \in Procs, NEW t \in Tasks[p], NEW c \in Calls,
         task' = [task EXCEPT ![p][t] = c]
  PROVE  TasksTyped' /\ OnlyCall(p, t) /\ task'[p][t] = c
BY DEF TasksTyped, OnlyCall

LEMMA CallsCleared ==
  ASSUME TasksTyped, NEW p \in Procs, task' = [task EXCEPT ![p] = Idle(p)]
  PROVE  /\ TasksTyped' /\ \A u \in Tasks[p] : task'[p][u] = NoCall
         /\ \A q \in Procs : q # p => task'[q] = task[q]
BY ConstantsTyped DEF TasksTyped, Idle

LEMMA ProcSet ==
  ASSUME proc \in [Procs -> Processes], NEW p \in Procs, NEW c \in Processes,
         proc' = [proc EXCEPT ![p] = c]
  PROVE  proc' \in [Procs -> Processes] /\ OnlyProc(p) /\ proc'[p] = c
BY DEF OnlyProc

LEMMA StartDoes ==
  ASSUME TypesFit, NEW p \in Procs, Start(p)
  PROVE  /\ TypesFit'
         /\ proc[p].stage \notin Running
         /\ \E s \in Launches : runs' = Append(runs, s)
         /\ proc'[p] = [Off EXCEPT !.run = Len(runs) + 1, !.stage = "starting"]
         /\ OnlyProc(p)
         /\ \A u \in Tasks[p] : task'[p][u] = NoCall
         /\ \A q \in Procs : q # p => task'[q] = task[q]
         /\ UNCHANGED <<idFile, config, reqs, stored, remade>>
<1>1. PICK s \in Starts[p] : runs' = Append(runs, s)
  BY DEF Start
<1>2. s \in Launches
  BY StartsAssumption DEF Launches
<1>3. runs' \in Seq(Launches) /\ Len(runs) \in Nat
  BY <1>1, <1>2 DEF TypesFit
<1> DEFINE c == [Off EXCEPT !.run = Len(runs) + 1, !.stage = "starting"]
<1>4. c \in Processes
  <2>1. Len(runs) + 1 \in Nat
    BY <1>3 DEF TypesFit
  <2> QED BY <2>1 DEF Off, Processes, None, Ids
<1> HIDE DEF c
<1>5. proc' = [proc EXCEPT ![p] = c]
  BY DEF Start, c
<1>6. proc' \in [Procs -> Processes] /\ OnlyProc(p) /\ proc'[p] = c
  BY <1>4, <1>5, ProcSet DEF TypesFit
<1>7. /\ TasksTyped' /\ \A u \in Tasks[p] : task'[p][u] = NoCall
      /\ \A q \in Procs : q # p => task'[q] = task[q]
  BY CallsCleared DEF Start, TypesFit, TasksTyped
<1>8. proc[p].stage \notin Running /\ UNCHANGED <<idFile, config, reqs, stored, remade>>
  BY DEF Start
<1>9. TypesFit'
  BY <1>3, <1>6, <1>7, <1>8 DEF TypesFit, TasksTyped
<1> QED BY <1>1, <1>2, <1>6, <1>7, <1>8, <1>9 DEF c

LEMMA KillDoes ==
  ASSUME TypesFit, NEW p \in Procs, Kill(p)
  PROVE  /\ TypesFit'
         /\ proc'[p] = Off /\ OnlyProc(p)
         /\ \A u \in Tasks[p] : task'[p][u] = NoCall
         /\ \A q \in Procs : q # p => task'[q] = task[q]
         /\ UNCHANGED <<idFile, config, runs, reqs, stored, remade>>
<1>1. proc' \in [Procs -> Processes] /\ OnlyProc(p) /\ proc'[p] = Off
  BY ProcSet, ConstantsTyped DEF Kill, TypesFit
<1>2. /\ TasksTyped' /\ \A u \in Tasks[p] : task'[p][u] = NoCall
      /\ \A q \in Procs : q # p => task'[q] = task[q]
  BY CallsCleared DEF Kill, TypesFit, TasksTyped
<1>3. UNCHANGED <<idFile, config, runs, reqs, stored, remade>>
  BY DEF Kill
<1>4. TypesFit'
  BY <1>1, <1>2, <1>3 DEF TypesFit, TasksTyped
<1> QED BY <1>1, <1>2, <1>3, <1>4

LEMMA SlotTyped ==
  ASSUME TypesFit, NEW p \in Procs
  PROVE  /\ proc[p] \in Processes
         /\ \A t \in Tasks[p] : task[p][t] \in Calls
         /\ SlotsFit => /\ (proc[p].stage # "off" => runs[proc[p].run] \in Launches)
                        /\ Len(runs) \in Nat
<1>1. proc[p] \in Processes /\ \A t \in Tasks[p] : task[p][t] \in Calls
  BY DEF TypesFit
<1>2. Len(runs) \in Nat /\ \A i \in 1..Len(runs) : runs[i] \in Launches
  BY ElementOfSeq, LenProperties DEF TypesFit
<1>3. ASSUME SlotsFit, proc[p].stage # "off" PROVE runs[proc[p].run] \in Launches
  <2>1. proc[p].run \in 0..Len(runs) /\ proc[p].run > 0
    BY <1>3 DEF SlotsFit, ProcFits
  <2>2. proc[p].run \in 1..Len(runs)
    BY <1>2, <2>1
  <2> QED BY <1>2, <2>2
<1> QED BY <1>1, <1>2, <1>3

LEMMA LoadDoes ==
  ASSUME TypesFit, SlotsFit, NEW p \in Procs, Load(p)
  PROVE  /\ TypesFit'
         /\ proc[p].stage = "starting" /\ Kind(p) # "config"
         /\ OnlyProc(p) /\ OnlyCall(p, First)
         /\ proc'[p].run = proc[p].run /\ proc'[p].cell = None
         /\ \/ proc'[p].stage \in {"failed", "done"} /\ task' = task
               /\ (proc'[p].stage = "done" => Kind(p) = "check")
            \/ /\ proc'[p].stage = "up" /\ Kind(p) \in {"mcp", "upload", "recall"}
               /\ \E file \in {config, NoConfig} :
                     /\ proc'[p].url = Resolved(Kind(p), EnvOf(p), file).url
                     /\ proc'[p].token = Resolved(Kind(p), EnvOf(p), file).token
               /\ proc'[p].url # None /\ proc'[p].token # None
               /\ \/ Kind(p) = "mcp" /\ task' = task
                  \/ /\ Kind(p) # "mcp"
                     /\ \E items \in Lists(Kind(p)) :
                           task'[p][First] = [NoCall EXCEPT !.stage = "asked", !.items = items]
         /\ UNCHANGED <<idFile, config, runs, reqs, stored, remade>>
<1>0. PICK file \in {config, NoConfig} :
         LET c == Resolved(Kind(p), EnvOf(p), file)
             ok == Usable(c, EnvOf(p))
             stage == IF ~ok THEN "failed" ELSE IF Kind(p) = "check" THEN "done" ELSE "up"
         IN  /\ proc' = [proc EXCEPT ![p].stage = stage,
                                     ![p].url = IF stage = "up" THEN c.url ELSE None,
                                     ![p].token = IF stage = "up" THEN c.token ELSE None]
             /\ \E items \in Lists(Kind(p)) :
                   task' = IF stage = "up" /\ Kind(p) # "mcp"
                           THEN [task EXCEPT ![p][First].stage = "asked", ![p][First].items = items]
                           ELSE task
  BY Zenon DEF Load
<1> DEFINE r == Resolved(Kind(p), EnvOf(p), file)
           ok == Usable(r, EnvOf(p))
           stage == IF ~ok THEN "failed" ELSE IF Kind(p) = "check" THEN "done" ELSE "up"
           c == [proc[p] EXCEPT !.stage = stage, !.url = IF stage = "up" THEN r.url ELSE None,
                                !.token = IF stage = "up" THEN r.token ELSE None]
<1>1. proc[p].stage = "starting" /\ Kind(p) # "config"
  BY DEF Load
<1>2. proc[p] \in Processes /\ runs[proc[p].run] \in Launches /\ proc[p].cell = None
  BY <1>1, SlotTyped DEF SlotsFit, ProcFits
<1>3. Kind(p) \in Kinds /\ EnvOf(p) \in Environments /\ file \in Sources
  BY <1>2 DEF Kind, EnvOf, Launches, TypesFit, NoConfig, Sources
<1>4. r.url \in {None} \cup Setups /\ r.token \in {None} \cup Setups
  BY <1>3 DEF Resolved, Environments, Sources
<1>5. c \in Processes /\ c.run = proc[p].run /\ c.cell = None /\ c.stage = stage
      /\ (stage = "up" => c.url = r.url /\ c.token = r.token)
  BY <1>2, <1>4 DEF Processes
<1>6. proc' = [proc EXCEPT ![p] = c]
  BY <1>0
<1> HIDE DEF c
<1>7. proc' \in [Procs -> Processes] /\ OnlyProc(p) /\ proc'[p] = c
  BY <1>5, <1>6, ProcSet DEF TypesFit
<1>8. First \in Tasks[p] /\ task[p][First] = NoCall
  BY <1>1, ConstantsTyped DEF SlotsFit, CallFits
<1>9. PICK items \in Lists(Kind(p)) :
         task' = IF stage = "up" /\ Kind(p) # "mcp"
                 THEN [task EXCEPT ![p][First].stage = "asked", ![p][First].items = items]
                 ELSE task
  BY <1>0
<1> DEFINE d == [NoCall EXCEPT !.stage = "asked", !.items = items]
<1>10. CASE stage = "up" /\ Kind(p) # "mcp"
  <2>1. items \in Seq(Items)
    <3>1. CASE Kind(p) = "upload"
      <4>1. items \in Seq(Uploads)
        BY <3>1, ToolsAssumption DEF Lists, Uploads
      <4>2. Uploads \subseteq Items
        BY DEF Uploads
      <4> QED BY <4>1, <4>2, SeqMonotonic
    <3>2. CASE Kind(p) = "recall"
      <4>1. [op |-> "summary", file |-> "", readable |-> TRUE] \in Items
        BY DEF Items
      <4>2. items = <<[op |-> "summary", file |-> "", readable |-> TRUE]>>
        BY Zenon, <3>2 DEF Lists
      <4>3. \A item \in Items : <<item>> \in Seq(Items)
        OBVIOUS
      <4> QED BY Zenon, <4>1, <4>2, <4>3
    <3>3. CASE Kind(p) \notin {"upload", "recall"}
      <4>1. items = <<>>
        BY Zenon, <3>3 DEF Lists
      <4> QED BY <4>1
    <3> QED BY <3>1, <3>2, <3>3
  <2>2. d \in Calls
    <3>1. <<>> \in Seq({"done", "nothing", "error"}) /\ None \in Nat
      BY DEF None
    <3> QED BY <2>1, <3>1 DEF NoCall, Calls
  <2>3. task' = [task EXCEPT ![p][First] = d]
    <3>1. task' = [task EXCEPT ![p][First] = [task[p][First] EXCEPT !.stage = "asked",
                                                                    !.items = items]]
      BY <1>9, <1>10
    <3> QED BY <1>8, <3>1
  <2> HIDE DEF d
  <2>4. TasksTyped' /\ OnlyCall(p, First) /\ task'[p][First] = d
    BY <1>8, <2>2, <2>3, CallSet DEF TypesFit, TasksTyped
  <2>5. TypesFit' /\ UNCHANGED <<idFile, config, runs, reqs, stored, remade>>
    BY <1>7, <2>4 DEF Load, TypesFit, TasksTyped
  <2>6. Kind(p) \in {"upload", "recall"} /\ r.url # None /\ r.token # None
    BY <1>1, <1>3, <1>10 DEF Usable, Kinds
  <2> QED BY Zenon, <1>1, <1>5, <1>7, <1>10, <2>4, <2>5, <2>6 DEF d
<1>11. CASE ~(stage = "up" /\ Kind(p) # "mcp")
  <2>1. task' = task
    BY <1>9, <1>11
  <2>2. OnlyCall(p, First)
    BY <2>1 DEF OnlyCall
  <2>3. TypesFit' /\ UNCHANGED <<idFile, config, runs, reqs, stored, remade>>
    BY <1>7, <2>1 DEF Load, TypesFit
  <2>4. stage = "up" => r.url # None /\ r.token # None
    BY DEF Usable
  <2>5. stage \in {"failed", "done", "up"} /\ (stage = "done" => Kind(p) = "check")
    OBVIOUS
  <2> QED BY Zenon, <1>1, <1>5, <1>7, <1>11, <2>1, <2>2, <2>3, <2>4, <2>5
<1> QED BY Zenon, <1>10, <1>11

LEMMA SaveTruncatesDoes ==
  ASSUME TypesFit, NEW p \in Procs, SaveTruncates(p)
  PROVE  /\ TypesFit'
         /\ proc[p].stage = "starting" /\ Kind(p) = "config"
         /\ OnlyProc(p) /\ proc'[p].stage = "saving"
         /\ proc'[p].run = proc[p].run /\ proc'[p].cell = proc[p].cell
         /\ proc'[p].url # None /\ proc'[p].token # None => proc'[p].url = proc'[p].token
         /\ config' = NoConfig
         /\ UNCHANGED <<idFile, runs, task, reqs, stored, remade>>
<1>1. PICK e \in Entered :
         proc' = [proc EXCEPT ![p].stage = "saving", ![p].url = e.url, ![p].token = e.token]
  BY Zenon DEF SaveTruncates
<1> DEFINE c == [proc[p] EXCEPT !.stage = "saving", !.url = e.url, !.token = e.token]
<1>0. /\ e.url \in {None} \cup Setups /\ e.token \in {None} \cup Setups
      /\ e.url # None /\ e.token # None => e.url = e.token
  BY DEF Entered, Sources
<1>2. proc[p] \in Processes
  BY DEF TypesFit
<1>3. c \in Processes /\ c.stage = "saving" /\ c.run = proc[p].run /\ c.cell = proc[p].cell
      /\ c.url = e.url /\ c.token = e.token
  BY <1>0, <1>2 DEF Processes
<1>4. proc' = [proc EXCEPT ![p] = c]
  BY <1>1
<1> HIDE DEF c
<1>5. proc' \in [Procs -> Processes] /\ OnlyProc(p) /\ proc'[p] = c
  BY <1>3, <1>4, ProcSet DEF TypesFit
<1>6. config' \in Sources /\ UNCHANGED <<idFile, runs, task, reqs, stored, remade>>
  BY DEF SaveTruncates, Sources, NoConfig
<1>7. TypesFit'
  BY <1>5, <1>6 DEF TypesFit
<1>8. /\ proc[p].stage = "starting" /\ Kind(p) = "config"
      /\ config' = NoConfig
  BY DEF SaveTruncates
<1> QED BY <1>0, <1>3, <1>5, <1>6, <1>7, <1>8

LEMMA SaveWritesDoes ==
  ASSUME TypesFit, NEW p \in Procs, SaveWrites(p)
  PROVE  /\ TypesFit'
         /\ proc[p].stage = "saving" /\ OnlyProc(p)
         /\ proc'[p] = [proc[p] EXCEPT !.stage = "done"] /\ proc[p] \in Processes
         /\ config' = [url |-> proc[p].url, token |-> proc[p].token]
         /\ UNCHANGED <<idFile, runs, task, reqs, stored, remade>>
<1> DEFINE c == [proc[p] EXCEPT !.stage = "done"]
<1>1. proc[p] \in Processes
  BY DEF TypesFit
<1>2. c \in Processes
  BY <1>1 DEF Processes
<1>3. proc' = [proc EXCEPT ![p] = c]
  BY DEF SaveWrites
<1> HIDE DEF c
<1>4. proc' \in [Procs -> Processes] /\ OnlyProc(p) /\ proc'[p] = c
  BY <1>2, <1>3, ProcSet DEF TypesFit
<1>5. config' \in Sources /\ UNCHANGED <<idFile, runs, task, reqs, stored, remade>>
  BY <1>1 DEF SaveWrites, Sources, Processes
<1>6. TypesFit'
  BY <1>4, <1>5 DEF TypesFit
<1> QED BY <1>1, <1>4, <1>5, <1>6 DEF SaveWrites, c

LEMMA ReturnDoes ==
  ASSUME TypesFit, NEW p \in Procs, Return(p)
  PROVE  /\ TypesFit'
         /\ task[p][First].stage = "ready" /\ AllTold(p, First)
         /\ OnlyProc(p) /\ OnlyCall(p, First)
         /\ proc'[p] = [proc[p] EXCEPT !.stage = "done"] /\ proc[p] \in Processes
         /\ task'[p][First] = [task[p][First] EXCEPT !.stage = "idle"]
         /\ UNCHANGED <<idFile, config, runs, reqs, stored, remade>>
<1> DEFINE c == [proc[p] EXCEPT !.stage = "done"]
           d == [task[p][First] EXCEPT !.stage = "idle"]
<1>1. proc[p] \in Processes /\ First \in Tasks[p] /\ task[p][First] \in Calls
  BY ConstantsTyped DEF TypesFit
<1>2. c \in Processes /\ d \in Calls
  BY <1>1 DEF Processes, Calls
<1>3. proc' = [proc EXCEPT ![p] = c] /\ task' = [task EXCEPT ![p][First] = d]
  BY <1>1 DEF Return, TypesFit
<1> HIDE DEF c, d
<1>4. proc' \in [Procs -> Processes] /\ OnlyProc(p) /\ proc'[p] = c
  BY <1>2, <1>3, ProcSet DEF TypesFit
<1>5. TasksTyped' /\ OnlyCall(p, First) /\ task'[p][First] = d
  BY <1>1, <1>2, <1>3, CallSet DEF TypesFit, TasksTyped
<1>6. UNCHANGED <<idFile, config, runs, reqs, stored, remade>>
  BY DEF Return
<1>7. TypesFit'
  BY <1>4, <1>5, <1>6 DEF TypesFit, TasksTyped
<1>8. task[p][First].stage = "ready" /\ AllTold(p, First)
  BY DEF Return, Through
<1> QED BY <1>1, <1>4, <1>5, <1>6, <1>7, <1>8 DEF c, d

LEMMA TasksNumbered ==
  ASSUME NEW p \in Procs, NEW t \in Tasks[p]
  PROVE  t \in Nat /\ t \in 1..t
<1>1. Tasks[p] = 1..Cardinality(Tasks[p]) /\ IsFiniteSet(Tasks[p])
  BY SlotsAssumption
<1>2. Cardinality(Tasks[p]) \in Nat
  BY <1>1, FS_CardinalityType
<1> QED BY <1>1, <1>2

NewCall(item) == [NoCall EXCEPT !.stage = "asked", !.items = <<item>>]

LEMMA CallDoes ==
  ASSUME TypesFit, NEW p \in Procs, NEW t \in Tasks[p], Call(p, t)
  PROVE  /\ TypesFit'
         /\ proc[p].stage = "up" /\ Kind(p) = "mcp" /\ task[p][t].stage = "idle"
         /\ OnlyCall(p, t)
         /\ \E item \in Items : task'[p][t] = NewCall(item)
         /\ UNCHANGED <<idFile, config, runs, proc, reqs, stored, remade>>
<1>1. PICK item \in Tools :
         task' = [task EXCEPT ![p][t] = [NoCall EXCEPT !.stage = "asked", !.items = <<item>>]]
  BY Zenon DEF Call
<1> DEFINE d == [NoCall EXCEPT !.stage = "asked", !.items = <<item>>]
<1>2. item \in Items
  BY ToolsAssumption
<1>3. d \in Calls
  <2>1. <<>> \in Seq({"done", "nothing", "error"}) /\ None \in Nat
    BY DEF None
  <2>2. \A x \in Items : <<x>> \in Seq(Items)
    OBVIOUS
  <2> QED BY <1>2, <2>1, <2>2 DEF NoCall, Calls
<1>4. task' = [task EXCEPT ![p][t] = d]
  BY <1>1
<1> HIDE DEF d
<1>5. TasksTyped' /\ OnlyCall(p, t) /\ task'[p][t] = d
  BY <1>3, <1>4, CallSet DEF TypesFit, TasksTyped
<1>6. UNCHANGED <<idFile, config, runs, proc, reqs, stored, remade>>
  BY DEF Call
<1>7. TypesFit'
  BY <1>5, <1>6 DEF TypesFit, TasksTyped
<1>8. t \in 1..t
  BY TasksNumbered
<1>9. proc[p].stage = "up" /\ Kind(p) = "mcp" /\ task[p][t].stage = "idle"
  BY <1>8 DEF Call
<1> QED BY Zenon, <1>2, <1>5, <1>6, <1>7, <1>9 DEF d, NewCall

\* The id that resolve_agent_id finds without making one, as the read of the file goes.
Known(p, unread) ==
    IF proc[p].cell # None THEN proc[p].cell
    ELSE IF EnvOf(p).id = Given THEN Given
    ELSE IF unread THEN None ELSE Found(p)

\* What becomes of the process and of the call, and that an id that is made though there is
\* one in the file is remembered.
Resolves(p, t, unread) ==
    /\ proc'[p] = [proc[p] EXCEPT !.cell = Known(p, unread)]
    /\ task'[p][t] =
          [task[p][t] EXCEPT !.stage = IF Known(p, unread) # None THEN "ready" ELSE "made",
                             !.made = IF Known(p, unread) # None THEN None ELSE Fresh]
    /\ unread /\ Known(p, unread) = None => SlugOf(p) \in remade'

LEMMA ResolveDoes ==
  ASSUME TypesFit, SlotsFit, NEW p \in Procs, NEW t \in Tasks[p], Resolve(p, t),
         proc[p].stage = "up"
  PROVE  /\ TypesFit'
         /\ task[p][t].stage = "asked" /\ task[p][t] \in Calls /\ proc[p] \in Processes
         /\ \A u \in Tasks[p] : task[p][u].stage \notin Writing
         /\ OnlyProc(p) /\ OnlyCall(p, t)
         /\ \E unread \in BOOLEAN : Resolves(p, t, unread)
         /\ remade \subseteq remade'
         /\ \A q \in Procs : \A u \in Tasks[q] :
               /\ q # p /\ task[q][u].stage \in Writing /\ SlugOf(q) = SlugOf(p)
               /\ EnvOf(p).id # Given
               => SlugOf(p) \in remade'
         /\ UNCHANGED <<idFile, config, runs, reqs, stored>>
<1> DEFINE others == {q \in Procs \ {p} : \E u \in Tasks[q] : /\ task[q][u].stage \in Writing
                                                          /\ SlugOf(q) = SlugOf(p)}
<1>0. PICK unread \in BOOLEAN :
         /\ proc' = [proc EXCEPT ![p].cell = Known(p, unread)]
         /\ task' = [task EXCEPT ![p][t].stage = IF Known(p, unread) # None THEN "ready" ELSE "made",
                                 ![p][t].made = IF Known(p, unread) # None THEN None ELSE Fresh]
         /\ remade' = IF \/ unread /\ Known(p, unread) = None
                         \/ others # {} /\ EnvOf(p).id # Given
                      THEN remade \cup {SlugOf(p)} ELSE remade
  BY DEF Resolve, ReadFails, Known
<1> DEFINE c == [proc[p] EXCEPT !.cell = Known(p, unread)]
           d == [task[p][t] EXCEPT
                    !.stage = IF Known(p, unread) # None THEN "ready" ELSE "made",
                    !.made = IF Known(p, unread) # None THEN None ELSE Fresh]
<1>1. proc[p] \in Processes /\ task[p][t] \in Calls /\ runs[proc[p].run] \in Launches
  BY SlotTyped
<1>2. SlugOf(p) \in Slugs
  BY <1>1 DEF SlugOf, Slugs, Launches
<1>3. Known(p, unread) \in Ids
  BY <1>1, <1>2 DEF Known, Found, TypesFit, Ids, Processes, None
<1>4. c \in Processes /\ d \in Calls
  BY <1>1, <1>3, FreshIsNew DEF Processes, Calls, None
<1>5. proc' = [proc EXCEPT ![p] = c] /\ task' = [task EXCEPT ![p][t] = d]
  BY <1>0, <1>1 DEF TypesFit
<1>8. /\ remade \subseteq remade' /\ remade' \subseteq Slugs
      /\ unread /\ Known(p, unread) = None => SlugOf(p) \in remade'
  BY <1>0, <1>2 DEF TypesFit
<1>9. ASSUME NEW q \in Procs, NEW u \in Tasks[q],
             q # p /\ task[q][u].stage \in Writing /\ SlugOf(q) = SlugOf(p), EnvOf(p).id # Given
      PROVE  SlugOf(p) \in remade'
  <2>1. q \in others
    BY <1>9
  <2> QED BY <1>0, <2>1, <1>9
<1> HIDE DEF c, d, others
<1>6. proc' \in [Procs -> Processes] /\ OnlyProc(p) /\ proc'[p] = c
  BY <1>4, <1>5, ProcSet DEF TypesFit
<1>7. TasksTyped' /\ OnlyCall(p, t) /\ task'[p][t] = d
  BY Zenon, <1>4, <1>5, CallSet DEF TypesFit, TasksTyped
<1>10. /\ UNCHANGED <<idFile, config, runs, reqs, stored>> /\ task[p][t].stage = "asked"
       /\ \A u \in Tasks[p] : task[p][u].stage \notin Writing
  BY DEF Resolve, MayResolve
<1>11. TypesFit'
  BY <1>6, <1>7, <1>8, <1>10 DEF TypesFit, TasksTyped
<1>12. Resolves(p, t, unread)
  BY <1>6, <1>7, <1>8 DEF Resolves, c, d
<1> QED BY <1>1, <1>6, <1>7, <1>8, <1>9, <1>10, <1>11, <1>12

LEMMA TruncateDoes ==
  ASSUME TypesFit, NEW p \in Procs, NEW t \in Tasks[p], Truncate(p, t)
  PROVE  /\ TypesFit'
         /\ task[p][t].stage = "made" /\ task[p][t] \in Calls
         /\ OnlyCall(p, t)
         /\ task'[p][t] = [task[p][t] EXCEPT !.stage = "cut"]
         /\ idFile' = [idFile EXCEPT ![SlugOf(p)] = None]
         /\ UNCHANGED <<config, runs, proc, reqs, stored, remade>>
<1> DEFINE d == [task[p][t] EXCEPT !.stage = "cut"]
<1>1. task[p][t] \in Calls
  BY DEF TypesFit
<1>2. d \in Calls
  BY <1>1 DEF Calls
<1>3. task' = [task EXCEPT ![p][t] = d]
  BY <1>1 DEF Truncate, TypesFit
<1> HIDE DEF d
<1>4. TasksTyped' /\ OnlyCall(p, t) /\ task'[p][t] = d
  BY <1>2, <1>3, CallSet DEF TypesFit, TasksTyped
<1>5. idFile' \in [Slugs -> Nat]
  BY DEF Truncate, TypesFit, None
<1>6. TypesFit'
  BY <1>4, <1>5 DEF Truncate, TypesFit, TasksTyped
<1> QED BY <1>1, <1>4, <1>6 DEF Truncate, d

LEMMA FillDoes ==
  ASSUME TypesFit, NEW p \in Procs, NEW t \in Tasks[p], Fill(p, t)
  PROVE  /\ TypesFit'
         /\ task[p][t].stage = "cut" /\ task[p][t] \in Calls /\ proc[p] \in Processes
         /\ OnlyProc(p) /\ OnlyCall(p, t)
         /\ proc'[p] = [proc[p] EXCEPT !.cell = task[p][t].made]
         /\ task'[p][t] = [task[p][t] EXCEPT !.stage = "ready", !.made = None]
         /\ idFile' = [idFile EXCEPT ![SlugOf(p)] = task[p][t].made]
         /\ UNCHANGED <<config, runs, reqs, stored, remade>>
<1> DEFINE c == [proc[p] EXCEPT !.cell = task[p][t].made]
           d == [task[p][t] EXCEPT !.stage = "ready", !.made = None]
<1>1. proc[p] \in Processes /\ task[p][t] \in Calls /\ task[p][t].made \in Nat
  BY DEF TypesFit, Calls
<1>2. c \in Processes /\ d \in Calls
  BY <1>1 DEF Processes, Calls, None, Ids
<1>3. proc' = [proc EXCEPT ![p] = c] /\ task' = [task EXCEPT ![p][t] = d]
  BY <1>1 DEF Fill, TypesFit
<1> HIDE DEF c, d
<1>4. proc' \in [Procs -> Processes] /\ OnlyProc(p) /\ proc'[p] = c
  BY <1>2, <1>3, ProcSet DEF TypesFit
<1>5. TasksTyped' /\ OnlyCall(p, t) /\ task'[p][t] = d
  BY Zenon, <1>2, <1>3, CallSet DEF TypesFit, TasksTyped
<1>6. idFile' \in [Slugs -> Nat]
  BY <1>1 DEF Fill, TypesFit
<1>7. TypesFit'
  BY <1>4, <1>5, <1>6 DEF Fill, TypesFit, TasksTyped
<1> QED BY <1>1, <1>4, <1>5, <1>7 DEF Fill, c, d

LEMMA ResolveFailsDoes ==
  ASSUME TypesFit, NEW p \in Procs, NEW t \in Tasks[p], ResolveFails(p, t)
  PROVE  /\ TypesFit'
         /\ task[p][t].stage \in Writing /\ proc[p] \in Processes
         /\ OnlyProc(p) /\ OnlyCall(p, t)
         /\ IF Kind(p) = "mcp" THEN proc' = proc ELSE proc'[p] = [proc[p] EXCEPT !.stage = "failed"]
         /\ task'[p][t] = NoCall
         /\ UNCHANGED <<idFile, config, runs, reqs, stored, remade>>
<1> DEFINE c == IF Kind(p) = "mcp" THEN proc[p] ELSE [proc[p] EXCEPT !.stage = "failed"]
<1>1. proc[p] \in Processes
  BY DEF TypesFit
<1>2. c \in Processes
  BY <1>1 DEF Processes
<1>3. proc' = [proc EXCEPT ![p] = c]
  BY DEF ResolveFails, TypesFit
<1> HIDE DEF c
<1>4. proc' \in [Procs -> Processes] /\ OnlyProc(p) /\ proc'[p] = c
  BY <1>2, <1>3, ProcSet DEF TypesFit
<1>5. TasksTyped' /\ OnlyCall(p, t) /\ task'[p][t] = NoCall
  BY Zenon, ConstantsTyped, CallSet DEF ResolveFails, TypesFit, TasksTyped
<1>6. TypesFit'
  BY <1>4, <1>5 DEF ResolveFails, TypesFit, TasksTyped
<1> QED BY <1>1, <1>4, <1>5, <1>6 DEF ResolveFails, c

Outcomes == {"done", "nothing", "error"}

LEMMA AfterDoes ==
  ASSUME TypesFit, NEW p \in Procs, NEW t \in Tasks[p], NEW outcome \in Outcomes
  PROVE  /\ After(p, t, outcome) \in Calls
         /\ Kind(p) = "mcp" => After(p, t, outcome) = NoCall
         /\ Kind(p) # "mcp" =>
               LET call == task[p][t]
                   after == After(p, t, outcome)
               IN  /\ after.stage = "ready" /\ after.items = call.items /\ after.made = call.made
                   /\ Len(after.told) = Len(call.told) + 1
                   /\ \A i \in 1..Len(call.told) : after.told[i] = call.told[i]
                   /\ after.told[Len(call.told) + 1] = outcome
                   /\ call.told \in Seq(Outcomes) /\ after.told \in Seq(Outcomes)
<1>1. task[p][t] \in Calls /\ task[p][t].told \in Seq(Outcomes)
  BY DEF TypesFit, Calls, Outcomes
<1>2. /\ Append(task[p][t].told, outcome) \in Seq(Outcomes)
      /\ Len(Append(task[p][t].told, outcome)) = Len(task[p][t].told) + 1
      /\ \A i \in 1..Len(task[p][t].told) : Append(task[p][t].told, outcome)[i] = task[p][t].told[i]
      /\ Append(task[p][t].told, outcome)[Len(task[p][t].told) + 1] = outcome
  BY <1>1, AppendProperties
<1>3. CASE Kind(p) = "mcp"
  BY <1>3, ConstantsTyped DEF After
<1>4. CASE Kind(p) # "mcp"
  <2> DEFINE told == Append(task[p][t].told, outcome)
  <2>1. told \in Seq(Outcomes)
    BY <1>2
  <2>2. After(p, t, outcome) = [task[p][t] EXCEPT !.stage = "ready", !.told = told]
    BY <1>4 DEF After
  <2> HIDE DEF told
  <2>3. /\ After(p, t, outcome) \in Calls
        /\ After(p, t, outcome).stage = "ready" /\ After(p, t, outcome).told = told
        /\ After(p, t, outcome).items = task[p][t].items
        /\ After(p, t, outcome).made = task[p][t].made
    BY <1>1, <2>1, <2>2 DEF Calls, Outcomes
  <2> QED BY <1>1, <1>2, <1>4, <2>1, <2>3 DEF told
<1> QED BY <1>3, <1>4

LEMMA UnreadableDoes ==
  ASSUME TypesFit, NEW p \in Procs, NEW t \in Tasks[p], Unreadable(p, t)
  PROVE  /\ TypesFit'
         /\ task[p][t].stage = "ready" /\ ~AllTold(p, t)
         /\ OnlyCall(p, t)
         /\ task'[p][t] = After(p, t, "error")
         /\ UNCHANGED <<idFile, config, runs, proc, reqs, stored, remade>>
<1>1. After(p, t, "error") \in Calls
  BY AfterDoes DEF Outcomes
<1>2. TasksTyped' /\ OnlyCall(p, t) /\ task'[p][t] = After(p, t, "error")
  BY Zenon, <1>1, CallSet DEF Unreadable, TypesFit, TasksTyped
<1>3. TypesFit'
  BY <1>2 DEF Unreadable, TypesFit, TasksTyped
<1> QED BY <1>2, <1>3 DEF Unreadable

\* The request that a call makes next.
Asked(p, t) ==
    [run |-> proc[p].run, task |-> t, op |-> Item(p, t).op, file |-> Item(p, t).file,
     id |-> proc[p].cell, url |-> proc[p].url, token |-> proc[p].token,
     answer |-> "none", told |-> "none"]

LEMMA SendDoes ==
  ASSUME TypesFit, SlotsFit, NEW p \in Procs, NEW t \in Tasks[p], Send(p, t)
  PROVE  /\ TypesFit'
         /\ task[p][t].stage = "ready" /\ ~AllTold(p, t)
         /\ task[p][t] \in Calls /\ proc[p] \in Processes
         /\ Len(task[p][t].told) + 1 \in DOMAIN task[p][t].items
         /\ OnlyCall(p, t)
         /\ task'[p][t] = [task[p][t] EXCEPT !.stage = "sent"]
         /\ Asked(p, t) \in Requested
         /\ Len(reqs) \in Nat /\ DOMAIN reqs = 1..Len(reqs)
         /\ DOMAIN reqs' = 1..(Len(reqs) + 1) /\ Len(reqs') = Len(reqs) + 1
         /\ \A n \in DOMAIN reqs : n # Len(reqs) + 1 /\ reqs'[n] = reqs[n]
         /\ reqs'[Len(reqs) + 1] = Asked(p, t)
         /\ UNCHANGED <<idFile, config, runs, proc, stored, remade>>
<1> DEFINE d == [task[p][t] EXCEPT !.stage = "sent"]
           k == Len(task[p][t].told) + 1
<1>1. /\ task[p][t] \in Calls /\ proc[p] \in Processes
      /\ task[p][t].told \in Seq(Outcomes) /\ task[p][t].items \in Seq(Items)
  BY DEF TypesFit, Calls, Outcomes
<1>2. d \in Calls
  BY <1>1 DEF Calls
<1>3. task' = [task EXCEPT ![p][t] = d]
  BY <1>1 DEF Send, TypesFit
<1> HIDE DEF d
<1>4. TasksTyped' /\ OnlyCall(p, t) /\ task'[p][t] = d
  BY <1>2, <1>3, CallSet DEF TypesFit, TasksTyped
<1>5. k \in 1..Len(task[p][t].items)
  BY <1>1 DEF Send, AllTold, SlotsFit, CallFits
<1>6. Item(p, t) \in Items
  BY <1>1, <1>5, ElementOfSeq DEF Item
<1>7. t \in Nat
  BY TasksNumbered
<1>8. Asked(p, t) \in Requested
  BY Zenon, <1>1, <1>6, <1>7 DEF Asked, Requested, Items, Processes
<1>9. reqs' = Append(reqs, Asked(p, t))
  BY DEF Send, Asked
<1>10. /\ reqs' \in Seq(Requested) /\ Len(reqs') = Len(reqs) + 1
       /\ \A n \in 1..Len(reqs) : reqs'[n] = reqs[n]
       /\ reqs'[Len(reqs) + 1] = Asked(p, t)
  BY <1>8, <1>9, AppendProperties DEF TypesFit
<1>11. Len(reqs) \in Nat /\ DOMAIN reqs = 1..Len(reqs) /\ DOMAIN reqs' = 1..Len(reqs')
  BY <1>10, LenProperties DEF TypesFit
<1>12. stored' \subseteq DOMAIN reqs'
  BY <1>10, <1>11 DEF Send, TypesFit
<1>13. TypesFit'
  BY <1>4, <1>10, <1>12 DEF Send, TypesFit, TasksTyped
<1>14. \A n \in DOMAIN reqs : n # Len(reqs) + 1
  BY <1>11
<1>15. k \in DOMAIN task[p][t].items
  BY <1>1, <1>5
<1>16. /\ task[p][t].stage = "ready" /\ ~AllTold(p, t)
       /\ UNCHANGED <<idFile, config, runs, proc, stored, remade>>
  BY DEF Send
<1> QED BY <1>1, <1>4, <1>8, <1>10, <1>11, <1>13, <1>14, <1>15, <1>16 DEF d

LEMMA ReqSet ==
  ASSUME reqs \in Seq(Requested), NEW n \in DOMAIN reqs, NEW r \in Requested,
         reqs' = [reqs EXCEPT ![n] = r]
  PROVE  /\ reqs' \in Seq(Requested) /\ DOMAIN reqs' = DOMAIN reqs /\ Len(reqs') = Len(reqs)
         /\ reqs'[n] = r
         /\ \A m \in DOMAIN reqs : m # n => reqs'[m] = reqs[m]
<1>1. DOMAIN reqs = 1..Len(reqs)
  BY LenProperties
<1>2. reqs' \in Seq(Requested) /\ Len(reqs') = Len(reqs)
  BY <1>1, ExceptSeq
<1> QED BY <1>2

LEMMA TellDoes ==
  ASSUME TypesFit, NEW p \in Procs, NEW t \in Tasks[p], NEW n \in DOMAIN reqs,
         NEW outcome \in Outcomes, Tell(p, t, n, outcome)
  PROVE  /\ TypesFit'
         /\ task[p][t].stage = "sent" /\ reqs[n] \in Requested
         /\ reqs[n].run = proc[p].run /\ reqs[n].task = t /\ reqs[n].told = "none"
         /\ OnlyCall(p, t)
         /\ task'[p][t] = After(p, t, outcome)
         /\ DOMAIN reqs' = DOMAIN reqs
         /\ reqs'[n] = [reqs[n] EXCEPT !.told = outcome]
         /\ \A m \in DOMAIN reqs : m # n => reqs'[m] = reqs[m]
         /\ UNCHANGED <<idFile, config, runs, proc, stored, remade>>
<1> DEFINE r == [reqs[n] EXCEPT !.told = outcome]
<1>1. reqs[n] \in Requested
  BY ElementOfSeq, LenProperties DEF TypesFit
<1>2. r \in Requested
  BY Zenon, <1>1 DEF Requested, Outcomes
<1>3. reqs' = [reqs EXCEPT ![n] = r]
  BY DEF Tell
<1> HIDE DEF r
<1>4. /\ reqs' \in Seq(Requested) /\ DOMAIN reqs' = DOMAIN reqs
      /\ reqs'[n] = r /\ \A m \in DOMAIN reqs : m # n => reqs'[m] = reqs[m]
  BY <1>2, <1>3, ReqSet DEF TypesFit
<1>5. After(p, t, outcome) \in Calls
  BY AfterDoes
<1>6. TasksTyped' /\ OnlyCall(p, t) /\ task'[p][t] = After(p, t, outcome)
  BY Zenon, <1>5, CallSet DEF Tell, TypesFit, TasksTyped
<1>7. TypesFit'
  BY <1>4, <1>6 DEF Tell, TypesFit, TasksTyped
<1>8. /\ task[p][t].stage = "sent"
      /\ reqs[n].run = proc[p].run /\ reqs[n].task = t /\ reqs[n].told = "none"
      /\ UNCHANGED <<idFile, config, runs, proc, stored, remade>>
  BY DEF Tell
<1> QED BY <1>1, <1>4, <1>6, <1>7, <1>8 DEF r

LEMMA ServeDoes ==
  ASSUME TypesFit, NEW n \in DOMAIN reqs, Serve(n)
  PROVE  /\ TypesFit'
         /\ reqs[n].answer = "none" /\ reqs[n] \in Requested
         /\ DOMAIN reqs' = DOMAIN reqs
         /\ \A m \in DOMAIN reqs : m # n => reqs'[m] = reqs[m]
         /\ \E answer \in {"ok", "missing", "denied", "failed"}, act \in BOOLEAN :
               /\ reqs'[n] = [reqs[n] EXCEPT !.answer = answer]
               /\ answer = "missing" => reqs[n].op \in {"read", "summary"}
               /\ reqs[n].op \in Writes /\ answer = "ok" => act
               /\ reqs[n].op = "read" /\ answer = "missing" => ~(\E m \in stored : SameMemory(m, n))
               /\ stored' = IF act THEN {m \in stored : ~SameMemory(m, n)} \cup {n} ELSE stored
         /\ UNCHANGED <<idFile, config, runs, proc, task, remade>>
<1>1. PICK answer \in {"ok", "missing", "denied", "failed"}, act \in BOOLEAN :
         /\ reqs' = [reqs EXCEPT ![n].answer = answer]
         /\ answer = "missing" => reqs[n].op \in {"read", "summary"}
         /\ reqs[n].op \in Writes /\ answer = "ok" => act
         /\ reqs[n].op = "read" /\ answer = "missing" => ~(\E m \in stored : SameMemory(m, n))
         /\ stored' = IF act THEN {m \in stored : ~SameMemory(m, n)} \cup {n} ELSE stored
  BY DEF Serve
<1> DEFINE r == [reqs[n] EXCEPT !.answer = answer]
<1>2. reqs[n] \in Requested
  BY ElementOfSeq, LenProperties DEF TypesFit
<1>3. r \in Requested
  BY Zenon, <1>2 DEF Requested
<1>4. reqs' = [reqs EXCEPT ![n] = r]
  BY <1>1
<1> HIDE DEF r
<1>5. /\ reqs' \in Seq(Requested) /\ DOMAIN reqs' = DOMAIN reqs
      /\ reqs'[n] = r /\ \A m \in DOMAIN reqs : m # n => reqs'[m] = reqs[m]
  BY <1>3, <1>4, ReqSet DEF TypesFit
<1>6. stored' \subseteq DOMAIN reqs'
  BY <1>1, <1>5 DEF TypesFit
<1>7. reqs[n].answer = "none" /\ UNCHANGED <<idFile, config, runs, proc, task, remade>>
  BY DEF Serve
<1>8. TypesFit'
  BY <1>5, <1>6, <1>7 DEF TypesFit
<1> QED BY <1>1, <1>2, <1>5, <1>7, <1>8 DEF r
-----------------------------------------------------------------------------
(* Slots: SlotsFit.                                                         *)

OnlySlot(p) ==
    OnlyProc(p) /\ \A q \in Procs : q # p => \A u \in Tasks[q] : task'[q][u] = task[q][u]

RunsKept == Len(runs) <= Len(runs') /\ \A i \in 1..Len(runs) : runs'[i] = runs[i]

\* Processes elsewhere keep what they were started as.
LEMMA SameStart ==
  ASSUME TypesFit, SlotsFit, RunsKept, NEW q \in Procs, proc[q].run > 0,
         proc'[q].run = proc[q].run
  PROVE  Kind(q)' = Kind(q) /\ EnvOf(q)' = EnvOf(q) /\ SlugOf(q)' = SlugOf(q)
<1>1. proc[q].run \in 0..Len(runs) /\ Len(runs) \in Nat
  BY SlotTyped DEF SlotsFit, ProcFits
<1>2. proc[q].run \in 1..Len(runs)
  BY <1>1
<1>3. runs'[proc'[q].run] = runs[proc[q].run]
  BY <1>2 DEF RunsKept
<1> QED BY <1>3 DEF Kind, EnvOf, SlugOf

LEMMA OthersKept ==
  ASSUME TypesFit, TypesFit', SlotsFit, NEW p \in Procs, OnlySlot(p), RunsKept,
         proc'[p].run \in {0, proc[p].run, Len(runs) + 1}
  PROVE  /\ \A q \in Procs : q # p => ProcFits(q)' /\ \A t \in Tasks[q] : CallFits(q, t)'
         /\ \A q \in Procs : proc'[p].run = proc'[q].run /\ proc'[p].run > 0 => p = q
<1>1. /\ Len(runs) \in Nat /\ Len(runs') \in Nat /\ Len(runs) <= Len(runs')
      /\ \A q \in Procs : proc[q].run \in Nat /\ proc[q].run \in 0..Len(runs)
  BY SlotTyped DEF SlotsFit, ProcFits, Processes, TypesFit, RunsKept
<1>2. \A q \in Procs : proc'[p].run = proc'[q].run /\ proc'[p].run > 0 => p = q
  BY <1>1 DEF SlotsFit, ProcFits, OnlySlot, OnlyProc
<1>3. ASSUME NEW q \in Procs, q # p PROVE ProcFits(q)' /\ \A t \in Tasks[q] : CallFits(q, t)'
  <2>1. proc'[q] = proc[q] /\ ProcFits(q)
    BY <1>3 DEF OnlySlot, OnlyProc, SlotsFit
  <2>2. proc[q].run > 0 => Kind(q)' = Kind(q) /\ EnvOf(q)' = EnvOf(q)
    BY <2>1, SameStart
  <2>3. proc[q].stage # "off" => proc[q].run > 0
    BY <2>1 DEF ProcFits
  <2>4. ProcFits(q)'
    <3>1. proc'[q].run \in 0..Len(runs')
      BY <1>1, <2>1
    <3>2. \A r \in Procs : proc'[q].run = proc'[r].run /\ proc'[q].run > 0 => q = r
      <4>1. ASSUME NEW r \in Procs, proc'[q].run = proc'[r].run /\ proc'[q].run > 0 PROVE q = r
        <5>1. CASE r = p
          BY <1>2, <4>1, <5>1
        <5>2. CASE r # p
          BY <2>1, <4>1, <5>2 DEF OnlySlot, OnlyProc, ProcFits
        <5> QED BY <5>1, <5>2
      <4> QED BY <4>1
    <3> QED BY <2>1, <2>2, <2>3, <3>1, <3>2 DEF ProcFits
  <2>5. ASSUME NEW t \in Tasks[q] PROVE CallFits(q, t)'
    <3>1. CallFits(q, t) /\ \A u \in Tasks[q] : task'[q][u] = task[q][u]
      BY <1>3 DEF OnlySlot, SlotsFit
    <3>2. task[q][t].stage \in Writing => task[q][t].stage # "idle"
      BY DEF Writing
    <3> QED BY <2>1, <2>2, <2>3, <3>1, <3>2 DEF CallFits
  <2> QED BY <2>4, <2>5
<1> QED BY <1>2, <1>3

\* A step of slot p keeps the slots if it leaves p's right.
LEMMA SlotsKept ==
  ASSUME TypesFit, TypesFit', SlotsFit, NEW p \in Procs, OnlySlot(p), RunsKept,
         proc'[p].run \in {0, proc[p].run, Len(runs) + 1},
         (\A q \in Procs : proc'[p].run = proc'[q].run /\ proc'[p].run > 0 => p = q)
           => ProcFits(p)',
         \A t \in Tasks[p] : CallFits(p, t)'
  PROVE  SlotsFit'
<1>1. /\ \A q \in Procs : q # p => ProcFits(q)' /\ \A t \in Tasks[q] : CallFits(q, t)'
      /\ \A q \in Procs : proc'[p].run = proc'[q].run /\ proc'[p].run > 0 => p = q
  BY OthersKept
<1> QED BY <1>1 DEF SlotsFit

LEMMA SlotsStart ==
  ASSUME TypesFit, SlotsFit, NEW p \in Procs, Start(p) \/ Kill(p)
  PROVE  SlotsFit'
<1>1. CASE Start(p)
  <2>1. /\ TypesFit' /\ OnlySlot(p)
        /\ proc'[p] = [Off EXCEPT !.run = Len(runs) + 1, !.stage = "starting"]
        /\ \A u \in Tasks[p] : task'[p][u] = NoCall
    BY <1>1, StartDoes DEF OnlySlot
  <2>2. Len(runs) \in Nat /\ Len(runs') = Len(runs) + 1 /\ RunsKept
    <3>1. PICK x \in Launches : runs' = Append(runs, x)
      BY <1>1, StartDoes
    <3>2. runs \in Seq(Launches)
      BY DEF TypesFit
    <3> QED BY <3>1, <3>2, AppendProperties, LenProperties DEF RunsKept
  <2>3. proc'[p].run = Len(runs) + 1 /\ proc'[p].stage = "starting" /\ proc'[p].cell = None
    BY <2>1 DEF Off
  <2>4. \A t \in Tasks[p] : CallFits(p, t)'
    BY <2>1, <2>3 DEF CallFits, NoCall, Writing
  <2>5. (\A q \in Procs : proc'[p].run = proc'[q].run /\ proc'[p].run > 0 => p = q) => ProcFits(p)'
    BY <2>2, <2>3 DEF ProcFits
  <2> QED BY <2>1, <2>2, <2>3, <2>4, <2>5, SlotsKept
<1>2. CASE Kill(p)
  <2>1. /\ TypesFit' /\ OnlySlot(p) /\ proc'[p] = Off /\ runs' = runs
        /\ \A u \in Tasks[p] : task'[p][u] = NoCall
    BY <1>2, KillDoes DEF OnlySlot
  <2>2. Len(runs) \in Nat /\ RunsKept
    BY <2>1, SlotTyped DEF RunsKept
  <2>3. proc'[p].run = 0 /\ proc'[p].stage = "off" /\ proc'[p].cell = None
    BY <2>1 DEF Off
  <2>4. \A t \in Tasks[p] : CallFits(p, t)'
    BY <2>1, <2>3 DEF CallFits, NoCall, Writing
  <2>5. (\A q \in Procs : proc'[p].run = proc'[q].run /\ proc'[p].run > 0 => p = q) => ProcFits(p)'
    BY <2>1, <2>2, <2>3 DEF ProcFits
  <2> QED BY <2>1, <2>2, <2>3, <2>4, <2>5, SlotsKept
<1> QED BY <1>1, <1>2

LEMMA SlotsLoad ==
  ASSUME TypesFit, SlotsFit, NEW p \in Procs,
         Load(p) \/ SaveTruncates(p) \/ SaveWrites(p) \/ Return(p)
  PROVE  SlotsFit'
<1>1. CASE Load(p)
  <2>1. /\ TypesFit' /\ OnlySlot(p) /\ runs' = runs /\ proc[p].stage = "starting"
        /\ proc'[p].run = proc[p].run /\ proc'[p].cell = None
    BY ZenonT(40), <1>1, LoadDoes DEF OnlySlot, OnlyCall
  <2>2. Len(runs) \in Nat /\ RunsKept
    BY <2>1, SlotTyped DEF RunsKept
  <2>3. Kind(p)' = Kind(p) /\ proc[p].run > 0 /\ proc[p].run \in 0..Len(runs)
    BY <2>1 DEF Kind, SlotsFit, ProcFits
  <2>4. \A t \in Tasks[p] : task[p][t] = NoCall /\ (t # First => task'[p][t] = task[p][t])
    BY Zenon, <1>1, <2>1, LoadDoes DEF SlotsFit, CallFits, OnlyCall
  <2>5. ASSUME NEW t \in Tasks[p] PROVE CallFits(p, t)'
    <3>1. CASE task'[p][t] = NoCall
      BY <3>1 DEF CallFits, NoCall, Writing
    <3>2. CASE task'[p][t] # NoCall
      <4>1. t = First /\ task' # task
        BY <2>4, <3>2
      <4>2. PICK items \in Lists(Kind(p)) :
               task'[p][First] = [NoCall EXCEPT !.stage = "asked", !.items = items]
        BY Zenon, <1>1, <4>1, LoadDoes
      <4>3. proc'[p].stage = "up" /\ Kind(p) # "mcp"
        BY Zenon, <1>1, <4>1, LoadDoes
      <4>4. task'[p][First] \in Calls /\ task'[p][First].items \in Seq(Items)
        BY <2>1, <4>1 DEF TypesFit, Calls
      <4>5. Len(task'[p][First].items) \in Nat /\ Len(<<>>) = 0
        BY <4>4, LenProperties
      <4>6. task'[p][First].stage = "asked" /\ task'[p][First].told = <<>>
        BY <4>2 DEF NoCall
      <4> QED BY <2>3, <4>1, <4>3, <4>5, <4>6 DEF CallFits, Writing
    <3> QED BY <3>1, <3>2
  <2>6. (\A q \in Procs : proc'[p].run = proc'[q].run /\ proc'[p].run > 0 => p = q) => ProcFits(p)'
    <3>1. proc'[p].stage \in {"up", "failed", "done"}
      BY Zenon, <1>1, LoadDoes
    <3>2. proc'[p].stage = "up" => /\ proc'[p].url # None /\ proc'[p].token # None
                                   /\ Kind(p) \in {"mcp", "upload", "recall"}
      BY Zenon, <1>1, LoadDoes
    <3> QED BY <2>1, <2>3, <3>1, <3>2 DEF ProcFits
  <2> QED BY <2>1, <2>2, <2>5, <2>6, SlotsKept
<1>2. CASE SaveTruncates(p)
  <2>1. /\ TypesFit' /\ OnlySlot(p) /\ runs' = runs /\ task' = task
        /\ proc[p].stage = "starting" /\ Kind(p) = "config"
        /\ proc'[p].run = proc[p].run /\ proc'[p].stage = "saving"
        /\ proc'[p].url # None /\ proc'[p].token # None => proc'[p].url = proc'[p].token
    BY <1>2, SaveTruncatesDoes DEF OnlySlot
  <2>2. Len(runs) \in Nat /\ RunsKept
    BY <2>1, SlotTyped DEF RunsKept
  <2>3. Kind(p)' = Kind(p) /\ proc[p].run > 0 /\ proc[p].run \in 0..Len(runs)
    BY <2>1 DEF Kind, SlotsFit, ProcFits
  <2>4. \A t \in Tasks[p] : task'[p][t] = NoCall
    BY <2>1 DEF SlotsFit, CallFits
  <2>5. \A t \in Tasks[p] : CallFits(p, t)'
    BY <2>4 DEF CallFits, NoCall, Writing
  <2>6. (\A q \in Procs : proc'[p].run = proc'[q].run /\ proc'[p].run > 0 => p = q) => ProcFits(p)'
    BY <2>1, <2>3 DEF ProcFits
  <2> QED BY <2>1, <2>2, <2>5, <2>6, SlotsKept
<1>3. CASE SaveWrites(p)
  <2>1. /\ TypesFit' /\ OnlySlot(p) /\ runs' = runs /\ task' = task
        /\ proc[p].stage = "saving"
        /\ proc'[p].run = proc[p].run /\ proc'[p].stage = "done"
    BY <1>3, SaveWritesDoes DEF OnlySlot, Processes
  <2>2. Len(runs) \in Nat /\ RunsKept
    BY <2>1, SlotTyped DEF RunsKept
  <2>3. proc[p].run > 0 /\ proc[p].run \in 0..Len(runs)
    BY <2>1 DEF SlotsFit, ProcFits
  <2>4. \A t \in Tasks[p] : task[p][t].stage = "idle" /\ CallFits(p, t)
    BY <2>1 DEF SlotsFit, CallFits
  <2>5. \A t \in Tasks[p] : CallFits(p, t)'
    BY <2>1, <2>4 DEF CallFits, Writing
  <2>6. (\A q \in Procs : proc'[p].run = proc'[q].run /\ proc'[p].run > 0 => p = q) => ProcFits(p)'
    BY <2>1, <2>3 DEF ProcFits
  <2> QED BY <2>1, <2>2, <2>5, <2>6, SlotsKept
<1>4. CASE Return(p)
  <2>1. /\ TypesFit' /\ OnlySlot(p) /\ OnlyCall(p, First) /\ runs' = runs
        /\ task[p][First].stage = "ready" /\ AllTold(p, First)
        /\ proc'[p].run = proc[p].run /\ proc'[p].stage = "done"
        /\ task'[p][First] = [task[p][First] EXCEPT !.stage = "idle"]
    <3>1. /\ proc'[p] = [proc[p] EXCEPT !.stage = "done"] /\ proc[p] \in Processes
          /\ OnlyProc(p) /\ OnlyCall(p, First)
      BY <1>4, ReturnDoes
    <3>2. proc'[p].run = proc[p].run /\ proc'[p].stage = "done"
      BY <3>1 DEF Processes
    <3>3. OnlySlot(p)
      BY <3>1 DEF OnlySlot, OnlyCall
    <3> QED BY <1>4, <3>1, <3>2, <3>3, ReturnDoes
  <2>2. Len(runs) \in Nat /\ RunsKept
    BY <2>1, SlotTyped DEF RunsKept
  <2>3. First \in Tasks[p] /\ CallFits(p, First) /\ task[p][First] \in Calls
    BY ConstantsTyped DEF SlotsFit, TypesFit
  <2>4. proc[p].stage = "up" /\ Kind(p) # "mcp"
    <3> DEFINE told == task[p][First].told
               items == task[p][First].items
    <3>1. proc[p].stage = "up" /\ (Kind(p) = "mcp" => told = <<>> /\ Len(items) = 1)
      BY <2>1, <2>3 DEF CallFits
    <3>2. Len(told) = Len(items)
      BY <2>1 DEF AllTold
    <3> HIDE DEF told, items
    <3> QED BY ONLY <3>1, <3>2
  <2>5. proc[p].run > 0 /\ proc[p].run \in 0..Len(runs)
    BY <2>4 DEF SlotsFit, ProcFits
  <2>6. ASSUME NEW t \in Tasks[p] PROVE CallFits(p, t)'
    <3>1. CASE t = First
      <4>1. /\ task'[p][t].stage = "idle" /\ task'[p][t].told = task[p][t].told
            /\ task'[p][t].items = task[p][t].items
        BY <2>1, <2>3, <3>1 DEF Calls
      <4> QED BY <2>1, <2>3, <3>1, <4>1 DEF CallFits, Writing
    <3>2. CASE t # First
      <4>1. task'[p][t] = task[p][t] /\ CallFits(p, t)
        BY <2>1, <3>2 DEF OnlyCall, SlotsFit
      <4>2. task[p][t].stage = "idle"
        BY <2>4, <3>2, <4>1 DEF CallFits
      <4> QED BY <2>1, <4>1, <4>2 DEF CallFits, Writing
    <3> QED BY <3>1, <3>2
  <2>7. (\A q \in Procs : proc'[p].run = proc'[q].run /\ proc'[p].run > 0 => p = q) => ProcFits(p)'
    BY <2>1, <2>5 DEF ProcFits
  <2> QED BY <2>1, <2>2, <2>6, <2>7, SlotsKept
<1> QED BY <1>1, <1>2, <1>3, <1>4

LEMMA SlotsCall ==
  ASSUME TypesFit, SlotsFit, NEW p \in Procs, NEW t \in Tasks[p],
         Call(p, t) \/ Truncate(p, t) \/ Unreadable(p, t) \/ Send(p, t)
  PROVE  SlotsFit'
<1>1. /\ TypesFit' /\ OnlyCall(p, t) /\ proc' = proc /\ runs' = runs
      /\ task[p][t].stage # "idle" => proc[p].stage = "up"
      /\ proc[p].stage = "up"
  <2>1. TypesFit' /\ OnlyCall(p, t) /\ proc' = proc /\ runs' = runs
    BY CallDoes, TruncateDoes, UnreadableDoes, SendDoes
  <2>2. task[p][t].stage # "idle" => proc[p].stage = "up"
    BY DEF SlotsFit, CallFits
  <2>3. Call(p, t) => proc[p].stage = "up"
    BY Zenon DEF Call
  <2>4. ~Call(p, t) => task[p][t].stage # "idle"
    BY DEF Truncate, Unreadable, Send
  <2> QED BY <2>1, <2>2, <2>3, <2>4
<1>2. OnlySlot(p) /\ RunsKept
  BY <1>1, SlotTyped DEF OnlySlot, OnlyCall, OnlyProc, RunsKept
<1>3. Kind(p)' = Kind(p) /\ EnvOf(p)' = EnvOf(p)
  BY <1>1 DEF Kind, EnvOf
<1>4. (\A q \in Procs : proc'[p].run = proc'[q].run /\ proc'[p].run > 0 => p = q) => ProcFits(p)'
  BY <1>1, <1>3 DEF SlotsFit, ProcFits
<1>5. /\ task'[p][t].stage \in {"asked", "cut", "ready", "sent", "idle"}
      /\ CallFits(p, t)'
      /\ task'[p][t].stage \in Writing => task[p][t].stage \in Writing
  <2>0. CallFits(p, t) /\ task[p][t] \in Calls
    BY DEF SlotsFit, TypesFit
  <2>1. CASE Call(p, t)
    <3>1. PICK item \in Items : task'[p][t] = NewCall(item)
      BY <2>1, CallDoes
    <3>2. /\ task'[p][t].stage = "asked" /\ task'[p][t].told = <<>>
          /\ task'[p][t].items = <<item>>
      BY <3>1 DEF NoCall, NewCall
    <3>3. Kind(p) = "mcp" /\ proc[p].stage = "up"
      BY <2>1, CallDoes
    <3>4. Len(task'[p][t].items) = 1 /\ Len(task'[p][t].told) = 0
      BY <3>2
    <3>5. Len(task'[p][t].told) <= Len(task'[p][t].items)
      BY <3>4
    <3> QED BY <1>1, <1>3, <3>2, <3>3, <3>4, <3>5 DEF CallFits, Writing
  <2>2. CASE Truncate(p, t)
    <3>1. task[p][t].stage = "made" /\ task'[p][t] = [task[p][t] EXCEPT !.stage = "cut"]
      BY <2>2, TruncateDoes
    <3>2. /\ task'[p][t].stage = "cut" /\ task'[p][t].told = task[p][t].told
          /\ task'[p][t].items = task[p][t].items /\ task'[p][t].made = task[p][t].made
      BY <2>0, <3>1 DEF Calls
    <3>3. \A u \in Tasks[p] : u # t => task'[p][u] = task[p][u]
      BY <1>1 DEF OnlyCall
    <3>4. \A u \in Tasks[p] : u # t => task'[p][u].stage \notin Writing
      BY <2>0, <3>1, <3>3 DEF CallFits, Writing
    <3> QED BY <1>1, <1>3, <2>0, <3>1, <3>2, <3>4 DEF CallFits, Writing
  <2>3. CASE Unreadable(p, t)
    <3>1. /\ task[p][t].stage = "ready" /\ ~AllTold(p, t)
          /\ task'[p][t] = After(p, t, "error")
      BY <2>3, UnreadableDoes
    <3>2. CASE Kind(p) = "mcp"
      <4>1. task'[p][t] = NoCall
        BY <3>1, <3>2, AfterDoes DEF Outcomes
      <4> QED BY <1>1, <4>1 DEF CallFits, NoCall, Writing
    <3>3. CASE Kind(p) # "mcp"
      <4>1. /\ task'[p][t].stage = "ready" /\ task'[p][t].items = task[p][t].items
            /\ Len(task'[p][t].told) = Len(task[p][t].told) + 1
        BY <3>1, <3>3, AfterDoes DEF Outcomes
      <4>2. Len(task[p][t].told) + 1 <= Len(task[p][t].items)
        <5>1. Len(task[p][t].told) \in Nat /\ Len(task[p][t].items) \in Nat
          BY <2>0, LenProperties DEF Calls
        <5> QED BY <2>0, <3>1, <5>1 DEF AllTold, CallFits
      <4> QED BY <1>1, <1>3, <2>0, <3>1, <3>3, <4>1, <4>2 DEF CallFits, Writing
    <3> QED BY <3>2, <3>3
  <2>4. CASE Send(p, t)
    <3>1. /\ task[p][t].stage = "ready" /\ ~AllTold(p, t)
          /\ task'[p][t] = [task[p][t] EXCEPT !.stage = "sent"]
      BY <2>4, SendDoes
    <3>2. /\ task'[p][t].stage = "sent" /\ task'[p][t].told = task[p][t].told
          /\ task'[p][t].items = task[p][t].items /\ task'[p][t].made = task[p][t].made
      BY <2>0, <3>1 DEF Calls
    <3>3. Len(task[p][t].told) < Len(task[p][t].items)
      <4>1. Len(task[p][t].told) \in Nat /\ Len(task[p][t].items) \in Nat
        BY <2>0, LenProperties DEF Calls
      <4> QED BY <2>0, <3>1, <4>1 DEF AllTold, CallFits
    <3> QED BY <1>1, <1>3, <2>0, <3>1, <3>2, <3>3 DEF CallFits, Writing
  <2> QED BY <2>1, <2>2, <2>3, <2>4
<1>6. ASSUME NEW u \in Tasks[p], u # t PROVE CallFits(p, u)'
  <2>1. task'[p][u] = task[p][u] /\ CallFits(p, u) /\ CallFits(p, t)
    BY <1>1, <1>6 DEF OnlyCall, SlotsFit
  <2>2. \A v \in Tasks[p] : v # t => task'[p][v] = task[p][v]
    BY <1>1 DEF OnlyCall
  <2>3. task[p][u].stage \in Writing => \A v \in Tasks[p] : task'[p][v].stage \in Writing => v = u
    BY <1>5, <2>1, <2>2 DEF CallFits, Writing
  <2> QED BY <1>1, <1>3, <2>1, <2>3 DEF CallFits
<1> QED BY <1>1, <1>2, <1>4, <1>5, <1>6, SlotsKept

LEMMA SlotsResolve ==
  ASSUME TypesFit, SlotsFit, NEW p \in Procs, NEW t \in Tasks[p],
         Resolve(p, t) \/ Fill(p, t) \/ ResolveFails(p, t)
  PROVE  SlotsFit'
<1>1. /\ task[p][t].stage # "idle" /\ proc[p].stage = "up" /\ CallFits(p, t)
      /\ task[p][t] \in Calls /\ proc[p] \in Processes
      /\ proc[p].run > 0 /\ proc[p].run \in 0..Len(runs) /\ ProcFits(p)
  <2>1. task[p][t].stage # "idle" /\ CallFits(p, t) /\ ProcFits(p)
    BY DEF Resolve, Fill, ResolveFails, Writing, SlotsFit
  <2>2. task[p][t] \in Calls /\ proc[p] \in Processes
    BY DEF TypesFit
  <2> QED BY <2>1, <2>2 DEF CallFits, ProcFits
<1>2. /\ TypesFit' /\ OnlyCall(p, t) /\ OnlyProc(p) /\ runs' = runs
      /\ proc'[p].run = proc[p].run
  <2>1. CASE Resolve(p, t)
    <3>1. TypesFit' /\ OnlyCall(p, t) /\ OnlyProc(p) /\ runs' = runs
      BY Zenon, <1>1, <2>1, ResolveDoes
    <3>2. PICK unread \in BOOLEAN : proc'[p] = [proc[p] EXCEPT !.cell = Known(p, unread)]
      BY Zenon, <1>1, <2>1, ResolveDoes DEF Resolves
    <3> QED BY <1>1, <3>1, <3>2 DEF Processes
  <2>2. CASE Fill(p, t)
    <3>1. TypesFit' /\ OnlyCall(p, t) /\ OnlyProc(p) /\ runs' = runs
      BY Zenon, <2>2, FillDoes
    <3>2. proc'[p] = [proc[p] EXCEPT !.cell = task[p][t].made]
      BY Zenon, <2>2, FillDoes
    <3> QED BY <1>1, <3>1, <3>2 DEF Processes
  <2>3. CASE ResolveFails(p, t)
    <3>1. TypesFit' /\ OnlyCall(p, t) /\ OnlyProc(p) /\ runs' = runs
      BY <2>3, ResolveFailsDoes
    <3>2. proc' = proc \/ proc'[p] = [proc[p] EXCEPT !.stage = "failed"]
      BY <2>3, ResolveFailsDoes
    <3> QED BY <1>1, <3>1, <3>2 DEF Processes
  <2> QED BY <2>1, <2>2, <2>3
<1>3. OnlySlot(p) /\ RunsKept
  BY <1>2, SlotTyped DEF OnlySlot, OnlyCall, RunsKept
<1>4. Kind(p)' = Kind(p) /\ EnvOf(p)' = EnvOf(p)
  BY <1>2 DEF Kind, EnvOf
<1>5. \A u \in Tasks[p] : CallFits(p, u) /\ (u # t => task'[p][u] = task[p][u])
  BY <1>2 DEF SlotsFit, OnlyCall
<1>6. CASE Resolve(p, t)
  <2>0. PICK unread \in BOOLEAN : Resolves(p, t, unread)
    BY Zenon, <1>1, <1>6, ResolveDoes
  <2> DEFINE id == Known(p, unread)
  <2>1. /\ \A u \in Tasks[p] : task[p][u].stage \notin Writing
        /\ proc'[p] = [proc[p] EXCEPT !.cell = id]
        /\ task'[p][t] = [task[p][t] EXCEPT !.stage = IF id # None THEN "ready" ELSE "made",
                                            !.made = IF id # None THEN None ELSE Fresh]
        /\ task[p][t].stage = "asked"
    BY Zenon, <1>1, <1>6, <2>0, ResolveDoes DEF Resolves
  <2>4. /\ proc[p].cell # None => id # None
        /\ id = None => proc[p].cell = None /\ EnvOf(p).id # Given
    BY DEF Known, Given, None
  <2> HIDE DEF id
  <2>2. /\ proc'[p].cell = id /\ proc'[p].stage = "up"
        /\ proc'[p].url = proc[p].url /\ proc'[p].token = proc[p].token
    BY <1>1, <2>1 DEF Processes
  <2>3. /\ task'[p][t].stage = IF id # None THEN "ready" ELSE "made"
        /\ task'[p][t].made = IF id # None THEN None ELSE Fresh
        /\ task'[p][t].items = task[p][t].items /\ task'[p][t].told = task[p][t].told
    BY <1>1, <2>1 DEF Calls
  <2>5. CallFits(p, t)'
    <3>1. Fresh > 0
      BY FreshIsNew
    <3>2. \A u \in Tasks[p] : task'[p][u].stage \in Writing => u = t
      BY <1>5, <2>1
    <3>3. task'[p][t].stage \in Writing =>
             task'[p][t].made > 0 /\ proc'[p].cell = None /\ EnvOf(p).id # Given
      BY <2>2, <2>3, <2>4, <3>1 DEF Writing
    <3>4. task'[p][t].stage \in {"ready", "sent"} => proc'[p].cell # None
      BY <2>2, <2>3
    <3>5. task'[p][t].stage \in {"ready", "made"}
      BY <2>3
    <3> QED BY <1>1, <1>4, <2>2, <2>3, <3>2, <3>3, <3>4, <3>5 DEF CallFits
  <2>6. ASSUME NEW u \in Tasks[p], u # t PROVE CallFits(p, u)'
    <3>1. /\ task'[p][u] = task[p][u] /\ CallFits(p, u)
          /\ task[p][u].stage \notin Writing
      BY <1>5, <2>1, <2>6
    <3>2. task'[p][u].stage \in {"ready", "sent"} => proc'[p].cell # None
      BY <2>2, <2>4, <3>1 DEF CallFits
    <3> QED BY <1>1, <1>4, <2>2, <3>1, <3>2 DEF CallFits
  <2>7. (\A q \in Procs : proc'[p].run = proc'[q].run /\ proc'[p].run > 0 => p = q) => ProcFits(p)'
    BY <1>1, <1>2, <1>4, <2>2 DEF ProcFits
  <2> QED BY <1>2, <1>3, <2>5, <2>6, <2>7, SlotsKept
<1>7. CASE Fill(p, t)
  <2>1. /\ task[p][t].stage = "cut"
        /\ proc'[p] = [proc[p] EXCEPT !.cell = task[p][t].made]
        /\ task'[p][t] = [task[p][t] EXCEPT !.stage = "ready", !.made = None]
    BY Zenon, <1>7, FillDoes
  <2>2. /\ proc'[p].cell = task[p][t].made /\ proc'[p].stage = "up"
        /\ proc'[p].url = proc[p].url /\ proc'[p].token = proc[p].token
    BY <1>1, <2>1 DEF Processes
  <2>3. /\ task'[p][t].stage = "ready"
        /\ task'[p][t].items = task[p][t].items /\ task'[p][t].told = task[p][t].told
    BY <1>1, <2>1 DEF Calls
  <2>4. /\ task[p][t].made > 0 /\ task[p][t].made \in Nat
        /\ \A u \in Tasks[p] : task[p][u].stage \in Writing => u = t
    BY <1>1, <2>1 DEF CallFits, Writing, Calls
  <2>5. proc'[p].cell # None
    BY <2>2, <2>4 DEF None
  <2>6. CallFits(p, t)'
    BY <1>1, <1>4, <2>2, <2>3, <2>5 DEF CallFits, Writing
  <2>7. ASSUME NEW u \in Tasks[p], u # t PROVE CallFits(p, u)'
    <3>1. /\ task'[p][u] = task[p][u] /\ CallFits(p, u)
          /\ task[p][u].stage \notin Writing
      BY <1>5, <2>4, <2>7
    <3> QED BY <1>1, <1>4, <2>2, <2>5, <3>1 DEF CallFits
  <2>8. (\A q \in Procs : proc'[p].run = proc'[q].run /\ proc'[p].run > 0 => p = q) => ProcFits(p)'
    BY <1>1, <1>2, <1>4, <2>2 DEF ProcFits
  <2> QED BY <1>2, <1>3, <2>6, <2>7, <2>8, SlotsKept
<1>8. CASE ResolveFails(p, t)
  <2>1. /\ task'[p][t] = NoCall /\ task[p][t].stage \in Writing
        /\ IF Kind(p) = "mcp" THEN proc' = proc ELSE proc'[p] = [proc[p] EXCEPT !.stage = "failed"]
    BY <1>8, ResolveFailsDoes
  <2>2. CallFits(p, t)'
    BY <2>1 DEF CallFits, NoCall, Writing
  <2>3. ASSUME NEW u \in Tasks[p], u # t PROVE CallFits(p, u)'
    <3>1. task'[p][u] = task[p][u] /\ CallFits(p, u) /\ task[p][u].stage \notin Writing
      BY <1>1, <1>5, <2>1, <2>3 DEF CallFits
    <3>2. CASE Kind(p) = "mcp"
      BY <1>4, <2>1, <3>1, <3>2 DEF CallFits
    <3>3. CASE Kind(p) # "mcp"
      <4>1. task[p][u].stage = "idle"
        BY <1>1, <2>3, <3>1, <3>3 DEF CallFits
      <4>2. proc'[p].stage = "failed"
        BY <1>1, <2>1, <3>3 DEF Processes
      <4> QED BY <3>1, <4>1, <4>2 DEF CallFits, Writing
    <3> QED BY <3>2, <3>3
  <2>4. (\A q \in Procs : proc'[p].run = proc'[q].run /\ proc'[p].run > 0 => p = q) => ProcFits(p)'
    <3>1. CASE Kind(p) = "mcp"
      BY <1>1, <1>2, <1>4, <2>1, <3>1 DEF ProcFits
    <3>2. CASE Kind(p) # "mcp"
      <4>1. proc'[p].stage = "failed"
        BY <1>1, <2>1, <3>2 DEF Processes
      <4> QED BY <1>1, <1>2, <4>1 DEF ProcFits
    <3> QED BY <3>1, <3>2
  <2> QED BY <1>2, <1>3, <2>2, <2>3, <2>4, SlotsKept
<1> QED BY <1>6, <1>7, <1>8

LEMMA SlotsTell ==
  ASSUME TypesFit, SlotsFit, NEW p \in Procs, NEW t \in Tasks[p], NEW n \in DOMAIN reqs,
         NEW outcome \in Outcomes, Tell(p, t, n, outcome)
  PROVE  SlotsFit'
<1>1. /\ TypesFit' /\ OnlyCall(p, t) /\ proc' = proc /\ runs' = runs
      /\ task[p][t].stage = "sent" /\ task'[p][t] = After(p, t, outcome)
  <2>1. TypesFit' /\ OnlyCall(p, t)
    BY TellDoes
  <2>2. proc' = proc /\ runs' = runs /\ task[p][t].stage = "sent"
    BY DEF Tell
  <2>3. task'[p][t] = After(p, t, outcome)
    BY DEF Tell, TypesFit
  <2> QED BY <2>1, <2>2, <2>3
<1>2. /\ CallFits(p, t) /\ ProcFits(p) /\ task[p][t] \in Calls
      /\ OnlySlot(p) /\ RunsKept
  BY <1>1, SlotTyped DEF SlotsFit, TypesFit, OnlySlot, OnlyCall, OnlyProc, RunsKept
<1>3. Kind(p)' = Kind(p) /\ EnvOf(p)' = EnvOf(p) /\ proc[p].stage = "up"
  BY <1>1, <1>2 DEF Kind, EnvOf, CallFits
<1>4. (\A q \in Procs : proc'[p].run = proc'[q].run /\ proc'[p].run > 0 => p = q) => ProcFits(p)'
  BY <1>1, <1>2, <1>3 DEF ProcFits
<1>5. CallFits(p, t)'
  <2>1. CASE Kind(p) = "mcp"
    <3>1. task'[p][t] = NoCall
      BY <1>1, <2>1, AfterDoes
    <3> QED BY <3>1 DEF CallFits, NoCall, Writing
  <2>2. CASE Kind(p) # "mcp"
    <3>1. /\ task'[p][t].stage = "ready" /\ task'[p][t].items = task[p][t].items
          /\ Len(task'[p][t].told) = Len(task[p][t].told) + 1
      BY <1>1, <2>2, AfterDoes
    <3>2. Len(task[p][t].told) + 1 <= Len(task[p][t].items)
      <4>1. Len(task[p][t].told) \in Nat /\ Len(task[p][t].items) \in Nat
        BY <1>2, LenProperties DEF Calls
      <4> QED BY <1>1, <1>2, <4>1 DEF CallFits
    <3> QED BY <1>1, <1>2, <1>3, <2>2, <3>1, <3>2 DEF CallFits, Writing
  <2> QED BY <2>1, <2>2
<1>6. task'[p][t].stage \notin Writing
  <2>1. CASE Kind(p) = "mcp"
    BY <1>1, <2>1, AfterDoes DEF NoCall, Writing
  <2>2. CASE Kind(p) # "mcp"
    BY <1>1, <2>2, AfterDoes DEF Writing
  <2> QED BY <2>1, <2>2
<1>7. ASSUME NEW u \in Tasks[p], u # t PROVE CallFits(p, u)'
  <2>1. task'[p][u] = task[p][u] /\ CallFits(p, u)
    BY <1>1, <1>7 DEF OnlyCall, SlotsFit
  <2>2. \A v \in Tasks[p] : v # t => task'[p][v] = task[p][v]
    BY <1>1 DEF OnlyCall
  <2>3. task[p][u].stage \in Writing => \A v \in Tasks[p] : task'[p][v].stage \in Writing => v = u
    BY <1>6, <2>1, <2>2 DEF CallFits
  <2> QED BY <1>1, <1>3, <2>1, <2>3 DEF CallFits
<1> QED BY <1>1, <1>2, <1>4, <1>5, <1>7, SlotsKept

LEMMA SlotsServe ==
  ASSUME TypesFit, SlotsFit, NEW n \in DOMAIN reqs, Serve(n)
  PROVE  SlotsFit'
<1>1. UNCHANGED <<runs, proc, task>>
  BY DEF Serve
<1> QED BY <1>1 DEF SlotsFit, ProcFits, CallFits, Kind, EnvOf
-----------------------------------------------------------------------------
(* Requests: RequestsFit.                                                   *)

\* A step of slot p that makes no request, and leaves those it made as they are.
Quiet(p) ==
    /\ OnlySlot(p) /\ UNCHANGED <<runs, reqs>> /\ proc'[p].run = proc[p].run
    /\ proc[p].cell # None =>
          proc'[p].cell = proc[p].cell /\ proc'[p].url = proc[p].url /\ proc'[p].token = proc[p].token
    /\ \A u \in Tasks[p] : task[p][u].stage = "sent" => task'[p][u] = task[p][u]

LEMMA ReqTyped ==
  ASSUME TypesFit
  PROVE  /\ Len(reqs) \in Nat /\ DOMAIN reqs = 1..Len(reqs)
         /\ \A n \in DOMAIN reqs : reqs[n] \in Requested
BY LenProperties, ElementOfSeq DEF TypesFit

LEMMA QuietSteps ==
  ASSUME TypesFit, SlotsFit, NEW p \in Procs
  PROVE  /\ Load(p) \/ SaveTruncates(p) \/ SaveWrites(p) \/ Return(p) => Quiet(p)
         /\ \A t \in Tasks[p] :
               Call(p, t) \/ Resolve(p, t) \/ Truncate(p, t) \/ Fill(p, t) \/ ResolveFails(p, t)
                 \/ Unreadable(p, t)
               => Quiet(p)
<1> USE DEF Quiet, OnlySlot
<1>1. proc[p] \in Processes /\ \A t \in Tasks[p] : task[p][t] \in Calls
  BY DEF TypesFit
<1>2. ASSUME Load(p) PROVE Quiet(p)
  <2>1. /\ OnlyProc(p) /\ OnlyCall(p, First) /\ UNCHANGED <<runs, reqs>>
        /\ proc'[p].run = proc[p].run /\ proc[p].stage = "starting"
    BY Zenon, <1>2, LoadDoes
  <2>2. proc[p].cell = None /\ \A u \in Tasks[p] : task[p][u].stage # "sent"
    BY <2>1 DEF SlotsFit, ProcFits, CallFits
  <2> QED BY <2>1, <2>2 DEF OnlyCall
<1>3. ASSUME SaveTruncates(p) PROVE Quiet(p)
  <2>1. /\ OnlyProc(p) /\ UNCHANGED <<runs, reqs, task>>
        /\ proc'[p].run = proc[p].run /\ proc[p].stage = "starting"
    BY <1>3, SaveTruncatesDoes
  <2>2. proc[p].cell = None
    BY <2>1 DEF SlotsFit, ProcFits
  <2> QED BY <2>1, <2>2
<1>4. ASSUME SaveWrites(p) PROVE Quiet(p)
  <2>1. /\ OnlyProc(p) /\ UNCHANGED <<runs, reqs, task>>
        /\ proc'[p] = [proc[p] EXCEPT !.stage = "done"]
    BY <1>4, SaveWritesDoes
  <2>2. /\ proc'[p].run = proc[p].run /\ proc'[p].cell = proc[p].cell
        /\ proc'[p].url = proc[p].url /\ proc'[p].token = proc[p].token
    BY <1>1, <2>1 DEF Processes
  <2> QED BY <2>1, <2>2
<1>5. ASSUME Return(p) PROVE Quiet(p)
  <2>1. /\ OnlyProc(p) /\ OnlyCall(p, First) /\ UNCHANGED <<runs, reqs>>
        /\ proc'[p] = [proc[p] EXCEPT !.stage = "done"] /\ task[p][First].stage = "ready"
    BY <1>5, ReturnDoes
  <2>2. /\ proc'[p].run = proc[p].run /\ proc'[p].cell = proc[p].cell
        /\ proc'[p].url = proc[p].url /\ proc'[p].token = proc[p].token
    BY <1>1, <2>1 DEF Processes
  <2> QED BY <2>1, <2>2 DEF OnlyCall
<1>6. ASSUME NEW t \in Tasks[p], Call(p, t) \/ Truncate(p, t) \/ Unreadable(p, t) PROVE Quiet(p)
  <2>1. OnlyCall(p, t) /\ UNCHANGED <<runs, reqs, proc>>
    BY <1>6, CallDoes, TruncateDoes, UnreadableDoes
  <2>2. task[p][t].stage # "sent"
    BY <1>6, CallDoes, TruncateDoes, UnreadableDoes
  <2> QED BY <2>1, <2>2 DEF OnlyCall, OnlyProc
<1>7. ASSUME NEW t \in Tasks[p], Resolve(p, t) PROVE Quiet(p)
  <2>1. proc[p].stage = "up"
    BY <1>7 DEF Resolve, SlotsFit, CallFits
  <2>2. /\ OnlyProc(p) /\ OnlyCall(p, t) /\ UNCHANGED <<runs, reqs>>
        /\ task[p][t].stage = "asked"
    BY Zenon, <1>7, <2>1, ResolveDoes
  <2>0. PICK unread \in BOOLEAN : proc'[p] = [proc[p] EXCEPT !.cell = Known(p, unread)]
    BY Zenon, <1>7, <2>1, ResolveDoes DEF Resolves
  <2>3. /\ proc'[p].run = proc[p].run /\ proc'[p].cell = Known(p, unread)
        /\ proc'[p].url = proc[p].url /\ proc'[p].token = proc[p].token
    BY <1>1, <2>0 DEF Processes
  <2> QED BY <2>2, <2>3 DEF OnlyCall, Known
<1>8. ASSUME NEW t \in Tasks[p], Fill(p, t) \/ ResolveFails(p, t) PROVE Quiet(p)
  <2>1. /\ OnlyProc(p) /\ OnlyCall(p, t) /\ UNCHANGED <<runs, reqs>>
        /\ task[p][t].stage \in Writing
    BY Zenon, <1>8, FillDoes, ResolveFailsDoes DEF Writing
  <2>2. proc[p].cell = None
    BY <2>1 DEF SlotsFit, CallFits
  <2>3. proc'[p].run = proc[p].run
    <3>1. \/ proc'[p] = [proc[p] EXCEPT !.cell = task[p][t].made]
          \/ proc' = proc \/ proc'[p] = [proc[p] EXCEPT !.stage = "failed"]
      BY Zenon, <1>8, FillDoes, ResolveFailsDoes
    <3> QED BY <1>1, <3>1 DEF Processes
  <2> QED BY <2>1, <2>2, <2>3 DEF OnlyCall, Writing
<1> QED BY <1>2, <1>3, <1>4, <1>5, <1>6, <1>7, <1>8

\* What concerns no request of p.
LEMMA MakersKept ==
  ASSUME TypesFit, SlotsFit, RequestsFit, NEW p \in Procs, OnlySlot(p),
         NEW n \in DOMAIN reqs, reqs'[n].run = reqs[n].run, reqs'[n].id = reqs[n].id,
         reqs'[n].url = reqs[n].url, reqs'[n].token = reqs[n].token, reqs'[n].task = reqs[n].task,
         reqs'[n].op = reqs[n].op, reqs'[n].file = reqs[n].file,
         reqs'[n].told = "none" => reqs[n].told = "none",
         NEW q \in Procs, q # p
  PROVE  MakerFits(n, q)'
<1>1. MakerFits(n, q) /\ proc'[q] = proc[q]
  BY DEF RequestsFit, OnlySlot, OnlyProc
<1>2. reqs[n].task \in Tasks[q] => task'[q][reqs[n].task] = task[q][reqs[n].task]
  BY DEF OnlySlot
<1> QED BY <1>1, <1>2 DEF MakerFits, Item

LEMMA QuietKeeps ==
  ASSUME TypesFit, SlotsFit, RequestsFit, NEW p \in Procs, Quiet(p)
  PROVE  RequestsFit'
<1>1. ASSUME NEW n \in DOMAIN reqs PROVE MakerFits(n, p)'
  <2>1. MakerFits(n, p) /\ reqs[n].id # None
    BY DEF RequestsFit
  <2>2. reqs' = reqs /\ proc'[p].run = proc[p].run
    BY DEF Quiet
  <2>3. CASE proc[p].run = reqs[n].run
    <3>1. proc[p].cell # None
      BY <2>1, <2>3 DEF MakerFits
    <3>2. reqs[n].told = "none" => task'[p][reqs[n].task] = task[p][reqs[n].task]
      BY <2>1, <2>3 DEF Quiet, MakerFits
    <3> QED BY <2>1, <2>2, <2>3, <3>1, <3>2 DEF Quiet, MakerFits, Item
  <2>4. CASE proc[p].run # reqs[n].run
    BY <2>2, <2>4 DEF MakerFits
  <2> QED BY <2>3, <2>4
<1>2. \A n \in DOMAIN reqs : \A q \in Procs : q # p => MakerFits(n, q)'
  BY MakersKept DEF Quiet
<1>3. \A m, n \in DOMAIN reqs : PairFits(m, n)'
  BY DEF Quiet, RequestsFit, PairFits
<1> QED BY <1>1, <1>2, <1>3 DEF RequestsFit, Quiet

LEMMA RequestsStart ==
  ASSUME TypesFit, SlotsFit, RequestsFit, NEW p \in Procs, Start(p) \/ Kill(p)
  PROVE  RequestsFit'
<1>1. /\ OnlySlot(p) /\ reqs' = reqs
      /\ proc'[p].run \in {0, Len(runs) + 1}
      /\ Len(runs) <= Len(runs') /\ Len(runs) \in Nat /\ Len(runs') \in Nat
  <2>1. CASE Start(p)
    <3>1. PICK x \in Launches : runs' = Append(runs, x)
      BY <2>1, StartDoes
    <3>2. Len(runs') = Len(runs) + 1 /\ Len(runs) \in Nat
      BY <3>1, AppendProperties, LenProperties DEF TypesFit
    <3>3. proc'[p] = [Off EXCEPT !.run = Len(runs) + 1, !.stage = "starting"]
      BY <2>1, StartDoes
    <3>4. proc'[p].run = Len(runs) + 1
      BY <3>3 DEF Off
    <3>5. OnlySlot(p) /\ reqs' = reqs
      BY <2>1, StartDoes DEF OnlySlot
    <3> QED BY <3>2, <3>4, <3>5
  <2>2. CASE Kill(p)
    BY <2>2, KillDoes, SlotTyped DEF OnlySlot, Off
  <2> QED BY <2>1, <2>2
<1>2. ASSUME NEW n \in DOMAIN reqs PROVE reqs'[n].run \in 1..Len(runs') /\ MakerFits(n, p)'
  <2>1. reqs[n].run \in 1..Len(runs)
    BY DEF RequestsFit
  <2>2. reqs'[n].run # proc'[p].run
    BY <1>1, <2>1
  <2> QED BY <1>1, <2>1, <2>2 DEF MakerFits
<1>3. \A n \in DOMAIN reqs : \A q \in Procs : q # p => MakerFits(n, q)'
  BY <1>1, MakersKept
<1>4. \A m, n \in DOMAIN reqs : PairFits(m, n)'
  BY <1>1 DEF RequestsFit, PairFits
<1> QED BY <1>1, <1>2, <1>3, <1>4 DEF RequestsFit

LEMMA RequestsSend ==
  ASSUME TypesFit, SlotsFit, RequestsFit, NEW p \in Procs, NEW t \in Tasks[p], Send(p, t)
  PROVE  RequestsFit'
<1>0. PICK k : k = Len(reqs) + 1
  OBVIOUS
<1>1. /\ task[p][t].stage = "ready" /\ task[p][t] \in Calls
      /\ task'[p][t] = [task[p][t] EXCEPT !.stage = "sent"] /\ OnlyCall(p, t)
  BY SendDoes
<1>2. /\ DOMAIN reqs = 1..Len(reqs) /\ Len(reqs) \in Nat /\ DOMAIN reqs' = 1..k
      /\ \A n \in DOMAIN reqs : reqs'[n] = reqs[n]
      /\ reqs'[k] = Asked(p, t)
  BY <1>0, SendDoes
<1>3. UNCHANGED <<runs, proc>>
  BY DEF Send
<1>4. /\ task'[p][t].stage = "sent" /\ task'[p][t].told = task[p][t].told
      /\ task'[p][t].items = task[p][t].items
  BY <1>1 DEF Calls
<1>5. OnlySlot(p)
  BY <1>1, <1>3 DEF OnlySlot, OnlyCall, OnlyProc
<1>6. /\ CallFits(p, t) /\ ProcFits(p) /\ proc[p].cell # None
      /\ proc[p].run \in 1..Len(runs) /\ Len(runs) \in Nat
  <2>1. CallFits(p, t) /\ ProcFits(p) /\ proc[p] \in Processes /\ Len(runs) \in Nat
    BY SlotTyped DEF SlotsFit
  <2>2. proc[p].stage = "up" /\ proc[p].cell # None
    BY <1>1, <2>1 DEF CallFits
  <2> QED BY <2>1, <2>2 DEF ProcFits
<1>7. k \in DOMAIN reqs' /\ k \notin DOMAIN reqs /\ \A n \in DOMAIN reqs : n < k
  BY <1>0, <1>2
<1>8. \A n \in DOMAIN reqs' : n \in DOMAIN reqs \/ n = k
  BY <1>0, <1>2
<1>9. /\ reqs'[k].run = proc[p].run /\ reqs'[k].task = t /\ reqs'[k].id = proc[p].cell
      /\ reqs'[k].url = proc[p].url /\ reqs'[k].token = proc[p].token
      /\ reqs'[k].op = Item(p, t).op /\ reqs'[k].file = Item(p, t).file
      /\ reqs'[k].told = "none"
  BY <1>2 DEF Asked
<1>10. \A q \in Procs : MakerFits(k, q)'
  <2>1. MakerFits(k, p)'
    <3>1. /\ Item(p, t)' = Item(p, t)
          /\ proc'[p].run = proc[p].run /\ proc'[p].cell = proc[p].cell
          /\ proc'[p].url = proc[p].url /\ proc'[p].token = proc[p].token
      BY <1>3, <1>4 DEF Item
    <3> QED BY <1>4, <1>9, <3>1 DEF MakerFits, Item
  <2>2. ASSUME NEW q \in Procs, q # p PROVE MakerFits(k, q)'
    <3>1. proc'[q].run # proc[p].run
      BY <1>3, <1>6, <2>2 DEF ProcFits
    <3> QED BY <1>9, <3>1 DEF MakerFits
  <2> QED BY <2>1, <2>2
<1>11. ASSUME NEW n \in DOMAIN reqs, NEW q \in Procs PROVE MakerFits(n, q)'
  <2>1. CASE q # p
    BY <1>2, <1>5, <2>1, MakersKept
  <2>2. CASE q = p
    <3>1. MakerFits(n, p) /\ reqs'[n] = reqs[n] /\ proc' = proc
      BY <1>2, <1>3 DEF RequestsFit
    <3>2. proc[p].run = reqs[n].run /\ reqs[n].told = "none"
             => reqs[n].task # t /\ task'[p][reqs[n].task] = task[p][reqs[n].task]
      BY <1>1, <3>1 DEF MakerFits, OnlyCall
    <3> QED BY <2>2, <3>1, <3>2 DEF MakerFits, Item
  <2> QED BY <2>1, <2>2
<1>12. ASSUME NEW m \in DOMAIN reqs', NEW n \in DOMAIN reqs' PROVE PairFits(m, n)'
  <2>1. CASE m \in DOMAIN reqs /\ n \in DOMAIN reqs
    BY <1>2, <2>1 DEF RequestsFit, PairFits
  <2>2. CASE m \in DOMAIN reqs /\ n = k
    <3>1. reqs'[m] = reqs[m] /\ MakerFits(m, p)
      BY <1>2, <2>2 DEF RequestsFit
    <3>2. reqs[m].run = proc[p].run /\ reqs[m].task = t => reqs[m].told # "none"
      BY <1>1, <3>1 DEF MakerFits
    <3> QED BY <1>9, <2>2, <3>1, <3>2 DEF PairFits, MakerFits
  <2>3. CASE m = k /\ n \in DOMAIN reqs
    <3>1. reqs'[n] = reqs[n] /\ MakerFits(n, p) /\ ~(m < n)
      BY <1>0, <1>2, <2>3 DEF RequestsFit
    <3> QED BY <1>9, <2>3, <3>1 DEF PairFits, MakerFits
  <2>4. CASE m = k /\ n = k
    <3>1. ~(m < n)
      BY <1>0, <1>2, <2>4
    <3> QED BY <2>4, <3>1 DEF PairFits
  <2> QED BY <1>8, <2>1, <2>2, <2>3, <2>4
<1>13. \A n \in DOMAIN reqs' : reqs'[n].run \in 1..Len(runs') /\ reqs'[n].id # None
  BY <1>2, <1>3, <1>6, <1>8, <1>9 DEF RequestsFit
<1> QED BY <1>8, <1>10, <1>11, <1>12, <1>13 DEF RequestsFit

LEMMA RequestsTell ==
  ASSUME TypesFit, SlotsFit, RequestsFit, NEW p \in Procs, NEW t \in Tasks[p],
         NEW n \in DOMAIN reqs, NEW outcome \in Outcomes, Tell(p, t, n, outcome)
  PROVE  RequestsFit'
<1>1. /\ OnlyCall(p, t) /\ DOMAIN reqs' = DOMAIN reqs /\ reqs[n] \in Requested
      /\ reqs'[n] = [reqs[n] EXCEPT !.told = outcome]
      /\ \A m \in DOMAIN reqs : m # n => reqs'[m] = reqs[m]
  BY TellDoes
<1>2. /\ UNCHANGED <<runs, proc>> /\ task[p][t].stage = "sent"
      /\ reqs[n].run = proc[p].run /\ reqs[n].task = t /\ reqs[n].told = "none"
  BY DEF Tell
<1>3. OnlySlot(p)
  BY <1>1, <1>2 DEF OnlySlot, OnlyCall, OnlyProc
<1>4. \A m \in DOMAIN reqs :
         /\ reqs'[m].run = reqs[m].run /\ reqs'[m].id = reqs[m].id /\ reqs'[m].url = reqs[m].url
         /\ reqs'[m].token = reqs[m].token /\ reqs'[m].task = reqs[m].task
         /\ reqs'[m].op = reqs[m].op /\ reqs'[m].file = reqs[m].file
         /\ reqs'[m].told = IF m = n THEN outcome ELSE reqs[m].told
  BY Zenon, <1>1 DEF Requested
<1>5. outcome # "none"
  BY DEF Outcomes
<1>6. ASSUME NEW m \in DOMAIN reqs, NEW q \in Procs PROVE MakerFits(m, q)'
  <2>1. CASE q # p
    BY <1>3, <1>4, <1>5, <2>1, MakersKept
  <2>2. CASE q = p
    <3>1. MakerFits(m, p) /\ PairFits(m, n) /\ PairFits(n, m)
      BY DEF RequestsFit
    <3>2. CASE m = n
      BY <1>2, <1>4, <1>5, <2>2, <3>1, <3>2 DEF MakerFits
    <3>3. CASE m # n
      <4>1. m < n \/ n < m
        BY <3>3, ReqTyped
      <4>2. reqs[m].run = proc[p].run /\ reqs[m].told = "none" => reqs[m].task # t
        BY <1>2, <3>1, <4>1 DEF PairFits
      <4>3. reqs[m].run = proc[p].run /\ reqs[m].told = "none" =>
               task'[p][reqs[m].task] = task[p][reqs[m].task]
        BY <1>1, <3>1, <4>2 DEF MakerFits, OnlyCall
      <4> QED BY Zenon, <1>2, <1>4, <2>2, <3>1, <3>3, <4>3 DEF MakerFits, Item
    <3> QED BY <3>2, <3>3
  <2> QED BY <2>1, <2>2
<1>7. \A l, m \in DOMAIN reqs : PairFits(l, m)'
  BY <1>2, <1>4, <1>5 DEF RequestsFit, PairFits
<1>8. \A m \in DOMAIN reqs : reqs'[m].run \in 1..Len(runs') /\ reqs'[m].id # None
  BY <1>2, <1>4 DEF RequestsFit
<1> QED BY <1>1, <1>6, <1>7, <1>8 DEF RequestsFit

LEMMA RequestsServe ==
  ASSUME TypesFit, SlotsFit, RequestsFit, NEW n \in DOMAIN reqs, Serve(n)
  PROVE  RequestsFit'
<1>1. /\ DOMAIN reqs' = DOMAIN reqs /\ reqs[n] \in Requested
      /\ \A m \in DOMAIN reqs : m # n => reqs'[m] = reqs[m]
  BY ServeDoes
<1>2. PICK answer : reqs'[n] = [reqs[n] EXCEPT !.answer = answer]
  BY ServeDoes
<1>3. UNCHANGED <<runs, proc, task>>
  BY DEF Serve
<1>4. \A m \in DOMAIN reqs :
         /\ reqs'[m].run = reqs[m].run /\ reqs'[m].id = reqs[m].id /\ reqs'[m].url = reqs[m].url
         /\ reqs'[m].token = reqs[m].token /\ reqs'[m].task = reqs[m].task
         /\ reqs'[m].op = reqs[m].op /\ reqs'[m].file = reqs[m].file
         /\ reqs'[m].told = reqs[m].told
  BY ZenonT(40), <1>1, <1>2 DEF Requested
<1>5. ASSUME NEW m \in DOMAIN reqs, NEW q \in Procs PROVE MakerFits(m, q)'
  <2>1. MakerFits(m, q)
    BY DEF RequestsFit
  <2> QED BY <1>3, <1>4, <2>1 DEF MakerFits, Item
<1>6. \A l, m \in DOMAIN reqs : PairFits(l, m)'
  BY <1>4 DEF RequestsFit, PairFits
<1>7. \A m \in DOMAIN reqs : reqs'[m].run \in 1..Len(runs') /\ reqs'[m].id # None
  BY <1>3, <1>4 DEF RequestsFit
<1> QED BY <1>1, <1>5, <1>6, <1>7 DEF RequestsFit
-----------------------------------------------------------------------------
(* Tokens: ConfigFits.                                                      *)

\* A step of slot p that brings up no process, and breaks no pair in config.toml.
Tame(p) ==
    /\ OnlyProc(p) /\ RunsKept /\ reqs' = reqs
    /\ \/ config' = config \/ config'.url = None \/ config'.token = None
       \/ config'.url = config'.token
    /\ proc'[p].stage = "up" =>
          /\ proc[p].stage = "up" /\ proc'[p].run = proc[p].run
          /\ proc'[p].url = proc[p].url /\ proc'[p].token = proc[p].token

LEMMA ConfigKept ==
  ASSUME TypesFit, SlotsFit, RequestsFit, ConfigFits, NEW p \in Procs, Tame(p)
  PROVE  ConfigFits'
<1> USE DEF Tame
<1>1. ASSUME NEW q \in Procs, proc'[q].stage = "up" /\ NoEnv(proc[q].run)'
      PROVE  proc'[q].url = proc'[q].token
  <2>1. /\ proc[q].stage = "up" /\ proc'[q].run = proc[q].run
        /\ proc'[q].url = proc[q].url /\ proc'[q].token = proc[q].token
    BY <1>1 DEF OnlyProc
  <2>2. proc[q].run \in 0..Len(runs) /\ proc[q].run > 0 /\ Len(runs) \in Nat
    BY <2>1, SlotTyped DEF SlotsFit, ProcFits
  <2>3. runs'[proc'[q].run] = runs[proc[q].run]
    BY <2>1, <2>2 DEF RunsKept
  <2>4. NoEnv(proc[q].run)
    BY <1>1, <2>3 DEF NoEnv
  <2> QED BY <2>1, <2>4 DEF ConfigFits
<1>2. ASSUME NEW n \in DOMAIN reqs, NoEnv(reqs[n].run)' PROVE reqs[n].url = reqs[n].token
  <2>1. runs'[reqs[n].run] = runs[reqs[n].run]
    BY DEF RequestsFit, RunsKept
  <2> QED BY <1>2, <2>1 DEF NoEnv, ConfigFits
<1>3. config'.url # None /\ config'.token # None => config'.url = config'.token
  BY DEF ConfigFits
<1> QED BY <1>1, <1>2, <1>3 DEF ConfigFits

LEMMA ConfigLoad ==
  ASSUME TypesFit, SlotsFit, RequestsFit, ConfigFits, NEW p \in Procs, Load(p)
  PROVE  ConfigFits'
<1>1. /\ OnlyProc(p) /\ UNCHANGED <<config, runs, reqs>>
      /\ proc'[p].run = proc[p].run
  BY Zenon, LoadDoes
<1>2. proc'[p].stage = "up" =>
         /\ \E file \in {config, NoConfig} :
               /\ proc'[p].url = Resolved(Kind(p), EnvOf(p), file).url
               /\ proc'[p].token = Resolved(Kind(p), EnvOf(p), file).token
         /\ proc'[p].url # None /\ proc'[p].token # None
  BY Zenon, LoadDoes
<1>3. proc'[p].stage = "up" /\ NoEnv(proc[p].run) => proc'[p].url = proc'[p].token
  <2> SUFFICES ASSUME proc'[p].stage = "up", EnvOf(p).url = None, EnvOf(p).token = None
               PROVE  proc'[p].url = proc'[p].token
    BY DEF NoEnv, EnvOf
  <2>0. PICK file \in {config, NoConfig} :
           /\ proc'[p].url = Resolved(Kind(p), EnvOf(p), file).url
           /\ proc'[p].token = Resolved(Kind(p), EnvOf(p), file).token
    BY Zenon, <1>2
  <2>1. proc'[p].url = (IF Kind(p) # "mcp" THEN file.url ELSE None) /\ proc'[p].url # None
    BY <1>2, <2>0 DEF Resolved
  <2>2. proc'[p].token = (IF Kind(p) # "mcp" THEN file.token ELSE None) /\ proc'[p].token # None
    BY <1>2, <2>0 DEF Resolved
  <2> QED BY <2>1, <2>2 DEF ConfigFits, NoConfig
<1> QED BY <1>1, <1>3 DEF ConfigFits, NoEnv, OnlyProc

LEMMA ConfigSend ==
  ASSUME TypesFit, SlotsFit, RequestsFit, ConfigFits,
         NEW p \in Procs, NEW t \in Tasks[p], Send(p, t)
  PROVE  ConfigFits'
<1>1. PICK k : k = Len(reqs) + 1
  OBVIOUS
<1>2. /\ DOMAIN reqs = 1..Len(reqs) /\ Len(reqs) \in Nat /\ DOMAIN reqs' = 1..k
      /\ \A n \in DOMAIN reqs : reqs'[n] = reqs[n]
      /\ reqs'[k] = Asked(p, t)
  BY <1>1, SendDoes
<1>3. UNCHANGED <<runs, proc, config>> /\ task[p][t].stage = "ready"
  BY DEF Send
<1>4. proc[p].stage = "up"
  BY <1>3 DEF SlotsFit, CallFits
<1>5. /\ reqs'[k].run = proc[p].run /\ reqs'[k].url = proc[p].url
      /\ reqs'[k].token = proc[p].token
  BY <1>2 DEF Asked
<1>6. \A n \in DOMAIN reqs' : n \in DOMAIN reqs \/ n = k
  BY <1>1, <1>2
<1> QED BY <1>2, <1>3, <1>4, <1>5, <1>6 DEF ConfigFits, NoEnv

LEMMA ConfigReqs ==
  ASSUME TypesFit, ConfigFits, UNCHANGED <<runs, proc, config>>, DOMAIN reqs' = DOMAIN reqs,
         \A m \in DOMAIN reqs : /\ reqs'[m].run = reqs[m].run
                                /\ reqs'[m].url = reqs[m].url /\ reqs'[m].token = reqs[m].token
  PROVE  ConfigFits'
BY DEF ConfigFits, NoEnv

\* What a request keeps when it is told or served.
LEMMA TellChanges ==
  ASSUME TypesFit, NEW p \in Procs, NEW t \in Tasks[p], NEW n \in DOMAIN reqs,
         NEW outcome \in Outcomes, Tell(p, t, n, outcome)
  PROVE  /\ DOMAIN reqs' = DOMAIN reqs
         /\ \A m \in DOMAIN reqs :
               /\ reqs'[m].run = reqs[m].run /\ reqs'[m].id = reqs[m].id
               /\ reqs'[m].url = reqs[m].url /\ reqs'[m].token = reqs[m].token
               /\ reqs'[m].task = reqs[m].task /\ reqs'[m].op = reqs[m].op
               /\ reqs'[m].file = reqs[m].file /\ reqs'[m].answer = reqs[m].answer
               /\ reqs'[m].told = IF m = n THEN outcome ELSE reqs[m].told
<1>1. /\ DOMAIN reqs' = DOMAIN reqs /\ reqs[n] \in Requested
      /\ reqs'[n] = [reqs[n] EXCEPT !.told = outcome]
      /\ \A m \in DOMAIN reqs : m # n => reqs'[m] = reqs[m]
  BY TellDoes
<1> QED BY ZenonT(40), <1>1 DEF Requested

LEMMA ServeChanges ==
  ASSUME TypesFit, NEW n \in DOMAIN reqs, Serve(n)
  PROVE  /\ DOMAIN reqs' = DOMAIN reqs
         /\ \A m \in DOMAIN reqs :
               /\ reqs'[m].run = reqs[m].run /\ reqs'[m].id = reqs[m].id
               /\ reqs'[m].url = reqs[m].url /\ reqs'[m].token = reqs[m].token
               /\ reqs'[m].task = reqs[m].task /\ reqs'[m].op = reqs[m].op
               /\ reqs'[m].file = reqs[m].file /\ reqs'[m].told = reqs[m].told
               /\ m # n => reqs'[m].answer = reqs[m].answer
<1>1. /\ DOMAIN reqs' = DOMAIN reqs /\ reqs[n] \in Requested
      /\ \A m \in DOMAIN reqs : m # n => reqs'[m] = reqs[m]
  BY ServeDoes
<1>2. PICK answer : reqs'[n] = [reqs[n] EXCEPT !.answer = answer]
  BY ServeDoes
<1> QED BY Zenon, <1>1, <1>2 DEF Requested

LEMMA ConfigStep ==
  ASSUME TypesFit, SlotsFit, RequestsFit, ConfigFits, NEW p \in Procs,
         Start(p) \/ Kill(p) \/ SaveTruncates(p) \/ SaveWrites(p) \/ Return(p)
  PROVE  ConfigFits'
<1>1. CASE Start(p)
  <2>1. /\ OnlyProc(p) /\ UNCHANGED <<config, reqs>>
        /\ proc'[p] = [Off EXCEPT !.run = Len(runs) + 1, !.stage = "starting"]
    BY <1>1, StartDoes
  <2>2. PICK x \in Launches : runs' = Append(runs, x)
    BY <1>1, StartDoes
  <2>3. RunsKept
    BY <2>2, AppendProperties, LenProperties DEF RunsKept, TypesFit
  <2>4. proc'[p].stage = "starting"
    BY <2>1 DEF Off
  <2>5. Tame(p)
    BY <2>1, <2>3, <2>4 DEF Tame
  <2> QED BY <2>5, ConfigKept
<1>2. CASE Kill(p)
  <2>1. OnlyProc(p) /\ UNCHANGED <<config, reqs, runs>> /\ proc'[p].stage = "off"
    BY <1>2, KillDoes DEF Off
  <2>2. RunsKept
    BY <2>1, SlotTyped DEF RunsKept
  <2>3. Tame(p)
    BY <2>1, <2>2 DEF Tame
  <2> QED BY <2>3, ConfigKept
<1>3. CASE SaveTruncates(p)
  <2>1. OnlyProc(p) /\ UNCHANGED <<reqs, runs>> /\ proc'[p].stage = "saving" /\ config'.url = None
    BY <1>3, SaveTruncatesDoes DEF NoConfig
  <2>2. RunsKept
    BY <2>1, SlotTyped DEF RunsKept
  <2>3. Tame(p)
    BY <2>1, <2>2 DEF Tame
  <2> QED BY <2>3, ConfigKept
<1>4. CASE SaveWrites(p)
  <2>1. /\ OnlyProc(p) /\ UNCHANGED <<reqs, runs>> /\ proc[p].stage = "saving"
        /\ proc'[p] = [proc[p] EXCEPT !.stage = "done"] /\ proc[p] \in Processes
        /\ config' = [url |-> proc[p].url, token |-> proc[p].token]
    BY <1>4, SaveWritesDoes
  <2>2. proc'[p].stage = "done"
    BY <2>1 DEF Processes
  <2>3. config'.url = None \/ config'.token = None \/ config'.url = config'.token
    BY <2>1 DEF SlotsFit, ProcFits
  <2>4. Tame(p)
    BY <2>1, <2>2, <2>3, SlotTyped DEF Tame, RunsKept
  <2> QED BY <2>4, ConfigKept
<1>5. CASE Return(p)
  <2>1. /\ OnlyProc(p) /\ UNCHANGED <<config, reqs, runs>>
        /\ proc'[p] = [proc[p] EXCEPT !.stage = "done"] /\ proc[p] \in Processes
    BY <1>5, ReturnDoes
  <2>2. proc'[p].stage = "done"
    BY <2>1 DEF Processes
  <2>3. Tame(p)
    BY <2>1, <2>2, SlotTyped DEF Tame, RunsKept
  <2> QED BY <2>3, ConfigKept
<1> QED BY <1>1, <1>2, <1>3, <1>4, <1>5

LEMMA ConfigCall ==
  ASSUME TypesFit, SlotsFit, RequestsFit, ConfigFits, NEW p \in Procs, NEW t \in Tasks[p],
         Call(p, t) \/ Truncate(p, t) \/ Unreadable(p, t) \/ Resolve(p, t) \/ Fill(p, t)
           \/ ResolveFails(p, t)
  PROVE  ConfigFits'
<1>1. Quiet(p) /\ proc[p] \in Processes
  BY QuietSteps DEF TypesFit
<1>2. OnlyProc(p) /\ UNCHANGED <<runs, reqs>>
  BY <1>1 DEF Quiet, OnlySlot
<1>3. config' = config
  BY Zenon DEF Call, Truncate, Unreadable, Resolve, Fill, ResolveFails
<1>4. \/ proc' = proc
      \/ \E x : proc'[p] = [proc[p] EXCEPT !.cell = x]
      \/ proc'[p] = [proc[p] EXCEPT !.stage = "failed"]
  <2>1. Call(p, t) \/ Truncate(p, t) \/ Unreadable(p, t) => proc' = proc
    BY Zenon DEF Call, Truncate, Unreadable
  <2>2. ASSUME Resolve(p, t) PROVE \E x : proc'[p] = [proc[p] EXCEPT !.cell = x]
    <3>1. proc[p].stage = "up"
      BY <2>2 DEF Resolve, SlotsFit, CallFits
    <3>2. PICK unread \in BOOLEAN : Resolves(p, t, unread)
      BY Zenon, <2>2, <3>1, ResolveDoes
    <3> QED BY Zenon, <3>2 DEF Resolves
  <2>3. Fill(p, t) => \E x : proc'[p] = [proc[p] EXCEPT !.cell = x]
    BY Zenon, FillDoes
  <2>4. ResolveFails(p, t) => proc' = proc \/ proc'[p] = [proc[p] EXCEPT !.stage = "failed"]
    BY ResolveFailsDoes
  <2> QED BY <2>1, <2>2, <2>3, <2>4
<1>5. proc'[p].stage = "up" =>
         /\ proc[p].stage = "up" /\ proc'[p].run = proc[p].run
         /\ proc'[p].url = proc[p].url /\ proc'[p].token = proc[p].token
  BY <1>1, <1>4 DEF Processes
<1>6. RunsKept
  BY <1>2, SlotTyped DEF RunsKept
<1>7. Tame(p)
  BY <1>2, <1>3, <1>5, <1>6 DEF Tame
<1> QED BY <1>7, ConfigKept
-----------------------------------------------------------------------------
(* What is told: AnswersFit.                                                *)

LEMMA AnswersSend ==
  ASSUME TypesFit, SlotsFit, AnswersFit, NEW p \in Procs, NEW t \in Tasks[p], Send(p, t)
  PROVE  AnswersFit'
<1>1. PICK k : k = Len(reqs) + 1
  OBVIOUS
<1>2. /\ DOMAIN reqs = 1..Len(reqs) /\ Len(reqs) \in Nat /\ DOMAIN reqs' = 1..k
      /\ \A n \in DOMAIN reqs : reqs'[n] = reqs[n]
      /\ reqs'[k] = Asked(p, t)
  BY <1>1, SendDoes
<1>3. stored' = stored /\ stored \subseteq DOMAIN reqs
  BY DEF Send, TypesFit
<1>4. reqs'[k].answer = "none" /\ reqs'[k].told = "none"
  BY <1>2 DEF Asked
<1>5. \A n \in DOMAIN reqs' : n \in DOMAIN reqs \/ n = k
  BY <1>1, <1>2
<1>6. ASSUME NEW n \in DOMAIN reqs' PROVE Told(n)'
  <2>1. CASE n \in DOMAIN reqs
    BY <1>2, <1>3, <2>1 DEF AnswersFit, Told, SameMemory
  <2>2. CASE n = k
    BY <1>4, <2>2 DEF Told
  <2> QED BY <1>5, <2>1, <2>2
<1>7. ASSUME NEW m \in DOMAIN reqs', NEW n \in DOMAIN reqs' PROVE ReadFits(m, n)'
  <2>1. CASE m \in DOMAIN reqs /\ n \in DOMAIN reqs
    BY <1>2, <2>1 DEF AnswersFit, ReadFits
  <2>2. CASE n = k
    BY <1>4, <2>2 DEF ReadFits
  <2>3. CASE m = k
    <3>1. ~(m < n)
      BY <1>1, <1>2, <2>3
    <3> QED BY <3>1 DEF ReadFits
  <2> QED BY <1>5, <2>1, <2>2, <2>3
<1> QED BY <1>6, <1>7 DEF AnswersFit

\* What a call is told when it hears of request n or gives up.
Fair(n, outcome) ==
    \/ outcome = "error"
    \/ outcome = "done" /\ reqs[n].answer = "ok"
    \/ outcome = "nothing" /\ reqs[n].answer = "missing" /\ reqs[n].op \in {"read", "summary"}

LEMMA HearIsFair ==
  ASSUME NEW p \in Procs, NEW t \in Tasks[p], NEW n \in DOMAIN reqs,
         Hear(p, t, n) \/ GiveUp(p, t, n)
  PROVE  \E outcome \in Outcomes : Fair(n, outcome) /\ Tell(p, t, n, outcome)
BY DEF Hear, GiveUp, Fair, Outcome, Outcomes

LEMMA AnswersTell ==
  ASSUME TypesFit, RequestsFit, AnswersFit, NEW p \in Procs, NEW t \in Tasks[p],
         NEW n \in DOMAIN reqs, NEW outcome \in Outcomes, Fair(n, outcome), Tell(p, t, n, outcome)
  PROVE  AnswersFit'
<1>1. /\ DOMAIN reqs' = DOMAIN reqs
      /\ \A m \in DOMAIN reqs :
            /\ reqs'[m].run = reqs[m].run /\ reqs'[m].id = reqs[m].id
            /\ reqs'[m].url = reqs[m].url /\ reqs'[m].task = reqs[m].task
            /\ reqs'[m].op = reqs[m].op /\ reqs'[m].file = reqs[m].file
            /\ reqs'[m].answer = reqs[m].answer
            /\ reqs'[m].told = IF m = n THEN outcome ELSE reqs[m].told
  BY TellChanges
<1>2. stored' = stored /\ stored \subseteq DOMAIN reqs /\ reqs[n].told = "none"
  BY DEF Tell, TypesFit
<1>3. ASSUME NEW m \in DOMAIN reqs PROVE Told(m)'
  <2>1. Told(m)
    BY DEF AnswersFit
  <2>2. \A l \in stored : SameMemory(l, m) => SameMemory(l, m)'
    BY <1>1, <1>2 DEF SameMemory
  <2> QED BY <1>1, <1>2, <2>1, <2>2 DEF Told, Fair
<1>4. ASSUME NEW m \in DOMAIN reqs, NEW j \in DOMAIN reqs PROVE ReadFits(m, j)'
  <2>1. ReadFits(m, j) /\ PairFits(m, j)
    BY DEF AnswersFit, RequestsFit
  <2>2. CASE m = n
    BY <1>1, <1>2, <2>1, <2>2 DEF ReadFits, PairFits
  <2>3. CASE m # n
    BY <1>1, <2>1, <2>3 DEF ReadFits
  <2> QED BY <2>2, <2>3
<1> QED BY <1>1, <1>3, <1>4 DEF AnswersFit

LEMMA AnswersServe ==
  ASSUME TypesFit, RequestsFit, AnswersFit, NEW n \in DOMAIN reqs, Serve(n)
  PROVE  AnswersFit'
<1>1. PICK answer \in {"ok", "missing", "denied", "failed"}, act \in BOOLEAN :
         /\ reqs'[n] = [reqs[n] EXCEPT !.answer = answer]
         /\ reqs[n].op \in Writes /\ answer = "ok" => act
         /\ reqs[n].op = "read" /\ answer = "missing" => ~(\E m \in stored : SameMemory(m, n))
         /\ stored' = IF act THEN {m \in stored : ~SameMemory(m, n)} \cup {n} ELSE stored
  BY ServeDoes
<1>2. /\ DOMAIN reqs' = DOMAIN reqs
      /\ \A m \in DOMAIN reqs :
            /\ reqs'[m].run = reqs[m].run /\ reqs'[m].id = reqs[m].id
            /\ reqs'[m].url = reqs[m].url /\ reqs'[m].task = reqs[m].task
            /\ reqs'[m].op = reqs[m].op /\ reqs'[m].file = reqs[m].file
            /\ reqs'[m].told = reqs[m].told
            /\ m # n => reqs'[m].answer = reqs[m].answer
  BY ServeChanges
<1>3. reqs[n].answer = "none" /\ stored \subseteq DOMAIN reqs
  BY DEF Serve, TypesFit
<1>4. reqs'[n].answer = answer
  BY Zenon, <1>1, ReqTyped DEF Requested
<1>5. \A l, m \in DOMAIN reqs : SameMemory(l, m)' <=> SameMemory(l, m)
  BY <1>2 DEF SameMemory
<1>6. ASSUME NEW j \in DOMAIN reqs, NEW m \in stored, SameMemory(m, j)
      PROVE  \E l \in stored' : SameMemory(l, j)'
  <2>1. CASE act /\ SameMemory(m, n)
    <3>1. n \in stored' /\ SameMemory(n, j)
      BY <1>1, <1>6, <2>1 DEF SameMemory
    <3> QED BY <1>5, <3>1
  <2>2. CASE ~(act /\ SameMemory(m, n))
    <3>1. m \in stored'
      BY <1>1, <2>2
    <3>2. m \in DOMAIN reqs
      BY <1>3
    <3> QED BY <1>5, <1>6, <3>1, <3>2
  <2> QED BY <2>1, <2>2
<1>7. ASSUME NEW j \in DOMAIN reqs PROVE Told(j)'
  <2>1. Told(j)
    BY DEF AnswersFit
  <2>2. CASE j = n
    <3>1. reqs[n].told # "done" /\ reqs[n].told # "nothing"
      BY <1>3, <2>1, <2>2 DEF Told
    <3>2. reqs[n].op \in Writes /\ answer = "ok" => n \in stored' /\ SameMemory(n, n)'
      BY <1>1 DEF SameMemory
    <3> QED BY <1>2, <1>4, <2>2, <3>1, <3>2 DEF Told
  <2>3. CASE j # n
    <3>1. reqs[j].op \in Writes /\ reqs[j].answer = "ok" => \E l \in stored' : SameMemory(l, j)'
      BY <1>6, <2>1 DEF Told
    <3> QED BY <1>2, <2>1, <2>3, <3>1 DEF Told
  <2> QED BY <2>2, <2>3
<1>8. ASSUME NEW m \in DOMAIN reqs, NEW j \in DOMAIN reqs PROVE ReadFits(m, j)'
  <2>1. ReadFits(m, j) /\ PairFits(m, j) /\ Told(m)
    BY DEF AnswersFit, RequestsFit
  <2>2. CASE j = n
    <3> SUFFICES ASSUME m < n, reqs[m].run = reqs[n].run, reqs[m].op \in Writes,
                        reqs[m].told = "done", reqs[n].op = "read", reqs[n].file = reqs[m].file,
                        answer = "missing"
                 PROVE  FALSE
      BY <1>2, <1>4, <2>2 DEF ReadFits
    <3>1. SameMemory(m, n)
      BY <2>1, <2>2 DEF PairFits, SameMemory
    <3>2. PICK l \in stored : SameMemory(l, m)
      BY <2>1 DEF Told
    <3>3. SameMemory(l, n)
      BY <3>1, <3>2 DEF SameMemory
    <3> QED BY <1>1, <3>3
  <2>3. CASE j # n
    BY <1>2, <2>1, <2>3 DEF ReadFits
  <2> QED BY <2>2, <2>3
<1> QED BY <1>2, <1>7, <1>8 DEF AnswersFit
-----------------------------------------------------------------------------
(* Uploads: UploadsFit.                                                     *)

\* A request that was answered well stays so.
OkKept ==
    \A n \in DOMAIN reqs : reqs[n].answer = "ok" =>
        /\ n \in DOMAIN reqs' /\ reqs'[n].run = reqs[n].run
        /\ reqs'[n].file = reqs[n].file /\ reqs'[n].answer = "ok"

SameList(p) ==
    /\ proc'[p].run = proc[p].run
    /\ proc'[p].stage = "done" => proc[p].stage = "done" \/ AllTold(p, First)
    /\ task'[p][First].items = task[p][First].items /\ task'[p][First].told = task[p][First].told

LEMMA ListKept ==
  ASSUME TypesFit, SlotsFit, RunsKept, OkKept, NEW p \in Procs, UploadFits(p), SameList(p)
  PROVE  UploadFits(p)'
<1> SUFFICES ASSUME proc'[p].run > 0, Kind(p)' = "upload" PROVE UploadFits(p)'
  BY DEF UploadFits
<1>1. proc[p].run > 0 /\ Kind(p) = "upload"
  BY SameStart DEF SameList
<1> USE DEF SameList
<1>2. task'[p][First].items \in Seq(Uploads)
  BY <1>1 DEF UploadFits
<1>3. proc'[p].stage = "done" => Len(task'[p][First].told) = Len(task'[p][First].items)
  BY <1>1 DEF UploadFits, AllTold
<1>4. ASSUME NEW i \in DOMAIN task[p][First].told
      PROVE  \/ task[p][First].told[i] = "error"
             \/ \E n \in DOMAIN reqs' : /\ reqs'[n].run = proc[p].run /\ reqs'[n].answer = "ok"
                                        /\ reqs'[n].file = task[p][First].items[i].file
  <2>1. \/ task[p][First].told[i] = "error"
        \/ \E n \in DOMAIN reqs : /\ reqs[n].run = proc[p].run /\ reqs[n].answer = "ok"
                                  /\ reqs[n].file = task[p][First].items[i].file
    BY <1>1 DEF UploadFits
  <2> QED BY <2>1 DEF OkKept
<1> QED BY <1>2, <1>3, <1>4 DEF UploadFits

LEMMA OthersLists ==
  ASSUME TypesFit, SlotsFit, RunsKept, OkKept, UploadsFit, NEW p \in Procs, OnlySlot(p),
         UploadFits(p)'
  PROVE  UploadsFit'
<1>1. ASSUME NEW q \in Procs, q # p PROVE UploadFits(q)'
  <2>1. UploadFits(q) /\ First \in Tasks[q]
    BY ConstantsTyped DEF UploadsFit
  <2>2. SameList(q)
    BY <1>1, <2>1 DEF SameList, OnlySlot, OnlyProc
  <2> QED BY <2>1, <2>2, ListKept
<1> QED BY <1>1 DEF UploadsFit

\* One more outcome, which is an error or a request that was answered well.
LEMMA ListGrows ==
  ASSUME TypesFit, SlotsFit, UploadsFit, OkKept, NEW p \in Procs, NEW t \in Tasks[p],
         NEW outcome \in Outcomes, UNCHANGED <<runs, proc>>, OnlyCall(p, t),
         task'[p][t] = After(p, t, outcome), task[p][t].stage # "idle",
         Kind(p) = "upload" => \/ outcome = "error"
                               \/ \E n \in DOMAIN reqs : /\ reqs[n].run = proc[p].run
                                                         /\ reqs[n].answer = "ok"
                                                         /\ reqs[n].file = Item(p, t).file
  PROVE  UploadFits(p)'
<1> SUFFICES ASSUME proc[p].run > 0, Kind(p) = "upload" PROVE UploadFits(p)'
  BY DEF UploadFits, Kind
<1>1. UploadFits(p) /\ t = First /\ proc[p].stage = "up"
  BY DEF UploadsFit, SlotsFit, CallFits
<1>2. /\ task'[p][First].items = task[p][First].items
      /\ Len(task'[p][First].told) = Len(task[p][First].told) + 1
      /\ \A i \in 1..Len(task[p][First].told) : task'[p][First].told[i] = task[p][First].told[i]
      /\ task'[p][First].told[Len(task[p][First].told) + 1] = outcome
      /\ task[p][First].told \in Seq(Outcomes) /\ task'[p][First].told \in Seq(Outcomes)
  BY <1>1, AfterDoes
<1>3. /\ DOMAIN task[p][First].told = 1..Len(task[p][First].told)
      /\ DOMAIN task'[p][First].told = 1..(Len(task[p][First].told) + 1)
      /\ Len(task[p][First].told) \in Nat
  BY <1>2, LenProperties
<1>4. ASSUME NEW i \in DOMAIN task'[p][First].told
      PROVE  \/ task'[p][First].told[i] = "error"
             \/ \E n \in DOMAIN reqs' : /\ reqs'[n].run = proc[p].run /\ reqs'[n].answer = "ok"
                                        /\ reqs'[n].file = task[p][First].items[i].file
  <2>1. CASE i \in DOMAIN task[p][First].told
    <3>1. \/ task[p][First].told[i] = "error"
          \/ \E n \in DOMAIN reqs : /\ reqs[n].run = proc[p].run /\ reqs[n].answer = "ok"
                                    /\ reqs[n].file = task[p][First].items[i].file
      BY <1>1, <2>1 DEF UploadFits
    <3>2. task'[p][First].told[i] = task[p][First].told[i]
      BY <1>2, <1>3, <2>1
    <3> QED BY <3>1, <3>2 DEF OkKept
  <2>2. CASE i \notin DOMAIN task[p][First].told
    <3>1. i = Len(task[p][First].told) + 1
      BY <1>3, <2>2
    <3>2. task'[p][First].told[i] = outcome /\ Item(p, t) = task[p][First].items[i]
      BY <1>1, <1>2, <3>1 DEF Item
    <3> QED BY <3>2 DEF OkKept
  <2> QED BY <2>1, <2>2
<1> QED BY <1>1, <1>2, <1>4 DEF UploadFits

LEMMA UploadsProc ==
  ASSUME TypesFit, SlotsFit, UploadsFit, NEW p \in Procs,
         Start(p) \/ Kill(p) \/ Load(p) \/ SaveTruncates(p) \/ SaveWrites(p) \/ Return(p)
  PROVE  UploadsFit'
<1>1. First \in Tasks[p] /\ UploadFits(p) /\ proc[p] \in Processes /\ task[p][First] \in Calls
  BY ConstantsTyped DEF UploadsFit, TypesFit
<1>2. CASE Start(p) \/ Kill(p)
  <2>1. OnlySlot(p) /\ reqs' = reqs /\ task'[p][First] = NoCall
    BY <1>1, <1>2, StartDoes, KillDoes DEF OnlySlot
  <2>2. RunsKept
    <3>1. CASE Start(p)
      <4>1. PICK x \in Launches : runs' = Append(runs, x)
        BY <3>1, StartDoes
      <4> QED BY <4>1, AppendProperties, LenProperties DEF RunsKept, TypesFit
    <3>2. CASE Kill(p)
      BY <3>2, SlotTyped, KillDoes DEF RunsKept
    <3> QED BY <1>2, <3>1, <3>2
  <2>3. OkKept
    BY <2>1 DEF OkKept
  <2>4. proc'[p].stage \in {"starting", "off"}
    <3>1. \/ proc'[p] = [Off EXCEPT !.run = Len(runs) + 1, !.stage = "starting"]
          \/ proc'[p] = Off
      BY <1>2, StartDoes, KillDoes
    <3>2. ASSUME proc'[p] = [Off EXCEPT !.run = Len(runs) + 1, !.stage = "starting"]
          PROVE  proc'[p].stage = "starting"
      BY <3>2 DEF Off
    <3>3. ASSUME proc'[p] = Off PROVE proc'[p].stage = "off"
      BY <3>3 DEF Off
    <3> QED BY <3>1, <3>2, <3>3
  <2>5. task'[p][First].items \in Seq(Uploads) /\ DOMAIN task'[p][First].told = {}
    BY <2>1 DEF NoCall
  <2>6. UploadFits(p)'
    BY <2>4, <2>5 DEF UploadFits
  <2> QED BY <2>1, <2>2, <2>3, <2>6, OthersLists
<1>3. CASE Load(p) \/ SaveTruncates(p) \/ SaveWrites(p) \/ Return(p)
  <2>1. /\ OnlySlot(p) /\ UNCHANGED <<reqs, runs>> /\ proc'[p].run = proc[p].run
        /\ RunsKept /\ OkKept /\ Kind(p)' = Kind(p)
    <3>1. Quiet(p)
      BY <1>3, QuietSteps
    <3> QED BY <3>1, SlotTyped DEF Quiet, RunsKept, OkKept, Kind
  <2>2. CASE Load(p)
    <3>1. task[p][First] = NoCall /\ proc[p].stage = "starting"
      BY Zenon, <1>1, <2>2, LoadDoes DEF SlotsFit, CallFits
    <3>2. CASE task' = task
      <4>1. proc'[p].stage = "done" => Kind(p) = "check"
        BY Zenon, <2>2, LoadDoes
      <4>2. Kind(p) = "upload" => SameList(p)
        BY <2>1, <3>2, <4>1 DEF SameList
      <4>3. UploadFits(p)'
        <5>1. CASE Kind(p) = "upload"
          BY <1>1, <2>1, <4>2, <5>1, ListKept
        <5>2. CASE Kind(p) # "upload"
          BY <2>1, <5>2 DEF UploadFits
        <5> QED BY <5>1, <5>2
      <4> QED BY <2>1, <4>3, OthersLists
    <3>3. CASE task' # task
      <4>1. PICK items \in Lists(Kind(p)) :
               task'[p][First] = [NoCall EXCEPT !.stage = "asked", !.items = items]
        BY Zenon, <2>2, <3>3, LoadDoes
      <4>2. proc'[p].stage = "up"
        BY Zenon, <2>2, <3>3, LoadDoes
      <4>3. task'[p][First].items = items /\ DOMAIN task'[p][First].told = {}
        BY <4>1 DEF NoCall
      <4>4. Kind(p) = "upload" => items \in Seq(Uploads)
        BY <4>1, ToolsAssumption DEF Lists, Uploads
      <4>5. UploadFits(p)'
        BY <2>1, <4>2, <4>3, <4>4 DEF UploadFits
      <4> QED BY <2>1, <4>5, OthersLists
    <3> QED BY <3>2, <3>3
  <2>3. CASE SaveTruncates(p) \/ SaveWrites(p)
    <3>1. Kind(p) = "config"
      <4>1. SaveTruncates(p) => Kind(p) = "config"
        BY Zenon DEF SaveTruncates
      <4>2. SaveWrites(p) => Kind(p) = "config"
        BY DEF SaveWrites, SlotsFit, ProcFits
      <4> QED BY <2>3, <4>1, <4>2
    <3>2. UploadFits(p)'
      BY <2>1, <3>1 DEF UploadFits
    <3> QED BY <2>1, <3>2, OthersLists
  <2>4. CASE Return(p)
    <3>1. /\ task'[p][First] = [task[p][First] EXCEPT !.stage = "idle"] /\ AllTold(p, First)
      BY <2>4, ReturnDoes
    <3>2. /\ task'[p][First].items = task[p][First].items
          /\ task'[p][First].told = task[p][First].told
      BY <1>1, <3>1 DEF Calls
    <3>3. SameList(p)
      BY <2>1, <3>1, <3>2 DEF SameList
    <3> QED BY <1>1, <2>1, <3>3, ListKept, OthersLists
  <2> QED BY <1>3, <2>2, <2>3, <2>4
<1> QED BY <1>2, <1>3

LEMMA UploadsCall ==
  ASSUME TypesFit, SlotsFit, UploadsFit, NEW p \in Procs, NEW t \in Tasks[p],
         Call(p, t) \/ Truncate(p, t) \/ Unreadable(p, t) \/ Resolve(p, t) \/ Fill(p, t)
           \/ ResolveFails(p, t)
  PROVE  UploadsFit'
<1>1. First \in Tasks[p] /\ UploadFits(p) /\ proc[p] \in Processes /\ task[p][t] \in Calls
  BY ConstantsTyped DEF UploadsFit, TypesFit
<1>2. /\ OnlySlot(p) /\ UNCHANGED <<reqs, runs>> /\ proc'[p].run = proc[p].run
      /\ RunsKept /\ OkKept /\ Kind(p)' = Kind(p)
  <2>1. Quiet(p)
    BY QuietSteps
  <2> QED BY <2>1, SlotTyped DEF Quiet, RunsKept, OkKept, Kind
<1>3. CASE Call(p, t)
  <2>1. Kind(p) = "mcp"
    BY Zenon, <1>3 DEF Call
  <2>2. UploadFits(p)'
    BY <1>2, <2>1 DEF UploadFits
  <2> QED BY <1>2, <2>2, OthersLists
<1>4. CASE Truncate(p, t) \/ Resolve(p, t) \/ Fill(p, t)
  <2>1. proc[p].stage = "up"
    BY <1>4 DEF Truncate, Resolve, Fill, SlotsFit, CallFits
  <2>2. OnlyCall(p, t)
    BY Zenon, <1>4, <2>1, TruncateDoes, ResolveDoes, FillDoes
  <2>3. /\ task'[p][t].items = task[p][t].items /\ task'[p][t].told = task[p][t].told
        /\ proc'[p].stage = "up"
    <3>1. CASE Truncate(p, t)
      <4>1. task'[p][t] = [task[p][t] EXCEPT !.stage = "cut"] /\ proc' = proc
        BY <3>1, TruncateDoes
      <4> QED BY <1>1, <2>1, <4>1 DEF Calls
    <3>2. CASE Resolve(p, t)
      <4>1. PICK unread \in BOOLEAN : Resolves(p, t, unread)
        BY Zenon, <2>1, <3>2, ResolveDoes
      <4> QED BY <1>1, <2>1, <4>1 DEF Calls, Processes, Resolves
    <3>3. CASE Fill(p, t)
      <4>1. /\ proc'[p] = [proc[p] EXCEPT !.cell = task[p][t].made]
            /\ task'[p][t] = [task[p][t] EXCEPT !.stage = "ready", !.made = None]
        BY Zenon, <3>3, FillDoes
      <4> QED BY <1>1, <2>1, <4>1 DEF Calls, Processes
    <3> QED BY <1>4, <3>1, <3>2, <3>3
  <2>4. /\ task'[p][First].items = task[p][First].items
        /\ task'[p][First].told = task[p][First].told
    BY <1>1, <2>2, <2>3 DEF OnlyCall
  <2>5. SameList(p)
    BY <1>2, <2>3, <2>4 DEF SameList
  <2> QED BY SMTT(30), <1>1, <1>2, <2>5, ListKept, OthersLists
<1>5. CASE ResolveFails(p, t)
  <2>1. /\ task'[p][t] = NoCall /\ task[p][t].stage \in Writing
        /\ IF Kind(p) = "mcp" THEN proc' = proc ELSE proc'[p] = [proc[p] EXCEPT !.stage = "failed"]
    BY <1>5, ResolveFailsDoes
  <2>2. CASE Kind(p) = "upload"
    <3>1. t = First
      BY <2>1, <2>2 DEF SlotsFit, CallFits, Writing
    <3>2. proc'[p].stage = "failed"
      BY <1>1, <2>1, <2>2 DEF Processes
    <3>3. task'[p][First].items \in Seq(Uploads) /\ DOMAIN task'[p][First].told = {}
      <4>1. task'[p][First] = NoCall
        BY <2>1, <3>1
      <4> QED BY <4>1 DEF NoCall
    <3>4. UploadFits(p)'
      BY <3>2, <3>3 DEF UploadFits
    <3> QED BY <1>2, <3>4, OthersLists
  <2>3. CASE Kind(p) # "upload"
    <3>1. UploadFits(p)'
      BY <1>2, <2>3 DEF UploadFits
    <3> QED BY <1>2, <3>1, OthersLists
  <2> QED BY <2>2, <2>3
<1>6. CASE Unreadable(p, t)
  <2>1. /\ task[p][t].stage = "ready" /\ OnlyCall(p, t) /\ UNCHANGED <<runs, proc>>
        /\ task'[p][t] = After(p, t, "error")
    BY <1>6, UnreadableDoes
  <2>2. "error" \in Outcomes /\ task[p][t].stage # "idle"
    BY <2>1 DEF Outcomes
  <2>3. UploadFits(p)'
    BY <1>2, <2>1, <2>2, ListGrows
  <2> QED BY <1>2, <2>3, OthersLists
<1> QED BY <1>3, <1>4, <1>5, <1>6

LEMMA UploadsRequest ==
  ASSUME TypesFit, SlotsFit, UploadsFit, RequestsFit, NEW p \in Procs, NEW t \in Tasks[p],
         \/ Send(p, t)
         \/ \E n \in DOMAIN reqs : Hear(p, t, n) \/ GiveUp(p, t, n)
  PROVE  UploadsFit'
<1>1. First \in Tasks[p] /\ UploadFits(p) /\ task[p][t] \in Calls
  BY ConstantsTyped DEF UploadsFit, TypesFit
<1>2. CASE Send(p, t)
  <2>1. OnlyCall(p, t) /\ UNCHANGED <<runs, proc>>
        /\ task'[p][t] = [task[p][t] EXCEPT !.stage = "sent"]
    BY <1>2, SendDoes
  <2>2. OnlySlot(p) /\ RunsKept
    BY <2>1, SlotTyped DEF OnlySlot, OnlyCall, OnlyProc, RunsKept
  <2>3. OkKept
    <3>1. DOMAIN reqs \subseteq DOMAIN reqs' /\ \A n \in DOMAIN reqs : reqs'[n] = reqs[n]
      <4>1. /\ DOMAIN reqs = 1..Len(reqs) /\ Len(reqs) \in Nat
            /\ DOMAIN reqs' = 1..(Len(reqs) + 1)
            /\ \A n \in DOMAIN reqs : reqs'[n] = reqs[n]
        BY <1>2, SendDoes
      <4> QED BY <4>1
    <3> QED BY <3>1 DEF OkKept
  <2>4. /\ task'[p][t].items = task[p][t].items /\ task'[p][t].told = task[p][t].told
    BY <1>1, <2>1 DEF Calls
  <2>5. SameList(p)
    BY <1>1, <2>1, <2>4 DEF SameList, OnlyCall
  <2> QED BY <1>1, <2>2, <2>3, <2>5, ListKept, OthersLists
<1>3. CASE \E n \in DOMAIN reqs : Hear(p, t, n) \/ GiveUp(p, t, n)
  <2>1. PICK n \in DOMAIN reqs : Hear(p, t, n) \/ GiveUp(p, t, n)
    BY <1>3
  <2>2. PICK outcome \in Outcomes : Fair(n, outcome) /\ Tell(p, t, n, outcome)
    BY <2>1, HearIsFair
  <2>3. OnlyCall(p, t)
    BY <2>2, TellDoes
  <2>4. /\ UNCHANGED <<runs, proc>> /\ task[p][t].stage = "sent"
        /\ reqs[n].run = proc[p].run /\ reqs[n].task = t /\ reqs[n].told = "none"
    BY <2>2 DEF Tell
  <2>5. task'[p][t] = After(p, t, outcome)
    BY <2>2 DEF Tell, TypesFit
  <2>6. OnlySlot(p) /\ RunsKept
    BY <2>3, <2>4, SlotTyped DEF OnlySlot, OnlyCall, OnlyProc, RunsKept
  <2>7. OkKept
    BY <2>2, TellChanges DEF OkKept
  <2>8. reqs[n].op = Item(p, t).op /\ reqs[n].file = Item(p, t).file
    BY <2>4 DEF RequestsFit, MakerFits
  <2>9. Kind(p) = "upload" => \/ outcome = "error"
                              \/ reqs[n].run = proc[p].run /\ reqs[n].answer = "ok"
                                   /\ reqs[n].file = Item(p, t).file
    <3> SUFFICES ASSUME Kind(p) = "upload", outcome # "error"
                 PROVE  reqs[n].answer = "ok"
      BY <2>4, <2>8
    <3>1. t = First /\ Len(task[p][t].told) < Len(task[p][t].items) /\ proc[p].stage = "up"
      BY <2>4 DEF SlotsFit, CallFits
    <3>2. proc[p].run > 0 /\ task[p][t].items \in Seq(Uploads)
      BY <1>1, <3>1 DEF SlotsFit, ProcFits, UploadFits
    <3>3. Len(task[p][t].told) \in Nat /\ Len(task[p][t].items) \in Nat
      BY <1>1, LenProperties DEF Calls
    <3>4. Len(task[p][t].told) + 1 \in 1..Len(task[p][t].items)
      BY <3>1, <3>3
    <3>5. Item(p, t) \in Uploads
      BY <3>2, <3>4, ElementOfSeq DEF Item
    <3>6. reqs[n].op = "upload"
      BY <2>8, <3>5 DEF Uploads
    <3> QED BY <2>2, <3>6 DEF Fair
  <2>10. UploadFits(p)'
    BY <2>3, <2>4, <2>5, <2>7, <2>9, ListGrows
  <2> QED BY <2>6, <2>7, <2>10, OthersLists
<1> QED BY <1>2, <1>3

LEMMA UploadsServe ==
  ASSUME TypesFit, SlotsFit, UploadsFit, NEW n \in DOMAIN reqs, Serve(n)
  PROVE  UploadsFit'
<1>1. UNCHANGED <<runs, proc, task>> /\ reqs[n].answer = "none"
  BY DEF Serve
<1>2. OkKept
  BY <1>1, ServeChanges DEF OkKept
<1>3. ASSUME NEW q \in Procs PROVE UploadFits(q)'
  <2>1. RunsKept
    BY <1>1, SlotTyped DEF RunsKept
  <2>2. UploadFits(q) /\ SameList(q)
    BY <1>1 DEF UploadsFit, SameList
  <2> QED BY <1>2, <2>1, <2>2, ListKept
<1> QED BY <1>3 DEF UploadsFit
-----------------------------------------------------------------------------
(* Identities: SlugsFit and IdsApart.                                       *)

\* A slot where no identity comes up but the one in the file, or the one given.
CalmSlot(q) ==
    \/ proc'[q].cell = None /\ \A u \in Tasks[q] : task'[q][u].stage \notin Writing
    \/ /\ proc'[q].run = proc[q].run
       /\ EnvOf(q).id # Given => proc'[q].cell \in {proc[q].cell, None, idFile[SlugOf(q)]}
       /\ \A u \in Tasks[q] : task'[q][u].stage \in Writing =>
             task[q][u].stage \in Writing /\ task'[q][u].made = task[q][u].made

SameReqs == \A n \in DOMAIN reqs' : /\ n \in DOMAIN reqs /\ reqs'[n].run = reqs[n].run
                                    /\ reqs'[n].id = reqs[n].id

Calm ==
    /\ RunsKept /\ SameReqs /\ remade \subseteq remade'
    /\ \A s \in Slugs : idFile'[s] = idFile[s] \/ (s \in remade /\ idFile'[s] = None)
    /\ \A q \in Procs : CalmSlot(q)

\* A request keeps what its process was started as.
LEMMA SameName ==
  ASSUME TypesFit, RequestsFit, RunsKept, NEW n \in DOMAIN reqs, reqs'[n].run = reqs[n].run
  PROVE  NameOf(n)' = NameOf(n) /\ Chosen(n)' = Chosen(n)
<1>1. reqs[n].run \in 1..Len(runs)
  BY DEF RequestsFit
<1>2. runs'[reqs'[n].run] = runs[reqs[n].run]
  BY <1>1 DEF RunsKept
<1> QED BY <1>2 DEF NameOf, Chosen

LEMMA WritingRuns ==
  ASSUME TypesFit, SlotsFit, NEW q \in Procs, NEW u \in Tasks[q], task[q][u].stage \in Writing
  PROVE  /\ proc[q].run > 0 /\ proc[q].stage = "up" /\ EnvOf(q).id # Given /\ proc[q].cell = None
         /\ task[q][u].made > 0
         /\ \A v \in Tasks[q] : task[q][v].stage \in Writing => v = u
<1>1. CallFits(q, u) /\ ProcFits(q) /\ task[q][u].stage # "idle"
  BY DEF SlotsFit, Writing
<1> QED BY <1>1 DEF CallFits, ProcFits

LEMMA CalmSlugs ==
  ASSUME TypesFit, SlotsFit, SlotsFit', TypesFit', RequestsFit, SlugsFit, Calm
  PROVE  SlugsFit'
<1> SUFFICES ASSUME NEW s \in Slugs, s \notin remade' PROVE SlugFits(s)'
  BY DEF SlugsFit, SlugFits
<1>1. SlugFits(s) /\ s \notin remade /\ idFile'[s] = idFile[s]
  BY DEF SlugsFit, Calm
<1>2. ASSUME NEW q \in Procs, NEW u \in Tasks[q], task'[q][u].stage \in Writing
      PROVE  /\ task[q][u].stage \in Writing /\ proc[q].run > 0
             /\ SlugOf(q)' = SlugOf(q) /\ EnvOf(q)' = EnvOf(q)
  <2>1. proc'[q].run > 0
    <3>1. CallFits(q, u)' /\ ProcFits(q)' /\ task'[q][u].stage # "idle"
      BY <1>2 DEF SlotsFit, Writing
    <3> QED BY <3>1 DEF CallFits, ProcFits
  <2>2. proc'[q].run = proc[q].run /\ task[q][u].stage \in Writing
    BY <1>2 DEF Calm, CalmSlot
  <2>3. RunsKept
    BY DEF Calm
  <2> QED BY <2>1, <2>2, <2>3, SameStart
<1>3. ASSUME NEW q \in Procs, proc'[q].run > 0, SlugOf(q)' = s, (EnvOf(q).id # Given)'
      PROVE  /\ proc'[q].cell \in {None, idFile[s]}
             /\ \A u \in Tasks[q] : task'[q][u].stage \in Writing =>
                   /\ idFile[s] = None
                   /\ \A r \in Procs : \A v \in Tasks[r] :
                         task'[r][v].stage \in Writing /\ SlugOf(r)' = s => r = q
  <2>1. proc'[q].cell # None => proc'[q].cell \in {None, idFile[s]}
    <3> SUFFICES ASSUME proc'[q].cell # None PROVE proc'[q].cell \in {None, idFile[s]}
      OBVIOUS
    <3>1. /\ proc'[q].run = proc[q].run /\ RunsKept
          /\ EnvOf(q).id # Given => proc'[q].cell \in {proc[q].cell, None, idFile[SlugOf(q)]}
      BY DEF Calm, CalmSlot
    <3>2. SlugOf(q)' = SlugOf(q) /\ EnvOf(q)' = EnvOf(q)
      BY <1>3, <3>1, SameStart
    <3> QED BY <1>1, <1>3, <3>1, <3>2 DEF SlugFits
  <2>2. ASSUME NEW u \in Tasks[q], task'[q][u].stage \in Writing
        PROVE  /\ idFile[s] = None
               /\ \A r \in Procs : \A v \in Tasks[r] :
                     task'[r][v].stage \in Writing /\ SlugOf(r)' = s => r = q
    <3>1. /\ task[q][u].stage \in Writing /\ proc[q].run > 0
          /\ SlugOf(q) = s /\ EnvOf(q).id # Given
      BY <1>2, <1>3, <2>2
    <3>2. /\ idFile[s] = None
          /\ \A r \in Procs : \A v \in Tasks[r] :
                task[r][v].stage \in Writing /\ SlugOf(r) = s => r = q
      BY <1>1, <3>1 DEF SlugFits
    <3> QED BY <1>2, <3>2
  <2> QED BY <2>1, <2>2
<1>4. ASSUME NEW n \in DOMAIN reqs', (SlugFor[NameOf(n)] = s)', ~Chosen(n)'
      PROVE  reqs'[n].id = idFile[s]
  <2>1. n \in DOMAIN reqs /\ reqs'[n].run = reqs[n].run /\ reqs'[n].id = reqs[n].id /\ RunsKept
    BY DEF Calm, SameReqs
  <2>2. NameOf(n)' = NameOf(n) /\ Chosen(n)' = Chosen(n)
    BY <2>1, SameName
  <2> QED BY <1>1, <1>4, <2>1, <2>2 DEF SlugFits
<1> QED BY <1>1, <1>3, <1>4 DEF SlugFits

LEMMA CalmIds ==
  ASSUME TypesFit, SlotsFit, SlotsFit', TypesFit', RequestsFit, IdsApart, Calm
  PROVE  IdsApart'
<1>1. ASSUME NEW s \in Slugs, NEW x, x # None, Owns(s, x)' PROVE Owns(s, x)
  <2>1. CASE x = idFile'[s]
    BY <1>1, <2>1 DEF Calm, Owns
  <2>2. CASE \E q \in Procs : /\ proc'[q].run > 0 /\ SlugOf(q)' = s /\ (EnvOf(q).id # Given)'
                              /\ x = proc'[q].cell
    <3>1. PICK q \in Procs : /\ proc'[q].run > 0 /\ SlugOf(q)' = s /\ (EnvOf(q).id # Given)'
                             /\ x = proc'[q].cell
      BY <2>2
    <3>2. /\ proc'[q].run = proc[q].run /\ RunsKept
          /\ EnvOf(q).id # Given => proc'[q].cell \in {proc[q].cell, None, idFile[SlugOf(q)]}
      BY <1>1, <3>1 DEF Calm, CalmSlot
    <3>3. SlugOf(q)' = SlugOf(q) /\ EnvOf(q)' = EnvOf(q)
      BY <3>1, <3>2, SameStart
    <3> QED BY <1>1, <3>1, <3>2, <3>3 DEF Owns
  <2>3. CASE \E q \in Procs : \E u \in Tasks[q] :
                /\ task'[q][u].stage \in Writing /\ SlugOf(q)' = s /\ x = task'[q][u].made
    <3>0. PICK q \in Procs : \E u \in Tasks[q] :
             /\ task'[q][u].stage \in Writing /\ SlugOf(q)' = s /\ x = task'[q][u].made
      BY <2>3
    <3>1. PICK u \in Tasks[q] :
             /\ task'[q][u].stage \in Writing /\ SlugOf(q)' = s /\ x = task'[q][u].made
      BY <3>0
    <3>2. proc'[q].run > 0
      <4>1. CallFits(q, u)' /\ ProcFits(q)' /\ task'[q][u].stage # "idle"
        BY <3>1 DEF SlotsFit, Writing
      <4> QED BY <4>1 DEF CallFits, ProcFits
    <3>3. /\ proc'[q].run = proc[q].run /\ RunsKept
          /\ task[q][u].stage \in Writing /\ task'[q][u].made = task[q][u].made
      BY <3>1 DEF Calm, CalmSlot
    <3>4. SlugOf(q)' = SlugOf(q)
      BY <3>2, <3>3, SameStart
    <3> QED BY <3>1, <3>3, <3>4 DEF Owns
  <2>4. CASE \E n \in DOMAIN reqs' : /\ (SlugFor[NameOf(n)] = s)' /\ ~Chosen(n)'
                                     /\ x = reqs'[n].id
    <3>1. PICK n \in DOMAIN reqs' : /\ (SlugFor[NameOf(n)] = s)' /\ ~Chosen(n)'
                                    /\ x = reqs'[n].id
      BY <2>4
    <3>2. n \in DOMAIN reqs /\ reqs'[n].run = reqs[n].run /\ reqs'[n].id = reqs[n].id /\ RunsKept
      BY DEF Calm, SameReqs
    <3>3. NameOf(n)' = NameOf(n) /\ Chosen(n)' = Chosen(n)
      BY <3>2, SameName
    <3> QED BY <3>1, <3>2, <3>3 DEF Owns
  <2> QED BY <1>1, <2>1, <2>2, <2>3, <2>4 DEF Owns
<1> QED BY <1>1 DEF IdsApart

LEMMA CalmOthers ==
  ASSUME TypesFit, NEW p \in Procs, OnlySlot(p), CalmSlot(p), RunsKept, SameReqs,
         remade \subseteq remade',
         \A s \in Slugs : idFile'[s] = idFile[s] \/ (s \in remade /\ idFile'[s] = None)
  PROVE  Calm
<1>1. ASSUME NEW q \in Procs, q # p PROVE CalmSlot(q)
  BY <1>1 DEF OnlySlot, OnlyProc, CalmSlot
<1> QED BY <1>1 DEF Calm

LEMMA CalmProc ==
  ASSUME TypesFit, SlotsFit, NEW p \in Procs,
         Start(p) \/ Kill(p) \/ Load(p) \/ SaveTruncates(p) \/ SaveWrites(p) \/ Return(p)
  PROVE  Calm
<1>1. First \in Tasks[p] /\ proc[p] \in Processes /\ task[p][First] \in Calls
  BY ConstantsTyped DEF TypesFit
<1>2. CASE Start(p) \/ Kill(p)
  <2>1. /\ OnlySlot(p) /\ UNCHANGED <<idFile, reqs, remade>>
        /\ \A u \in Tasks[p] : task'[p][u] = NoCall
    BY <1>2, StartDoes, KillDoes DEF OnlySlot
  <2>2. RunsKept
    <3>1. CASE Start(p)
      <4>1. PICK x \in Launches : runs' = Append(runs, x)
        BY <3>1, StartDoes
      <4> QED BY <4>1, AppendProperties, LenProperties DEF RunsKept, TypesFit
    <3>2. CASE Kill(p)
      BY <3>2, SlotTyped, KillDoes DEF RunsKept
    <3> QED BY <1>2, <3>1, <3>2
  <2>3. proc'[p].cell = None
    <3>1. \/ proc'[p] = [Off EXCEPT !.run = Len(runs) + 1, !.stage = "starting"]
          \/ proc'[p] = Off
      BY <1>2, StartDoes, KillDoes
    <3>2. ASSUME proc'[p] = [Off EXCEPT !.run = Len(runs) + 1, !.stage = "starting"]
          PROVE  proc'[p].cell = None
      BY <3>2 DEF Off
    <3>3. ASSUME proc'[p] = Off PROVE proc'[p].cell = None
      BY <3>3 DEF Off
    <3> QED BY <3>1, <3>2, <3>3
  <2>4. CalmSlot(p)
    BY <2>1, <2>3 DEF CalmSlot, NoCall, Writing
  <2>5. SameReqs
    BY <2>1 DEF SameReqs
  <2> QED BY <2>1, <2>2, <2>4, <2>5, CalmOthers
<1>3. CASE Load(p) \/ SaveTruncates(p) \/ SaveWrites(p) \/ Return(p)
  <2>1. Quiet(p)
    BY <1>3, QuietSteps
  <2>2. OnlySlot(p) /\ RunsKept /\ SameReqs /\ proc'[p].run = proc[p].run
    BY <2>1, SlotTyped DEF Quiet, RunsKept, SameReqs
  <2>3. UNCHANGED <<idFile, remade>>
    BY Zenon, <1>3 DEF Load, SaveTruncates, SaveWrites, Return
  <2>4. proc'[p].cell \in {proc[p].cell, None}
    <3>1. Load(p) => proc'[p].cell = None
      BY Zenon, LoadDoes
    <3>2. SaveTruncates(p) => proc'[p].cell = proc[p].cell
      BY SaveTruncatesDoes
    <3>3. SaveWrites(p) \/ Return(p) => proc'[p] = [proc[p] EXCEPT !.stage = "done"]
      BY SaveWritesDoes, ReturnDoes
    <3>4. proc'[p] = [proc[p] EXCEPT !.stage = "done"] => proc'[p].cell = proc[p].cell
      BY <1>1 DEF Processes
    <3> QED BY <1>3, <3>1, <3>2, <3>3, <3>4
  <2>5. \A u \in Tasks[p] : task'[p][u] = task[p][u] \/ task'[p][u].stage \notin Writing
    <3>1. CASE Load(p)
      <4>1. CASE task' = task
        BY <4>1
      <4>2. CASE task' # task
        <5>1. PICK items \in Lists(Kind(p)) :
                 task'[p][First] = [NoCall EXCEPT !.stage = "asked", !.items = items]
          BY Zenon, <3>1, <4>2, LoadDoes
        <5>2. task'[p][First].stage = "asked" /\ OnlyCall(p, First)
          BY Zenon, <3>1, <5>1, LoadDoes DEF NoCall
        <5> QED BY <5>2 DEF OnlyCall, Writing
      <4> QED BY <4>1, <4>2
    <3>2. CASE SaveTruncates(p) \/ SaveWrites(p)
      BY Zenon, <3>2 DEF SaveTruncates, SaveWrites
    <3>3. CASE Return(p)
      <4>1. task'[p][First] = [task[p][First] EXCEPT !.stage = "idle"] /\ OnlyCall(p, First)
        BY <3>3, ReturnDoes
      <4>2. task'[p][First].stage = "idle"
        BY <1>1, <4>1 DEF Calls
      <4> QED BY <4>1, <4>2 DEF OnlyCall, Writing
    <3> QED BY <1>3, <3>1, <3>2, <3>3
  <2>6. CalmSlot(p)
    BY <2>2, <2>4, <2>5 DEF CalmSlot
  <2> QED BY <2>2, <2>3, <2>6, CalmOthers
<1> QED BY <1>2, <1>3

LEMMA CalmCall ==
  ASSUME TypesFit, SlotsFit, SlugsFit, NEW p \in Procs, NEW t \in Tasks[p],
         Call(p, t) \/ Truncate(p, t) \/ Unreadable(p, t) \/ ResolveFails(p, t)
  PROVE  Calm
<1>1. proc[p] \in Processes /\ task[p][t] \in Calls
  BY DEF TypesFit
<1>2. Quiet(p)
  BY QuietSteps
<1>3. OnlySlot(p) /\ RunsKept /\ SameReqs /\ proc'[p].run = proc[p].run
  BY <1>2, SlotTyped DEF Quiet, RunsKept, SameReqs
<1>4. remade' = remade
  BY Zenon DEF Call, Truncate, Unreadable, ResolveFails
<1>5. OnlyCall(p, t)
  BY CallDoes, TruncateDoes, UnreadableDoes, ResolveFailsDoes
<1>6. proc'[p].cell = proc[p].cell
  <2>1. Call(p, t) \/ Truncate(p, t) \/ Unreadable(p, t) => proc' = proc
    BY Zenon DEF Call, Truncate, Unreadable
  <2>2. ResolveFails(p, t) => proc' = proc \/ proc'[p] = [proc[p] EXCEPT !.stage = "failed"]
    BY ResolveFailsDoes
  <2> QED BY <1>1, <2>1, <2>2 DEF Processes
<1>7. \/ task'[p][t].stage \notin Writing
      \/ task[p][t].stage \in Writing /\ task'[p][t].made = task[p][t].made
  <2>1. CASE Call(p, t)
    <3>1. PICK item \in Items : task'[p][t] = NewCall(item)
      BY <2>1, CallDoes
    <3> QED BY <3>1 DEF NewCall, NoCall, Writing
  <2>2. CASE Truncate(p, t)
    <3>1. task'[p][t] = [task[p][t] EXCEPT !.stage = "cut"] /\ task[p][t].stage = "made"
      BY <2>2, TruncateDoes
    <3> QED BY <1>1, <3>1 DEF Calls, Writing
  <2>3. CASE Unreadable(p, t)
    <3>1. task'[p][t] = After(p, t, "error") /\ "error" \in Outcomes
      BY <2>3, UnreadableDoes DEF Outcomes
    <3>2. After(p, t, "error") = NoCall \/ After(p, t, "error").stage = "ready"
      BY <3>1, AfterDoes
    <3> QED BY <3>1, <3>2 DEF NoCall, Writing
  <2>4. CASE ResolveFails(p, t)
    <3>1. task'[p][t] = NoCall
      BY <2>4, ResolveFailsDoes
    <3> QED BY <3>1 DEF NoCall, Writing
  <2> QED BY <2>1, <2>2, <2>3, <2>4
<1>8. CalmSlot(p)
  BY <1>3, <1>5, <1>6, <1>7 DEF CalmSlot, OnlyCall
<1>9. \A s \in Slugs : idFile'[s] = idFile[s] \/ (s \in remade /\ idFile'[s] = None)
  <2>1. CASE Truncate(p, t)
    <3>1. idFile' = [idFile EXCEPT ![SlugOf(p)] = None] /\ task[p][t].stage \in Writing
      BY <2>1, TruncateDoes DEF Writing
    <3>2. proc[p].run > 0 /\ EnvOf(p).id # Given
      BY <3>1, WritingRuns
    <3>3. ASSUME NEW s \in Slugs, s = SlugOf(p), s \notin remade PROVE idFile[s] = None
      BY <3>1, <3>2, <3>3 DEF SlugsFit, SlugFits
    <3> QED BY <3>1, <3>3 DEF TypesFit
  <2>2. CASE ~Truncate(p, t)
    BY Zenon, <2>2 DEF Call, Unreadable, ResolveFails
  <2> QED BY <2>1, <2>2
<1> QED BY <1>3, <1>4, <1>8, <1>9, CalmOthers

LEMMA CalmTell ==
  ASSUME TypesFit, SlotsFit, NEW p \in Procs, NEW t \in Tasks[p], NEW n \in DOMAIN reqs,
         NEW outcome \in Outcomes, Tell(p, t, n, outcome)
  PROVE  Calm
<1>1. OnlyCall(p, t)
  BY TellDoes
<1>2. UNCHANGED <<idFile, runs, proc, remade>>
  BY DEF Tell
<1>3. OnlySlot(p) /\ RunsKept
  BY <1>1, <1>2, SlotTyped DEF OnlySlot, OnlyCall, OnlyProc, RunsKept
<1>4. SameReqs
  BY TellChanges DEF SameReqs
<1>5. task'[p][t].stage \notin Writing
  <2>1. task'[p][t] = After(p, t, outcome)
    BY DEF Tell, TypesFit
  <2>2. After(p, t, outcome) = NoCall \/ After(p, t, outcome).stage = "ready"
    BY AfterDoes
  <2> QED BY <2>1, <2>2 DEF NoCall, Writing
<1>6. CalmSlot(p)
  BY <1>1, <1>2, <1>5 DEF CalmSlot, OnlyCall
<1> QED BY <1>2, <1>3, <1>4, <1>6, CalmOthers

LEMMA CalmServe ==
  ASSUME TypesFit, NEW n \in DOMAIN reqs, Serve(n)
  PROVE  Calm
<1>1. UNCHANGED <<idFile, runs, proc, task, remade>>
  BY DEF Serve
<1>2. SameReqs
  BY ServeChanges DEF SameReqs
<1>3. RunsKept
  BY <1>1, LenProperties DEF RunsKept, TypesFit
<1> QED BY <1>1, <1>2, <1>3 DEF Calm, CalmSlot

LEMMA SlugTyped ==
  ASSUME TypesFit, SlotsFit, NEW p \in Procs, proc[p].stage # "off"
  PROVE  SlugOf(p) \in Slugs /\ idFile[SlugOf(p)] \in Nat
<1>1. runs[proc[p].run] \in Launches
  BY SlotTyped
<1>2. SlugOf(p) \in Slugs
  BY <1>1 DEF SlugOf, Slugs, Launches
<1> QED BY <1>2 DEF TypesFit

\* The id is known: it comes from the process, its environment or its file.
LEMMA CalmResolve ==
  ASSUME TypesFit, SlotsFit, NEW p \in Procs, NEW t \in Tasks[p], Resolve(p, t),
         proc[p].stage = "up", NEW unread \in BOOLEAN, Resolves(p, t, unread),
         Known(p, unread) # None
  PROVE  Calm
<1>1. /\ task[p][t] \in Calls /\ proc[p] \in Processes /\ OnlyProc(p) /\ OnlyCall(p, t)
      /\ proc'[p] = [proc[p] EXCEPT !.cell = Known(p, unread)] /\ remade \subseteq remade'
      /\ UNCHANGED <<idFile, runs, reqs>>
  BY Zenon, ResolveDoes DEF Resolves
<1>2. task'[p][t] = [task[p][t] EXCEPT !.stage = "ready", !.made = None]
  BY Zenon DEF Resolves
<1>3. task'[p][t].stage \notin Writing
  BY <1>1, <1>2 DEF Calls, Writing
<1>4. proc'[p].run = proc[p].run /\ proc'[p].cell = Known(p, unread)
  BY <1>1 DEF Processes
<1>5. EnvOf(p).id # Given => Known(p, unread) \in {proc[p].cell, idFile[SlugOf(p)]}
  BY DEF Known, Found
<1>6. \A u \in Tasks[p] : task'[p][u].stage \in Writing => task'[p][u] = task[p][u]
  BY <1>1, <1>3 DEF OnlyCall
<1>7. CalmSlot(p)
  BY <1>4, <1>5, <1>6 DEF CalmSlot
<1>8. OnlySlot(p) /\ RunsKept /\ SameReqs
  BY <1>1, SlotTyped DEF OnlySlot, OnlyCall, RunsKept, SameReqs
<1> QED BY <1>1, <1>7, <1>8, CalmOthers

LEMMA OwnsUsed ==
  ASSUME TypesFit, NEW s \in Slugs, NEW x, Owns(s, x)
  PROVE  x \in Used
<1>1. CASE \E p \in Procs : \E t \in Tasks[p] : x = task[p][t].made
  <2>0. PICK p \in Procs : \E t \in Tasks[p] : x = task[p][t].made
    BY <1>1
  <2>1. PICK t \in Tasks[p] : x = task[p][t].made
    BY <2>0
  <2> DEFINE th == <<p, t>>
  <2>2. th \in Threads
    BY DEF Threads
  <2>3. x = task[th[1]][th[2]].made
    BY <2>1
  <2> HIDE DEF th
  <2> QED BY <2>2, <2>3 DEF Used
<1> QED BY SMTT(30), <1>1 DEF Owns, Used

\* An identity is made: the process writes it into a file that gave none.  One that holds
\* an id, and could not be read, is remembered.
Made(p, t) ==
    /\ UNCHANGED <<idFile, runs, reqs>> /\ OnlyCall(p, t) /\ remade \subseteq remade'
    /\ \A q \in Procs : proc'[q].run = proc[q].run /\ proc'[q].cell = proc[q].cell
    /\ task'[p][t].stage = "made" /\ task'[p][t].made = Fresh
    /\ idFile[SlugOf(p)] = None \/ SlugOf(p) \in remade'
    /\ \A u \in Tasks[p] : task[p][u].stage \notin Writing
    /\ \A q \in Procs : \A u \in Tasks[q] :
          /\ q # p /\ task[q][u].stage \in Writing /\ SlugOf(q) = SlugOf(p)
          => SlugOf(p) \in remade'

LEMMA ResolveMade ==
  ASSUME TypesFit, SlotsFit, NEW p \in Procs, NEW t \in Tasks[p], Resolve(p, t),
         proc[p].stage = "up", NEW unread \in BOOLEAN, Resolves(p, t, unread),
         Known(p, unread) = None
  PROVE  Made(p, t)
<1>1. /\ task[p][t] \in Calls /\ proc[p] \in Processes /\ OnlyProc(p) /\ OnlyCall(p, t)
      /\ proc'[p] = [proc[p] EXCEPT !.cell = Known(p, unread)] /\ remade \subseteq remade'
      /\ \A u \in Tasks[p] : task[p][u].stage \notin Writing
      /\ UNCHANGED <<idFile, runs, reqs>>
  BY Zenon, ResolveDoes DEF Resolves
<1>2. task'[p][t] = [task[p][t] EXCEPT !.stage = "made", !.made = Fresh]
  BY Zenon DEF Resolves
<1>3. task'[p][t].stage = "made" /\ task'[p][t].made = Fresh
  BY <1>1, <1>2 DEF Calls
<1>4. proc[p].cell = None /\ EnvOf(p).id # Given
      /\ (idFile[SlugOf(p)] = None \/ SlugOf(p) \in remade')
  BY DEF Known, Found, None, Given, Resolves
<1>5. proc'[p].run = proc[p].run /\ proc'[p].cell = proc[p].cell
  BY <1>1, <1>4 DEF Processes
<1>6. \A q \in Procs : proc'[q].run = proc[q].run /\ proc'[q].cell = proc[q].cell
  BY <1>1, <1>5 DEF OnlyProc
<1>7. \A q \in Procs : \A u \in Tasks[q] :
         /\ q # p /\ task[q][u].stage \in Writing /\ SlugOf(q) = SlugOf(p)
         => SlugOf(p) \in remade'
  BY Zenon, <1>4, ResolveDoes
<1> QED BY <1>1, <1>3, <1>4, <1>6, <1>7 DEF Made

LEMMA MadeKeeps ==
  ASSUME TypesFit, SlotsFit, SlugsFit, IdsApart, NEW p \in Procs, NEW t \in Tasks[p],
         Made(p, t), proc[p].stage = "up"
  PROVE  SlugsFit' /\ IdsApart'
<1>1. ASSUME NEW q \in Procs PROVE SlugOf(q)' = SlugOf(q) /\ EnvOf(q)' = EnvOf(q)
  BY DEF Made, SlugOf, EnvOf
<1>2. ASSUME NEW n \in DOMAIN reqs PROVE NameOf(n)' = NameOf(n) /\ Chosen(n)' = Chosen(n)
  BY DEF Made, NameOf, Chosen
<1>3. ASSUME NEW q \in Procs, NEW u \in Tasks[q], task'[q][u].stage \in Writing
      PROVE  \/ q = p /\ u = t
             \/ q # p /\ task[q][u].stage \in Writing /\ task'[q][u] = task[q][u]
  BY <1>3 DEF Made, OnlyCall
<1>4. SlugsFit'
  <2> SUFFICES ASSUME NEW s \in Slugs, s \notin remade' PROVE SlugFits(s)'
    BY DEF SlugsFit, SlugFits
  <2>1. SlugFits(s) /\ s \notin remade /\ idFile' = idFile /\ reqs' = reqs
    BY DEF SlugsFit, Made
  <2>2. ASSUME NEW q \in Procs, proc[q].run > 0, SlugOf(q) = s, EnvOf(q).id # Given
        PROVE  /\ proc'[q].cell \in {None, idFile[s]}
               /\ \A u \in Tasks[q] : task'[q][u].stage \in Writing =>
                     /\ idFile[s] = None
                     /\ \A r \in Procs : \A v \in Tasks[r] :
                           task'[r][v].stage \in Writing /\ SlugOf(r) = s => r = q
    <3>1. proc'[q].cell \in {None, idFile[s]}
      BY <2>1, <2>2 DEF SlugFits, Made
    <3>2. ASSUME NEW u \in Tasks[q], task'[q][u].stage \in Writing
          PROVE  /\ idFile[s] = None
                 /\ \A r \in Procs : \A v \in Tasks[r] :
                       task'[r][v].stage \in Writing /\ SlugOf(r) = s => r = q
      <4>1. CASE q = p
        <5>1. idFile[s] = None
          BY <2>2, <4>1 DEF Made
        <5>2. ASSUME NEW r \in Procs, NEW v \in Tasks[r], task'[r][v].stage \in Writing,
                     SlugOf(r) = s, r # p
              PROVE  FALSE
          <6>1. task[r][v].stage \in Writing
            BY <1>3, <5>2
          <6> QED BY <2>2, <4>1, <5>2, <6>1 DEF Made
        <5> QED BY <4>1, <5>1, <5>2
      <4>2. CASE q # p
        <5>1. task[q][u].stage \in Writing
          BY <1>3, <3>2, <4>2
        <5>2. /\ idFile[s] = None
              /\ \A r \in Procs : \A v \in Tasks[r] :
                    task[r][v].stage \in Writing /\ SlugOf(r) = s => r = q
          BY <2>1, <2>2, <5>1 DEF SlugFits
        <5>3. SlugOf(p) # s
          BY <2>2, <4>2, <5>1 DEF Made
        <5> QED BY <1>3, <5>2, <5>3
      <4> QED BY <4>1, <4>2
    <3> QED BY <3>1, <3>2
  <2>3. ASSUME NEW n \in DOMAIN reqs, SlugFor[NameOf(n)] = s, ~Chosen(n)
        PROVE  reqs[n].id = idFile[s]
    BY <2>1, <2>3 DEF SlugFits
  <2>4. \A q \in Procs : proc'[q].run = proc[q].run
    BY DEF Made
  <2> QED BY <1>1, <1>2, <2>1, <2>2, <2>3, <2>4 DEF SlugFits
<1>5. ASSUME NEW s \in Slugs, NEW x, x # None, Owns(s, x)'
      PROVE  Owns(s, x) \/ (x = Fresh /\ s = SlugOf(p))
  <2>1. CASE x = idFile'[s]
    <3>1. Owns(s, x)
      BY <2>1 DEF Made, Owns
    <3> QED BY <3>1
  <2>2. CASE \E q \in Procs : /\ proc'[q].run > 0 /\ SlugOf(q)' = s /\ (EnvOf(q).id # Given)'
                              /\ x = proc'[q].cell
    <3>1. PICK q \in Procs : /\ proc'[q].run > 0 /\ SlugOf(q)' = s /\ (EnvOf(q).id # Given)'
                             /\ x = proc'[q].cell
      BY <2>2
    <3>2. proc[q].run > 0 /\ SlugOf(q) = s /\ EnvOf(q).id # Given /\ x = proc[q].cell
      BY <1>1, <3>1 DEF Made
    <3>3. Owns(s, x)
      BY <3>2 DEF Owns
    <3> QED BY <3>3
  <2>3. CASE \E q \in Procs : \E u \in Tasks[q] :
                /\ task'[q][u].stage \in Writing /\ SlugOf(q)' = s /\ x = task'[q][u].made
    <3>0. PICK q \in Procs : \E u \in Tasks[q] :
             /\ task'[q][u].stage \in Writing /\ SlugOf(q)' = s /\ x = task'[q][u].made
      BY <2>3
    <3>1. PICK u \in Tasks[q] :
             /\ task'[q][u].stage \in Writing /\ SlugOf(q)' = s /\ x = task'[q][u].made
      BY <3>0
    <3>2. CASE q = p /\ u = t
      BY <1>1, <3>1, <3>2 DEF Made
    <3>3. CASE task[q][u].stage \in Writing /\ task'[q][u] = task[q][u]
      <4>1. Owns(s, x)
        BY <1>1, <3>1, <3>3 DEF Owns
      <4> QED BY <4>1
    <3> QED BY <1>3, <3>1, <3>2, <3>3
  <2>4. CASE \E n \in DOMAIN reqs' : /\ (SlugFor[NameOf(n)] = s)' /\ ~Chosen(n)'
                                     /\ x = reqs'[n].id
    <3>1. PICK n \in DOMAIN reqs' : /\ (SlugFor[NameOf(n)] = s)' /\ ~Chosen(n)'
                                    /\ x = reqs'[n].id
      BY <2>4
    <3>2. n \in DOMAIN reqs /\ x = reqs[n].id
      BY <3>1 DEF Made
    <3>3. SlugFor[NameOf(n)] = s /\ ~Chosen(n)
      BY <1>2, <3>1, <3>2
    <3>4. Owns(s, x)
      BY <3>2, <3>3 DEF Owns
    <3> QED BY <3>4
  <2> QED BY <1>5, <2>1, <2>2, <2>3, <2>4 DEF Owns
<1>6. IdsApart'
  <2>1. \A s \in Slugs : \A x : Owns(s, x) => x # Fresh
    BY OwnsUsed, FreshIsNew
  <2> SUFFICES ASSUME NEW r \in Slugs, NEW s \in Slugs, NEW x,
                      Owns(r, x)', Owns(s, x)', x # None
               PROVE  r = s
    BY DEF IdsApart
  <2>2. Owns(r, x) \/ (x = Fresh /\ r = SlugOf(p))
    BY <1>5
  <2>3. Owns(s, x) \/ (x = Fresh /\ s = SlugOf(p))
    BY <1>5
  <2> QED BY <2>1, <2>2, <2>3 DEF IdsApart
<1> QED BY <1>4, <1>6

\* The file gets the identity that the call has made.
LEMMA FillKeeps ==
  ASSUME TypesFit, SlotsFit, RequestsFit, SlugsFit, IdsApart,
         NEW p \in Procs, NEW t \in Tasks[p], Fill(p, t)
  PROVE  SlugsFit' /\ IdsApart'
<1> DEFINE made == task[p][t].made
           s0 == SlugOf(p)
<1>1. /\ task[p][t].stage \in Writing /\ task[p][t] \in Calls /\ proc[p] \in Processes
      /\ OnlyProc(p) /\ OnlyCall(p, t)
      /\ proc'[p] = [proc[p] EXCEPT !.cell = made]
      /\ task'[p][t] = [task[p][t] EXCEPT !.stage = "ready", !.made = None]
      /\ idFile' = [idFile EXCEPT ![s0] = made]
      /\ UNCHANGED <<runs, reqs, remade>>
  BY Zenon, FillDoes DEF Writing
<1>2. /\ proc[p].run > 0 /\ proc[p].stage = "up" /\ EnvOf(p).id # Given
      /\ \A v \in Tasks[p] : task[p][v].stage \in Writing => v = t
  BY <1>1, WritingRuns
<1>3. s0 \in Slugs
  BY <1>2, SlugTyped
<1>4. proc'[p].run = proc[p].run /\ proc'[p].cell = made
  BY <1>1 DEF Processes
<1>5. idFile'[s0] = made /\ \A s \in Slugs : s # s0 => idFile'[s] = idFile[s]
  BY <1>1, <1>3 DEF TypesFit
<1>6. \A q \in Procs : proc'[q].run = proc[q].run
  BY <1>1, <1>4 DEF OnlyProc
<1>7. \A q \in Procs : SlugOf(q)' = SlugOf(q) /\ EnvOf(q)' = EnvOf(q)
  BY <1>1, <1>6 DEF SlugOf, EnvOf
<1>8. \A n \in DOMAIN reqs : NameOf(n)' = NameOf(n) /\ Chosen(n)' = Chosen(n)
  BY <1>1 DEF NameOf, Chosen
<1>9. task'[p][t].stage \notin Writing
  BY <1>1 DEF Calls, Writing
<1>10. ASSUME NEW q \in Procs, NEW u \in Tasks[q], task'[q][u].stage \in Writing
       PROVE  q # p /\ task[q][u].stage \in Writing /\ task'[q][u] = task[q][u]
  <2>1. ~(q = p /\ u = t) /\ task'[q][u] = task[q][u]
    BY <1>1, <1>9, <1>10 DEF OnlyCall
  <2>2. q # p
    BY <1>2, <1>10, <2>1
  <2> QED BY <1>10, <2>1, <2>2
<1>11. \A q \in Procs : q # p => proc'[q].cell = proc[q].cell
  BY <1>1 DEF OnlyProc
<1> HIDE DEF made, s0
<1>12. SlugsFit'
  <2> SUFFICES ASSUME NEW s \in Slugs, s \notin remade' PROVE SlugFits(s)'
    BY DEF SlugsFit, SlugFits
  <2>1. SlugFits(s) /\ s \notin remade
    BY <1>1 DEF SlugsFit
  <2>2. CASE s # s0
    <3>1. ASSUME NEW q \in Procs, SlugOf(q) = s PROVE q # p
      BY <2>2, <3>1 DEF s0
    <3>2. ASSUME NEW q \in Procs, proc[q].run > 0, SlugOf(q) = s, EnvOf(q).id # Given
          PROVE  /\ proc'[q].cell \in {None, idFile[s]}
                 /\ \A u \in Tasks[q] : task'[q][u].stage \in Writing =>
                       /\ idFile[s] = None
                       /\ \A r \in Procs : \A v \in Tasks[r] :
                             task'[r][v].stage \in Writing /\ SlugOf(r) = s => r = q
      BY <1>10, <1>11, <2>1, <3>1, <3>2 DEF SlugFits
    <3>3. ASSUME NEW n \in DOMAIN reqs, SlugFor[NameOf(n)] = s, ~Chosen(n)
          PROVE  reqs[n].id = idFile[s]
      BY <2>1, <3>3 DEF SlugFits
    <3> QED BY <1>1, <1>5, <1>6, <1>7, <1>8, <2>2, <3>2, <3>3 DEF SlugFits
  <2>3. CASE s = s0
    <3>1. /\ idFile[s0] = None
          /\ \A r \in Procs : \A v \in Tasks[r] :
                task[r][v].stage \in Writing /\ SlugOf(r) = s0 => r = p
      BY <1>1, <1>2, <2>1, <2>3 DEF SlugFits, s0
    <3>2. ASSUME NEW q \in Procs, proc[q].run > 0, SlugOf(q) = s, EnvOf(q).id # Given
          PROVE  proc'[q].cell \in {None, made}
      <4>1. CASE q = p
        BY <1>4, <4>1
      <4>2. CASE q # p
        BY <1>11, <2>1, <2>3, <3>1, <3>2, <4>2 DEF SlugFits
      <4> QED BY <4>1, <4>2
    <3>3. ASSUME NEW q \in Procs, NEW u \in Tasks[q], SlugOf(q) = s
          PROVE  task'[q][u].stage \notin Writing
      BY <1>10, <2>3, <3>1, <3>3
    <3>4. ASSUME NEW n \in DOMAIN reqs, SlugFor[NameOf(n)] = s, ~Chosen(n) PROVE FALSE
      <4>1. reqs[n].id = None
        BY <2>1, <2>3, <3>1, <3>4 DEF SlugFits
      <4> QED BY <4>1 DEF RequestsFit
    <3> QED BY <1>1, <1>5, <1>6, <1>7, <1>8, <2>3, <3>2, <3>3, <3>4 DEF SlugFits
  <2> QED BY <2>2, <2>3
<1>13. Owns(s0, made)
  BY <1>1 DEF Owns, s0, made
<1>14. ASSUME NEW s \in Slugs, NEW x, x # None, Owns(s, x)'
       PROVE  Owns(s, x)
  <2>1. CASE x = idFile'[s]
    BY <1>5, <1>13, <2>1 DEF Owns
  <2>2. CASE \E q \in Procs : /\ proc'[q].run > 0 /\ SlugOf(q)' = s /\ (EnvOf(q).id # Given)'
                              /\ x = proc'[q].cell
    <3>1. PICK q \in Procs : /\ proc'[q].run > 0 /\ SlugOf(q)' = s /\ (EnvOf(q).id # Given)'
                             /\ x = proc'[q].cell
      BY <2>2
    <3>2. proc[q].run > 0 /\ SlugOf(q) = s /\ EnvOf(q).id # Given
      BY <1>6, <1>7, <3>1
    <3>3. CASE q = p
      BY <1>4, <1>13, <3>1, <3>2, <3>3 DEF s0
    <3>4. CASE q # p
      BY <1>11, <3>1, <3>2, <3>4 DEF Owns
    <3> QED BY <3>3, <3>4
  <2>3. CASE \E q \in Procs : \E u \in Tasks[q] :
                /\ task'[q][u].stage \in Writing /\ SlugOf(q)' = s /\ x = task'[q][u].made
    <3>0. PICK q \in Procs : \E u \in Tasks[q] :
             /\ task'[q][u].stage \in Writing /\ SlugOf(q)' = s /\ x = task'[q][u].made
      BY <2>3
    <3>1. PICK u \in Tasks[q] :
             /\ task'[q][u].stage \in Writing /\ SlugOf(q)' = s /\ x = task'[q][u].made
      BY <3>0
    <3>2. task[q][u].stage \in Writing /\ SlugOf(q) = s /\ x = task[q][u].made
      BY <1>7, <1>10, <3>1
    <3> QED BY <3>2 DEF Owns
  <2>4. CASE \E n \in DOMAIN reqs' : /\ (SlugFor[NameOf(n)] = s)' /\ ~Chosen(n)'
                                     /\ x = reqs'[n].id
    <3>1. PICK n \in DOMAIN reqs' : /\ (SlugFor[NameOf(n)] = s)' /\ ~Chosen(n)'
                                    /\ x = reqs'[n].id
      BY <2>4
    <3>2. n \in DOMAIN reqs /\ x = reqs[n].id
      BY <1>1, <3>1
    <3>3. SlugFor[NameOf(n)] = s /\ ~Chosen(n)
      BY <1>8, <3>1, <3>2
    <3> QED BY <3>2, <3>3 DEF Owns
  <2> QED BY <1>14, <2>1, <2>2, <2>3, <2>4 DEF Owns
<1> QED BY <1>12, <1>14 DEF IdsApart

\* A request carries the id of its process.
LEMMA SendKeeps ==
  ASSUME TypesFit, SlotsFit, RequestsFit, SlugsFit, IdsApart,
         NEW p \in Procs, NEW t \in Tasks[p], Send(p, t)
  PROVE  SlugsFit' /\ IdsApart'
<1> PICK k : k = Len(reqs) + 1
  OBVIOUS
<1>1. /\ task[p][t].stage = "ready" /\ task[p][t] \in Calls
      /\ OnlyCall(p, t) /\ task'[p][t] = [task[p][t] EXCEPT !.stage = "sent"]
      /\ DOMAIN reqs' = DOMAIN reqs \cup {k}
      /\ \A n \in DOMAIN reqs : reqs'[n] = reqs[n]
      /\ reqs'[k] = Asked(p, t)
      /\ UNCHANGED <<idFile, runs, proc, remade>>
  <2>1. /\ task[p][t].stage = "ready" /\ task[p][t] \in Calls
        /\ OnlyCall(p, t) /\ task'[p][t] = [task[p][t] EXCEPT !.stage = "sent"]
        /\ UNCHANGED <<idFile, runs, proc, remade>>
    BY SendDoes
  <2>2. /\ \A n \in DOMAIN reqs : reqs'[n] = reqs[n]
        /\ reqs'[k] = Asked(p, t)
        /\ Len(reqs) \in Nat /\ DOMAIN reqs = 1..Len(reqs) /\ DOMAIN reqs' = 1..k
    BY SendDoes
  <2>3. DOMAIN reqs' = DOMAIN reqs \cup {k}
    BY <2>2
  <2> QED BY <2>1, <2>2, <2>3
<1>2. proc[p].run > 0 /\ proc[p].cell # None
  <2>1. CallFits(p, t) /\ ProcFits(p)
    BY DEF SlotsFit
  <2> QED BY <1>1, <2>1 DEF CallFits, ProcFits
<1>3. reqs'[k].run = proc[p].run /\ reqs'[k].id = proc[p].cell
  BY <1>1 DEF Asked
<1>4. /\ (SlugFor[NameOf(k)])' = SlugOf(p)
      /\ Chosen(k)' <=> EnvOf(p).id = Given
  BY <1>1, <1>3 DEF NameOf, Chosen, SlugOf, EnvOf
<1>5. \A q \in Procs : SlugOf(q)' = SlugOf(q) /\ EnvOf(q)' = EnvOf(q)
  BY <1>1 DEF SlugOf, EnvOf
<1>6. \A n \in DOMAIN reqs : NameOf(n)' = NameOf(n) /\ Chosen(n)' = Chosen(n)
  BY <1>1 DEF NameOf, Chosen
<1>7. task'[p][t].stage \notin Writing
  BY <1>1 DEF Calls, Writing
<1>8. ASSUME NEW q \in Procs, NEW u \in Tasks[q], task'[q][u].stage \in Writing
      PROVE  task'[q][u] = task[q][u]
  BY <1>1, <1>7, <1>8 DEF OnlyCall
<1>9. SlugsFit'
  <2> SUFFICES ASSUME NEW s \in Slugs, s \notin remade' PROVE SlugFits(s)'
    BY DEF SlugsFit, SlugFits
  <2>1. SlugFits(s) /\ s \notin remade
    BY <1>1 DEF SlugsFit
  <2>2. ASSUME NEW q \in Procs, proc[q].run > 0, SlugOf(q) = s, EnvOf(q).id # Given
        PROVE  /\ proc[q].cell \in {None, idFile[s]}
               /\ \A u \in Tasks[q] : task'[q][u].stage \in Writing =>
                     /\ idFile[s] = None
                     /\ \A r \in Procs : \A v \in Tasks[r] :
                           task'[r][v].stage \in Writing /\ SlugOf(r) = s => r = q
    BY <1>8, <2>1, <2>2 DEF SlugFits
  <2>3. ASSUME NEW n \in DOMAIN reqs', (SlugFor[NameOf(n)] = s)', ~Chosen(n)'
        PROVE  reqs'[n].id = idFile[s]
    <3>1. CASE n \in DOMAIN reqs
      BY <1>1, <1>6, <2>1, <2>3, <3>1 DEF SlugFits
    <3>2. CASE n = k
      BY <1>2, <1>3, <1>4, <2>1, <2>3, <3>2 DEF SlugFits
    <3> QED BY <1>1, <3>1, <3>2
  <2> QED BY <1>1, <1>5, <2>2, <2>3 DEF SlugFits
<1>10. ASSUME NEW s \in Slugs, NEW x, x # None, Owns(s, x)'
       PROVE  Owns(s, x)
  <2>1. CASE x = idFile'[s]
    BY <1>1, <2>1 DEF Owns
  <2>2. CASE \E q \in Procs : /\ proc'[q].run > 0 /\ SlugOf(q)' = s /\ (EnvOf(q).id # Given)'
                              /\ x = proc'[q].cell
    BY <1>1, <1>5, <2>2 DEF Owns
  <2>3. CASE \E q \in Procs : \E u \in Tasks[q] :
                /\ task'[q][u].stage \in Writing /\ SlugOf(q)' = s /\ x = task'[q][u].made
    BY <1>5, <1>8, <2>3 DEF Owns
  <2>4. CASE \E n \in DOMAIN reqs' : /\ (SlugFor[NameOf(n)] = s)' /\ ~Chosen(n)'
                                     /\ x = reqs'[n].id
    <3>1. PICK n \in DOMAIN reqs' : /\ (SlugFor[NameOf(n)] = s)' /\ ~Chosen(n)'
                                    /\ x = reqs'[n].id
      BY <2>4
    <3>2. CASE n \in DOMAIN reqs
      <4>1. SlugFor[NameOf(n)] = s /\ ~Chosen(n) /\ x = reqs[n].id
        BY <1>1, <1>6, <3>1, <3>2
      <4> QED BY <3>2, <4>1 DEF Owns
    <3>3. CASE n = k
      <4>1. SlugOf(p) = s /\ EnvOf(p).id # Given /\ x = proc[p].cell
        BY <1>3, <1>4, <3>1, <3>3
      <4> QED BY <1>2, <4>1 DEF Owns
    <3> QED BY <1>1, <3>2, <3>3
  <2> QED BY <1>10, <2>1, <2>2, <2>3, <2>4 DEF Owns
<1> QED BY <1>9, <1>10 DEF IdsApart
-----------------------------------------------------------------------------
(* The invariant, step by step.                                             *)

LEMMA InvStarts == Init => McpInv
<1> SUFFICES ASSUME Init PROVE McpInv
  OBVIOUS
<1>0. \A p \in Procs : proc[p] = Off /\ \A t \in Tasks[p] : task[p][t] = NoCall
  BY DEF Init, Idle
<1>1. reqs = <<>> /\ runs = <<>> /\ DOMAIN reqs = {} /\ Len(runs) = 0
  BY DEF Init
<1>2. TypesFit
  <2>1. <<>> \in Seq(Launches) /\ <<>> \in Seq(Requested)
    OBVIOUS
  <2>2. \A p \in Procs : task[p] \in [Tasks[p] -> Calls]
    BY ConstantsTyped DEF Init
  <2>3. idFile \in [Slugs -> Nat] /\ config \in Sources
    BY DEF Init, None, Sources, Setups
  <2>4. proc \in [Procs -> Processes]
    BY ConstantsTyped DEF Init
  <2> QED BY <2>1, <2>2, <2>3, <2>4 DEF Init, TypesFit
<1>3. SlotsFit
  <2>1. Len(NoCall.told) = 0 /\ Len(NoCall.items) = 0 /\ NoCall.stage = "idle"
    BY DEF NoCall
  <2>2. ASSUME NEW p \in Procs PROVE ProcFits(p)
    BY <1>0, <1>1 DEF ProcFits, Off
  <2>3. ASSUME NEW p \in Procs, NEW t \in Tasks[p] PROVE CallFits(p, t)
    BY <1>0, <2>1 DEF CallFits, Writing
  <2> QED BY <2>2, <2>3 DEF SlotsFit
<1>4. RequestsFit /\ AnswersFit
  BY <1>1 DEF RequestsFit, AnswersFit
<1>5. SlugsFit
  BY <1>0, <1>1 DEF SlugsFit, SlugFits, Off
<1>6. IdsApart
  <2>1. ASSUME NEW s \in Slugs, NEW x, Owns(s, x) PROVE x = None
    <3>1. idFile[s] = None
      BY DEF Init
    <3>2. \A p \in Procs : proc[p].run = 0 /\ \A t \in Tasks[p] : task[p][t].stage \notin Writing
      BY <1>0 DEF Off, NoCall, Writing
    <3> QED BY <1>1, <2>1, <3>1, <3>2 DEF Owns
  <2> QED BY <2>1 DEF IdsApart
<1>7. UploadsFit
  BY <1>0 DEF UploadsFit, UploadFits, Off
<1>8. ConfigFits
  BY <1>0, <1>1 DEF ConfigFits, Off, Init
<1> QED BY <1>2, <1>3, <1>4, <1>5, <1>6, <1>7, <1>8 DEF McpInv

\* Nothing is asked, answered or told.
LEMMA AnswersKept ==
  ASSUME AnswersFit, UNCHANGED <<reqs, stored>>
  PROVE  AnswersFit'
BY DEF AnswersFit, Told, ReadFits, SameMemory

LEMMA InvProcess ==
  ASSUME McpInv, NEW p \in Procs,
         Start(p) \/ Kill(p) \/ Load(p) \/ SaveTruncates(p) \/ SaveWrites(p) \/ Return(p)
  PROVE  McpInv'
<1> USE DEF McpInv
<1>1. TypesFit'
  BY Zenon, StartDoes, KillDoes, LoadDoes, SaveTruncatesDoes, SaveWritesDoes, ReturnDoes
<1>2. SlotsFit'
  BY SlotsStart, SlotsLoad
<1>3. RequestsFit'
  <2>1. CASE Start(p) \/ Kill(p)
    BY <2>1, RequestsStart
  <2>2. CASE Load(p) \/ SaveTruncates(p) \/ SaveWrites(p) \/ Return(p)
    BY <2>2, QuietSteps, QuietKeeps
  <2> QED BY <2>1, <2>2
<1>4. Calm
  BY CalmProc
<1>5. SlugsFit' /\ IdsApart'
  BY <1>1, <1>2, <1>4, CalmSlugs, CalmIds
<1>6. AnswersFit'
  <2>1. UNCHANGED <<reqs, stored>>
    BY Zenon DEF Start, Kill, Load, SaveTruncates, SaveWrites, Return
  <2> QED BY <2>1, AnswersKept
<1>7. UploadsFit'
  BY UploadsProc
<1>8. ConfigFits'
  BY ConfigStep, ConfigLoad
<1> QED BY <1>1, <1>2, <1>3, <1>5, <1>6, <1>7, <1>8

\* What a call does without the server.
LEMMA InvCall ==
  ASSUME McpInv, NEW p \in Procs, NEW t \in Tasks[p],
         Call(p, t) \/ Truncate(p, t) \/ Unreadable(p, t) \/ Resolve(p, t) \/ Fill(p, t)
           \/ ResolveFails(p, t)
  PROVE  McpInv'
<1> USE DEF McpInv
<1>0. Resolve(p, t) => proc[p].stage = "up"
  <2>1. CallFits(p, t)
    BY DEF SlotsFit
  <2>2. Resolve(p, t) => task[p][t].stage = "asked"
    BY DEF Resolve
  <2> QED BY <2>1, <2>2 DEF CallFits
<1>1. TypesFit'
  BY Zenon, <1>0, CallDoes, TruncateDoes, UnreadableDoes, ResolveDoes, FillDoes, ResolveFailsDoes
<1>2. SlotsFit'
  BY SlotsCall, SlotsResolve
<1>3. RequestsFit'
  BY QuietSteps, QuietKeeps
<1>4. SlugsFit' /\ IdsApart'
  <2>1. CASE Call(p, t) \/ Truncate(p, t) \/ Unreadable(p, t) \/ ResolveFails(p, t)
    <3>1. Calm
      BY <2>1, CalmCall
    <3> QED BY <1>1, <1>2, <3>1, CalmSlugs, CalmIds
  <2>2. CASE Resolve(p, t)
    <3>0. PICK unread \in BOOLEAN : Resolves(p, t, unread)
      BY Zenon, <1>0, <2>2, ResolveDoes
    <3>1. CASE Known(p, unread) # None
      <4>1. Calm
        BY <1>0, <2>2, <3>0, <3>1, CalmResolve
      <4> QED BY <1>1, <1>2, <4>1, CalmSlugs, CalmIds
    <3>2. CASE Known(p, unread) = None
      BY <1>0, <2>2, <3>0, <3>2, ResolveMade, MadeKeeps
    <3> QED BY <3>1, <3>2
  <2>3. CASE Fill(p, t)
    BY <2>3, FillKeeps
  <2> QED BY <2>1, <2>2, <2>3
<1>5. AnswersFit'
  <2>1. UNCHANGED <<reqs, stored>>
    BY Zenon DEF Call, Truncate, Unreadable, Resolve, Fill, ResolveFails
  <2> QED BY <2>1, AnswersKept
<1>6. UploadsFit'
  BY UploadsCall
<1>7. ConfigFits'
  BY ConfigCall
<1> QED BY <1>1, <1>2, <1>3, <1>4, <1>5, <1>6, <1>7

LEMMA InvSend ==
  ASSUME McpInv, NEW p \in Procs, NEW t \in Tasks[p], Send(p, t)
  PROVE  McpInv'
<1> USE DEF McpInv
<1>1. TypesFit'
  BY SendDoes
<1>2. SlotsFit' /\ RequestsFit'
  BY SlotsCall, RequestsSend
<1>3. SlugsFit' /\ IdsApart'
  BY SendKeeps
<1>4. AnswersFit' /\ UploadsFit' /\ ConfigFits'
  BY AnswersSend, UploadsRequest, ConfigSend
<1> QED BY <1>1, <1>2, <1>3, <1>4

LEMMA InvTell ==
  ASSUME McpInv, NEW p \in Procs, NEW t \in Tasks[p], NEW n \in DOMAIN reqs,
         Hear(p, t, n) \/ GiveUp(p, t, n)
  PROVE  McpInv'
<1> USE DEF McpInv
<1>1. PICK outcome \in Outcomes : Fair(n, outcome) /\ Tell(p, t, n, outcome)
  BY HearIsFair
<1>2. TypesFit'
  BY <1>1, TellDoes
<1>3. SlotsFit' /\ RequestsFit'
  BY <1>1, SlotsTell, RequestsTell
<1>4. SlugsFit' /\ IdsApart'
  <2>1. Calm
    BY <1>1, CalmTell
  <2> QED BY <1>2, <1>3, <2>1, CalmSlugs, CalmIds
<1>5. AnswersFit'
  BY <1>1, AnswersTell
<1>6. UploadsFit'
  BY UploadsRequest
<1>7. ConfigFits'
  <2>1. UNCHANGED <<runs, proc, config>>
    BY <1>1 DEF Tell
  <2> QED BY <1>1, <2>1, TellChanges, ConfigReqs
<1> QED BY <1>2, <1>3, <1>4, <1>5, <1>6, <1>7

LEMMA InvServe ==
  ASSUME McpInv, NEW n \in DOMAIN reqs, Serve(n)
  PROVE  McpInv'
<1> USE DEF McpInv
<1>1. TypesFit'
  BY ServeDoes
<1>2. SlotsFit' /\ RequestsFit'
  BY SlotsServe, RequestsServe
<1>3. SlugsFit' /\ IdsApart'
  <2>1. Calm
    BY CalmServe
  <2> QED BY <1>1, <1>2, <2>1, CalmSlugs, CalmIds
<1>4. AnswersFit' /\ UploadsFit'
  BY AnswersServe, UploadsServe
<1>5. ConfigFits'
  <2>1. UNCHANGED <<runs, proc, config>>
    BY DEF Serve
  <2> QED BY <2>1, ServeChanges, ConfigReqs
<1> QED BY <1>1, <1>2, <1>3, <1>4, <1>5

LEMMA InvStutters ==
  ASSUME McpInv, UNCHANGED vars
  PROVE  McpInv'
<1>1. TypesFit' /\ SlotsFit'
  BY DEF McpInv, vars, TypesFit, SlotsFit, ProcFits, CallFits, Kind, EnvOf
<1>2. RequestsFit' /\ AnswersFit'
  BY DEF McpInv, vars, RequestsFit, MakerFits, PairFits, Item, AnswersFit, Told, ReadFits,
         SameMemory
<1>3. Calm
  <2>1. RunsKept /\ SameReqs
    BY SlotTyped DEF McpInv, TypesFit, vars, RunsKept, SameReqs
  <2> QED BY <2>1 DEF vars, Calm, CalmSlot
<1>4. SlugsFit' /\ IdsApart'
  BY <1>1, <1>3, CalmSlugs, CalmIds DEF McpInv
<1>5. UploadsFit' /\ ConfigFits'
  BY DEF McpInv, vars, UploadsFit, UploadFits, Kind, ConfigFits, NoEnv
<1> QED BY <1>1, <1>2, <1>4, <1>5 DEF McpInv

LEMMA McpInvariant == Spec => []McpInv
<1>1. McpInv /\ [Next]_vars => McpInv'
  <2> SUFFICES ASSUME McpInv, [Next]_vars PROVE McpInv'
    OBVIOUS
  <2>1. CASE \E p \in Procs : ProcStep(p)
    <3>1. PICK p \in Procs : ProcStep(p)
      BY <2>1
    <3>2. CASE Start(p) \/ Load(p) \/ Return(p) \/ Kill(p) \/ SaveTruncates(p) \/ SaveWrites(p)
      BY <3>2, InvProcess
    <3>3. ASSUME NEW t \in Tasks[p],
                 Call(p, t) \/ Resolve(p, t) \/ Truncate(p, t) \/ Fill(p, t)
                   \/ ResolveFails(p, t) \/ Unreadable(p, t)
          PROVE  McpInv'
      BY <3>3, InvCall
    <3>4. ASSUME NEW t \in Tasks[p], Send(p, t) PROVE McpInv'
      BY <3>4, InvSend
    <3>5. ASSUME NEW t \in Tasks[p], NEW n \in DOMAIN reqs, Hear(p, t, n) \/ GiveUp(p, t, n)
          PROVE  McpInv'
      BY <3>5, InvTell
    <3> QED BY <3>1, <3>2, <3>3, <3>4, <3>5 DEF ProcStep
  <2>2. CASE \E n \in DOMAIN reqs : Serve(n)
    BY <2>2, InvServe
  <2>3. CASE UNCHANGED vars
    BY <2>3, InvStutters
  <2> QED BY <2>1, <2>2, <2>3 DEF Next
<1> QED BY InvStarts, <1>1, PTL DEF Spec

LEMMA RunTyped ==
  ASSUME McpInv, NEW n \in DOMAIN reqs
  PROVE  NameOf(n) \in Names /\ SlugFor[NameOf(n)] \in Slugs /\ SlugFor[NameOf(n)] = Slug(NameOf(n))
<1>1. reqs[n].run \in 1..Len(runs)
  BY DEF McpInv, RequestsFit
<1>2. runs[reqs[n].run] \in Launches
  BY <1>1, ElementOfSeq DEF McpInv, TypesFit
<1> QED BY <1>2 DEF NameOf, Launches, Slugs, SlugFor

\* Whatever is in the slots, the files and the requests has its type; a process that is
\* up has a server and a token, and one that asks it has its identity.
THEOREM McpTypeCorrect == Spec => []TypeOK
<1>1. McpInv => TypeOK
  <2> SUFFICES ASSUME McpInv PROVE TypeOK
    OBVIOUS
  <2>1. TypesFit /\ SlotsFit
    BY DEF McpInv
  <2>2. ASSUME NEW p \in Procs
        PROVE  /\ proc[p].cell \in Ids
               /\ proc[p].stage = "up" => proc[p].url # None /\ proc[p].token # None
    <3>1. proc[p] \in Processes /\ ProcFits(p)
      BY <2>1 DEF TypesFit, SlotsFit
    <3> QED BY <3>1 DEF Processes, ProcFits
  <2>3. ASSUME NEW p \in Procs, NEW t \in Tasks[p]
        PROVE  /\ task[p][t] \in Calls
               /\ Len(task[p][t].told) <= Len(task[p][t].items)
               /\ task[p][t].stage \in {"ready", "sent"} => proc[p].cell # None
    BY <2>1 DEF TypesFit, SlotsFit, CallFits
  <2> QED BY <2>1, <2>2, <2>3 DEF TypesFit, TypeOK
<1> QED BY <1>1, McpInvariant, PTL

\* However processes start, race for the identity file, cannot read or write it and are
\* killed, a process has one agent id; so have the clients of a slug for which no two made
\* one at once and none overwrote one it could not read; and names that differ in their
\* ASCII letters and digits never share one.
THEOREM IdentityAlwaysOne == Spec => []OneIdentity
<1>1. McpInv => OneIdentity
  <2> SUFFICES ASSUME McpInv, NEW m \in DOMAIN reqs, NEW n \in DOMAIN reqs
      PROVE  LET s == SlugFor[NameOf(m)] IN
             /\ reqs[m].run = reqs[n].run => reqs[m].id = reqs[n].id
             /\ ~Chosen(m) /\ ~Chosen(n) =>
                   /\ s = SlugFor[NameOf(n)] /\ s \notin remade => reqs[m].id = reqs[n].id
                   /\ LET a == Spelled(NameOf(m))
                          b == Spelled(NameOf(n))
                      IN  a # <<>> /\ b # <<>> /\ a # b => reqs[m].id # reqs[n].id
    BY DEF OneIdentity
  <2> DEFINE s == SlugFor[NameOf(m)]
             r == SlugFor[NameOf(n)]
  <2>1. reqs[m].run = reqs[n].run => reqs[m].id = reqs[n].id
    BY DEF McpInv, RequestsFit, PairFits
  <2>2. s \in Slugs /\ r \in Slugs
    BY RunTyped
  <2>3. ASSUME ~Chosen(m), ~Chosen(n), s = r, s \notin remade PROVE reqs[m].id = reqs[n].id
    <3>1. SlugFits(s)
      BY <2>2 DEF McpInv, SlugsFit
    <3> QED BY <2>3, <3>1 DEF SlugFits
  <2>4. ASSUME ~Chosen(m), ~Chosen(n), Spelled(NameOf(m)) # <<>>, Spelled(NameOf(n)) # <<>>,
               Spelled(NameOf(m)) # Spelled(NameOf(n))
        PROVE  reqs[m].id # reqs[n].id
    <3>1. Slug(NameOf(m)) # Slug(NameOf(n))
      BY <2>4, RunTyped, NamesAssumption DEF SlugsApart
    <3>2. s # r
      BY <3>1, RunTyped
    <3>3. Owns(s, reqs[m].id) /\ Owns(r, reqs[n].id)
      BY <2>4 DEF Owns
    <3>4. reqs[m].id # None
      BY DEF McpInv, RequestsFit
    <3> QED BY <2>2, <3>2, <3>3, <3>4 DEF McpInv, IdsApart
  <2> QED BY <2>1, <2>3, <2>4
<1> QED BY <1>1, McpInvariant, PTL

\* No tool call and no hook is told that a memory was saved that the server does not
\* hold, or that one is absent which it saved, and an upload leaves out no file silently.
THEOREM ToldAlwaysTrue == Spec => []ToldIsTrue
<1>1. McpInv => ToldIsTrue
  <2> SUFFICES ASSUME McpInv PROVE ToldIsTrue
    OBVIOUS
  <2>1. SavedIsStored
    BY DEF McpInv, AnswersFit, Told, SavedIsStored
  <2>2. SavedIsFound
    BY DEF McpInv, AnswersFit, Told, ReadFits, SavedIsFound
  <2>3. ASSUME NEW p \in Procs, proc[p].stage = "done", Kind(p) = "upload",
               NEW i \in DOMAIN task[p][First].items
        PROVE  \/ i \in DOMAIN task[p][First].told /\ task[p][First].told[i] = "error"
               \/ \E n \in DOMAIN reqs : /\ reqs[n].run = proc[p].run /\ reqs[n].answer = "ok"
                                         /\ reqs[n].file = task[p][First].items[i].file
    <3>1. proc[p].run > 0
      BY <2>3 DEF McpInv, SlotsFit, ProcFits
    <3>2. task[p][First] \in Calls
      BY ConstantsTyped DEF McpInv, TypesFit
    <3>3. UploadFits(p)
      BY DEF McpInv, UploadsFit
    <3>4. Len(task[p][First].told) = Len(task[p][First].items)
      BY <2>3, <3>1, <3>3 DEF UploadFits
    <3>5. i \in DOMAIN task[p][First].told
      BY <3>2, <3>4, LenProperties DEF Calls
    <3> QED BY <2>3, <3>1, <3>3, <3>5 DEF UploadFits
  <2>4. NoItemSkipped
    BY <2>3 DEF NoItemSkipped
  <2> QED BY <2>1, <2>2, <2>4 DEF ToldIsTrue
<1> QED BY <1>1, McpInvariant, PTL

\* Whenever the file is rewritten or cannot be read, the token that a command with neither
\* variable set has from it goes to the server it was saved with.
THEOREM TokensAlwaysStay == Spec => []TokensStayHome
<1>1. McpInv => TokensStayHome
  BY DEF McpInv, ConfigFits, NoEnv, TokensStayHome
<1> QED BY <1>1, McpInvariant, PTL
=============================================================================
