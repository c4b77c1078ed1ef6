----------------------------- MODULE McpClient -----------------------------
(***************************************************************************)
(* memoryhub-mcp: the stdio server an agent keeps open, whose tool calls   *)
(* run side by side, and the short commands its hooks run beside it and    *)
(* may kill.  They share config.toml and one identity file per client name *)
(* on the disk, and call the MemoryHub server, which may answer late, or   *)
(* act on a request its client has given up.                               *)
(***************************************************************************)
EXTENDS Integers, Sequences, SequencesExt, FiniteSetsExt

CONSTANTS Procs,       \* slots for processes
          Tasks,       \* slot -> 1..n: calls that may run at the same time there
          Names,       \* client names, each a sequence of characters
          Starts,      \* slot -> what may be started: command, client name, environment
          Files,       \* the memories that calls name
          Tools,       \* the tool calls an agent makes
          Batches,     \* the lists of files a hook uploads
          MaxRuns, MaxRequests

\* What a value is when it is absent, empty or does not parse.
None == 0
\* The id MEMORYHUB_AGENT_ID names, and a text there that is no UUID.
Given == -1
Garbled == -2

Setups == 1..2  \* a MemoryHub server: its URL and a token it knows

Sources == [url : {None} \cup Setups, token : {None} \cup Setups]

Environments ==
    [url : {None} \cup Setups, token : {None} \cup Setups, id : {None, Given, Garbled}]
Kinds == {"mcp", "upload", "recall", "check", "config"}

ASSUME SlotsAssumption ==
    /\ IsFiniteSet(Procs) /\ IsFiniteSet(Names)
    /\ \A p \in Procs : /\ IsFiniteSet(Tasks[p]) /\ 1 \in Tasks[p]
                        /\ Tasks[p] = 1..Cardinality(Tasks[p])

ASSUME StartsAssumption ==
    \A p \in Procs : Starts[p] \subseteq [kind : Kinds, name : Names, env : Environments]

\* A call about no memory in particular names none.
Items ==
    [op : {"write", "upload", "read", "search", "summary"}, file : {""} \cup Files,
     readable : BOOLEAN]

ASSUME ToolsAssumption ==
    Tools \subseteq Items /\ Batches \subseteq Seq({item \in Items : item.op = "upload"})

VARIABLES idFile,  \* slug -> the id in its file
          config,  \* what config.toml gives
          runs,    \* history: what each process was started as
          proc,    \* slot -> the process in it
          task,    \* slot -> task -> the call, and how far it is
          reqs,    \* every request made, and what became of it
          stored,  \* requests whose content the server holds
          remade   \* history: slugs for which an id was made while another process made one,
                   \* or while one was in the file and could not be read

vars == <<idFile, config, runs, proc, task, reqs, stored, remade>>
-----------------------------------------------------------------------------
(* Names and configuration.                                                 *)

Letters == {"a", "b", "c", "d"}  \* for the letters and digits of ASCII
Lower(ch) == IF ch = "A" THEN "a" ELSE IF ch = "B" THEN "b" ELSE ch

Trimmed(s) ==
    LET kept == {i \in DOMAIN s : s[i] # "-"}
    IN  IF kept = {} THEN <<>> ELSE SubSeq(s, Min(kept), Max(kept))

\* slug: a run of other characters becomes one dash; "d" stands for "default".
Slug(name) ==
    LET Other(ch) == Lower(ch) \notin Letters \cup {"-", "_"}
        Push(out, ch) ==
            IF ~Other(ch) THEN Append(out, Lower(ch))
            ELSE IF out # <<>> /\ Last(out) = "." THEN out ELSE Append(out, ".")
        dots == FoldLeft(Push, <<>>, name)
        dashes == [i \in DOMAIN dots |-> IF dots[i] = "." THEN "-" ELSE dots[i]]
    IN  IF Trimmed(dashes) = <<>> THEN <<"d">> ELSE Trimmed(dashes)

\* Seeded fault: every client has the file of the default one.
OneFile == [name \in Names |-> <<"d">>]

\* The file of a client.
SlugFor == [name \in Names |-> Slug(name)]
Slugs == {SlugFor[name] : name \in Names}

\* The letters of a name; what is left out of them is case, punctuation, and every letter
\* that is not of ASCII, of which slug makes a dash.
Spelled(name) == SelectSeq([i \in DOMAIN name |-> Lower(name[i])], LAMBDA ch : ch \in Letters)

\* slug keeps the letters of ASCII, and a name that has none is the default one.
SlugsApart(names) ==
    LET slug == [name \in names |-> Slug(name)]
        letters == [name \in names |-> Spelled(name)]
    IN  \A a, b \in names :
            letters[a] # <<>> /\ letters[b] # <<>> /\ letters[a] # letters[b] => slug[a] # slug[b]

ASSUME NamesAssumption == SlugsApart(Names)

\* A file that cannot be read or parsed is one that gives nothing.
NoConfig == [url |-> None, token |-> None]

\* Config::from_envs for the server, from_file for the commands.
Resolved(kind, env, file) ==
    LET Or(x, y) == IF x = None /\ kind # "mcp" THEN y ELSE x
    IN  [url |-> Or(env.url, file.url), token |-> Or(env.token, file.token)]

\* Seeded fault: an empty token passes.
UrlSuffices(c, env) == c.url # None /\ env.id # Garbled

\* Config::new.
Usable(c, env) == c.url # None /\ c.token # None /\ env.id # Garbled
-----------------------------------------------------------------------------
Off == [run |-> 0, stage |-> "off", url |-> None, token |-> None, cell |-> None]
NoCall == [stage |-> "idle", items |-> <<>>, told |-> <<>>, made |-> None]
Idle(p) == [t \in Tasks[p] |-> NoCall]
Threads == UNION {{p} \X Tasks[p] : p \in Procs}

Init ==
    /\ idFile = [s \in Slugs |-> None]
    /\ config = [url |-> 1, token |-> 1]
    /\ runs = <<>>
    /\ proc = [p \in Procs |-> Off]
    /\ task = [p \in Procs |-> Idle(p)]
    /\ reqs = <<>>
    /\ stored = {}
    /\ remade = {}

Running == {"starting", "up", "saving"}
Kind(p) == runs[proc[p].run].kind
SlugOf(p) == SlugFor[runs[proc[p].run].name]
EnvOf(p) == runs[proc[p].run].env
First == 1  \* the main task of a command

\* The bound: no call is made whose requests would exceed MaxRequests.
Owed(call) == {i \in DOMAIN call.items : /\ call.items[i].readable /\ i > Len(call.told)
                                          /\ call.stage = "sent" => i > Len(call.told) + 1}
Fits(items) ==
    MapThenSumSet(LAMBDA th : Cardinality(Owed(task[th[1]][th[2]])), Threads)
        + Cardinality(Owed([NoCall EXCEPT !.items = items])) + Len(reqs) <= MaxRequests

\* A process is started: by the agent, by one of its hooks, by the user.
Start(p) ==
    /\ proc[p].stage \notin Running
    /\ Len(runs) < MaxRuns
    /\ \E s \in Starts[p] : runs' = Append(runs, s)
    /\ proc' = [proc EXCEPT ![p] = [Off EXCEPT !.run = Len(runs) + 1, !.stage = "starting"]]
    /\ task' = [task EXCEPT ![p] = Idle(p)]
    /\ UNCHANGED <<idFile, config, reqs, stored, remade>>

\* What a command has to do: upload files, or get the one summary.
Lists(kind) ==
    IF kind = "upload" THEN Batches
    ELSE IF kind = "recall" THEN {<<[op |-> "summary", file |-> "", readable |-> TRUE]>>}
    ELSE {<<>>}

\* The configuration is read; a command has its list of items by then too.
Load(p) ==
    /\ proc[p].stage = "starting" /\ Kind(p) # "config"
    /\ \E file \in {config, NoConfig} :
          LET c == Resolved(Kind(p), EnvOf(p), file)
              ok == Usable(c, EnvOf(p))
              stage == IF ~ok THEN "failed" ELSE IF Kind(p) = "check" THEN "done" ELSE "up"
          IN  /\ proc' = [proc EXCEPT ![p].stage = stage,
                                      ![p].url = IF stage = "up" THEN c.url ELSE None,
                                      ![p].token = IF stage = "up" THEN c.token ELSE None]
              /\ \E items \in Lists(Kind(p)) :
                    /\ Fits(items)
                    /\ task' = IF stage = "up" /\ Kind(p) # "mcp"
                            THEN [task EXCEPT ![p][First].stage = "asked", ![p][First].items = items]
                            ELSE task
    /\ UNCHANGED <<idFile, config, runs, reqs, stored, remade>>

\* The host or the user ends a process, a hook at its time limit, wherever it is.
Kill(p) ==
    /\ proc[p].stage \in Running
    /\ proc' = [proc EXCEPT ![p] = Off]
    /\ task' = [task EXCEPT ![p] = Idle(p)]
    /\ UNCHANGED <<idFile, config, runs, reqs, stored, remade>>
-----------------------------------------------------------------------------
(* The config command: fs::write truncates the file, then writes it.        *)

\* Seeded fault: the old file is changed key by key.
SaveUrl(p) ==
    /\ proc[p].stage = "starting" /\ Kind(p) = "config"
    /\ \E i \in Setups : proc' = [proc EXCEPT ![p].stage = "saving", ![p].url = i, ![p].token = i]
    /\ config' = [config EXCEPT !.url = proc'[p].url]
    /\ UNCHANGED <<idFile, runs, task, reqs, stored, remade>>

\* What the user may enter: URL and token of one server, or either of them left empty.
Entered == {c \in Sources : c.url # None /\ c.token # None => c.url = c.token}

SaveTruncates(p) ==
    /\ proc[p].stage = "starting" /\ Kind(p) = "config"
    /\ \E c \in Entered :
          proc' = [proc EXCEPT ![p].stage = "saving", ![p].url = c.url, ![p].token = c.token]
    /\ config' = NoConfig
    /\ UNCHANGED <<idFile, runs, task, reqs, stored, remade>>

SaveWrites(p) ==
    /\ proc[p].stage = "saving"
    /\ config' = [url |-> proc[p].url, token |-> proc[p].token]
    /\ proc' = [proc EXCEPT ![p].stage = "done"]
    /\ UNCHANGED <<idFile, runs, task, reqs, stored, remade>>
-----------------------------------------------------------------------------
(* The identity.                                                            *)

\* A tool call reaches the server, which spawns a task for it.
Call(p, t) ==
    /\ proc[p].stage = "up" /\ Kind(p) = "mcp"
    /\ \A u \in 1..t : task[p][u].stage = "idle" <=> u = t  \* the first slot that is free
    /\ \E item \in Tools :
          /\ Fits(<<item>>)
          /\ task' = [task EXCEPT ![p][t] = [NoCall EXCEPT !.stage = "asked", !.items = <<item>>]]
    /\ UNCHANGED <<idFile, config, runs, proc, reqs, stored, remade>>

Writing == {"made", "cut"}  \* past the read of the identity file, which gave nothing

\* Seeded fault: a plain field in place of the OnceCell.
AnyTask(p, t) == TRUE

\* OnceCell::get_or_try_init runs one initialiser; the others wait for it.
MayResolve(p, t) == \A u \in Tasks[p] : task[p][u].stage \notin Writing

\* The ids in files, in processes, in calls and in requests.
Used ==
    {idFile[s] : s \in Slugs} \cup {proc[p].cell : p \in Procs}
      \cup {task[th[1]][th[2]].made : th \in Threads}
      \cup {reqs[n].id : n \in DOMAIN reqs}

\* Uuid::new_v4: an id nobody has.
Fresh == LET used == Used IN CHOOSE i \in 1..Cardinality(used) + 1 : i \notin used

\* Seeded fault: an identity is made anew by each process.
NeverFound(p) == None

\* What the file gives: its id, nothing if it is absent, empty or garbled.
Found(p) == idFile[SlugOf(p)]

\* Where there is an id, the read of it may fail, which is taken for absence.
ReadFails(p) == IF idFile[SlugOf(p)] = None THEN {FALSE} ELSE BOOLEAN

\* resolve_agent_id up to the read of the file, unless the id is there already.
Resolve(p, t) ==
    /\ task[p][t].stage = "asked"
    /\ MayResolve(p, t)
    /\ \E unread \in ReadFails(p) :
          LET id == IF proc[p].cell # None THEN proc[p].cell
                    ELSE IF EnvOf(p).id = Given THEN Given
                    ELSE IF unread THEN None ELSE Found(p)
              others == {q \in Procs \ {p} : \E u \in Tasks[q] : /\ task[q][u].stage \in Writing
                                                              /\ SlugOf(q) = SlugOf(p)}
          IN  /\ proc' = [proc EXCEPT ![p].cell = id]
              /\ task' = [task EXCEPT ![p][t].stage = IF id # None THEN "ready" ELSE "made",
                                      ![p][t].made = IF id # None THEN None ELSE Fresh]
              /\ remade' = IF (unread /\ id = None) \/ (others # {} /\ EnvOf(p).id # Given)
                           THEN remade \cup {SlugOf(p)} ELSE remade
    /\ UNCHANGED <<idFile, config, runs, reqs, stored>>

\* fs::write opens the file, which empties it ...
Truncate(p, t) ==
    /\ task[p][t].stage = "made"
    /\ idFile' = [idFile EXCEPT ![SlugOf(p)] = None]
    /\ task' = [task EXCEPT ![p][t].stage = "cut"]
    /\ UNCHANGED <<config, runs, proc, reqs, stored, remade>>

\* ... and fills it.
Fill(p, t) ==
    /\ task[p][t].stage = "cut"
    /\ idFile' = [idFile EXCEPT ![SlugOf(p)] = task[p][t].made]
    /\ proc' = [proc EXCEPT ![p].cell = task[p][t].made]
    /\ task' = [task EXCEPT ![p][t].stage = "ready", ![p][t].made = None]
    /\ UNCHANGED <<config, runs, reqs, stored, remade>>

\* The directory or the file cannot be written: the tool call fails and leaves the
\* cell empty, a command ends with the error.
ResolveFails(p, t) ==
    /\ task[p][t].stage \in Writing
    /\ task' = [task EXCEPT ![p][t] = NoCall]
    /\ proc' = IF Kind(p) = "mcp" THEN proc ELSE [proc EXCEPT ![p].stage = "failed"]
    /\ UNCHANGED <<idFile, config, runs, reqs, stored, remade>>
-----------------------------------------------------------------------------
(* The calls.                                                               *)

Item(p, t) == task[p][t].items[Len(task[p][t].told) + 1]
AllTold(p, t) == Len(task[p][t].told) = Len(task[p][t].items)

\* Seeded fault: an upload ends at the first failure.
FirstFailure(p, t) == AllTold(p, t) \/ "error" \in ToSet(task[p][t].told)

Through(p, t) == AllTold(p, t)

\* A command ends after its last item ...
Return(p) ==
    /\ task[p][First].stage = "ready" /\ Through(p, First)
    /\ proc' = [proc EXCEPT ![p].stage = "done"]
    /\ task' = [task EXCEPT ![p][First].stage = "idle"]
    /\ UNCHANGED <<idFile, config, runs, reqs, stored, remade>>

\* ... and a tool call returns with its only one.
After(p, t, outcome) ==
    IF Kind(p) = "mcp" THEN NoCall
    ELSE [task[p][t] EXCEPT !.stage = "ready", !.told = Append(@, outcome)]

\* do_upload: the path is not absolute, or the file cannot be read.
Unreadable(p, t) ==
    /\ task[p][t].stage = "ready" /\ ~AllTold(p, t)
    /\ ~Item(p, t).readable
    /\ task' = [task EXCEPT ![p][t] = After(p, t, "error")]
    /\ UNCHANGED <<idFile, config, runs, proc, reqs, stored, remade>>

\* HttpClient::post.
Send(p, t) ==
    /\ task[p][t].stage = "ready" /\ ~AllTold(p, t)
    /\ Item(p, t).readable
    /\ reqs' = Append(reqs, [run |-> proc[p].run, task |-> t, op |-> Item(p, t).op,
                             file |-> Item(p, t).file, id |-> proc[p].cell, url |-> proc[p].url,
                             token |-> proc[p].token, answer |-> "none", told |-> "none"])
    /\ task' = [task EXCEPT ![p][t].stage = "sent"]
    /\ UNCHANGED <<idFile, config, runs, proc, stored, remade>>

Writes == {"write", "upload"}
SameMemory(m, n) == /\ reqs[m].url = reqs[n].url /\ reqs[m].id = reqs[n].id
                    /\ reqs[m].file = reqs[n].file

\* The server, whenever it comes to a request: it may fail after it has acted.  What it
\* does with a question its client has given up is no one's business.
Serve(n) ==
    /\ reqs[n].answer = "none"
    /\ reqs[n].op \in Writes \/ reqs[n].told = "none"
    /\ \E answer \in {"ok", "missing", "denied", "failed"}, act \in BOOLEAN :
          /\ (answer = "denied") <=> (reqs[n].token # reqs[n].url)
          /\ answer = "missing" => reqs[n].op \in {"read", "summary"}
          /\ act => reqs[n].op \in Writes /\ answer \in {"ok", "failed"}
          /\ reqs[n].op \in Writes /\ answer = "ok" => act
          /\ LET there == \E m \in stored : SameMemory(m, n)
             IN  reqs[n].op = "read" => /\ answer = "ok" => there
                                        /\ answer = "missing" => ~there
          /\ reqs' = [reqs EXCEPT ![n].answer = answer]
          /\ stored' = IF act THEN {m \in stored : ~SameMemory(m, n)} \cup {n} ELSE stored
    /\ UNCHANGED <<idFile, config, runs, proc, task, remade>>

\* Seeded fault: ensure_ok is left out.
Unchecked(r) == IF r.answer = "denied" THEN "error" ELSE "done"

\* Seeded fault: whatever keeps a question from its answer, there is none.
ErrorIsNothing(r) ==
    IF r.answer = "ok" THEN "done" ELSE IF r.op \in {"read", "summary"} THEN "nothing" ELSE "error"

\* post, ensure_ok and the 404 of read and summary.
Outcome(r) ==
    IF r.answer = "ok" THEN "done"
    ELSE IF r.answer = "missing" /\ r.op \in {"read", "summary"} THEN "nothing" ELSE "error"

\* The call that waits for request n, with the outcome it is told.
Tell(p, t, n, outcome) ==
    /\ task[p][t].stage = "sent"
    /\ reqs[n].run = proc[p].run /\ reqs[n].task = t /\ reqs[n].told = "none"
    /\ reqs' = [reqs EXCEPT ![n].told = outcome]
    /\ task' = [task EXCEPT ![p][t] = After(p, t, outcome)]
    /\ UNCHANGED <<idFile, config, runs, proc, stored, remade>>

Hear(p, t, n) == reqs[n].answer # "none" /\ Tell(p, t, n, Outcome(reqs[n]))

\* Seeded fault: only a connection is limited in time, a request is not.
ConnectOnly(p, t, n) == reqs[n].answer # "none" /\ Tell(p, t, n, "error")

\* Unreachable, or REQUEST_TIMEOUT, which also ends the reading of an answer.
GiveUp(p, t, n) == Tell(p, t, n, "error")

ProcStep(p) ==
    \/ Start(p) \/ Load(p) \/ Return(p) \/ Kill(p) \/ SaveTruncates(p) \/ SaveWrites(p)
    \/ \E t \in Tasks[p] :
          \/ Call(p, t) \/ Resolve(p, t) \/ Truncate(p, t) \/ Fill(p, t) \/ ResolveFails(p, t)
          \/ Unreadable(p, t) \/ Send(p, t)
          \/ \E n \in DOMAIN reqs : Hear(p, t, n) \/ GiveUp(p, t, n)

Next ==
    \/ \E p \in Procs : ProcStep(p)
    \/ \E n \in DOMAIN reqs : Serve(n)

\* What a process goes on with by itself.
Works(p) ==
    \/ Load(p) \/ Return(p)
    \/ \E t \in Tasks[p] :
          \/ Truncate(p, t) \/ Fill(p, t) \/ Unreadable(p, t) \/ Send(p, t)
          \/ \E n \in DOMAIN reqs : GiveUp(p, t, n)

\* The executor runs what is ready and its timers, and those that wait for the cell get
\* it in turn (the semaphore of a OnceCell is fair); the server owes nothing.
Fairness == \A p \in Procs : WF_vars(Works(p)) /\ \A t \in Tasks[p] : SF_vars(Resolve(p, t))

Spec == Init /\ [][Next]_vars /\ Fairness
-----------------------------------------------------------------------------
(* Properties.                                                              *)

Ids == Nat \cup {Given}
Calls == [stage : {"idle", "asked", "made", "cut", "ready", "sent"},
          items : Seq(Items), told : Seq({"done", "nothing", "error"}), made : Nat]

\* The types, and what the rest relies on: a process that is up has a URL and a token,
\* and a task that sends has its process' id (config.rs, server.rs).
TypeOK ==
    /\ idFile \in [Slugs -> Nat]
    /\ config \in Sources
    /\ \A p \in Procs :
          /\ proc[p].cell \in Ids
          /\ \A t \in Tasks[p] :
                /\ task[p][t] \in Calls
                /\ Len(task[p][t].told) <= Len(task[p][t].items)
                /\ task[p][t].stage \in {"ready", "sent"} => proc[p].cell # None
          /\ proc[p].stage = "up" => proc[p].url # None /\ proc[p].token # None
    /\ stored \subseteq DOMAIN reqs /\ remade \subseteq Slugs

NameOf(n) == runs[reqs[n].run].name
Chosen(n) == runs[reqs[n].run].env.id = Given

\* Whatever becomes of the identity file beside it, a process bears one agent id in all
\* its requests (server.rs:153).  Across restarts, kills and commands that fail half-way
\* through the file, so do the clients of one slug (mcp-server-design.md:32), unless two of
\* them made one at the same time, or one of them could not read the file and overwrote
\* it; and agents whose names differ in their ASCII letters and digits never share one,
\* those that have none apart, which are all the default client.
OneIdentity ==
    \A m, n \in DOMAIN reqs :
        LET s == SlugFor[NameOf(m)] IN
        /\ reqs[m].run = reqs[n].run => reqs[m].id = reqs[n].id
        /\ ~Chosen(m) /\ ~Chosen(n) =>
              /\ s = SlugFor[NameOf(n)] /\ s \notin remade => reqs[m].id = reqs[n].id
              /\ LET a == Spelled(NameOf(m))
                     b == Spelled(NameOf(n))
                 IN  a # <<>> /\ b # <<>> /\ a # b => reqs[m].id # reqs[n].id

\* "Saved memory" is said only of content the server holds, or held until another write
\* of that memory (do_write, do_upload).
SavedIsStored ==
    \A n \in DOMAIN reqs :
        reqs[n].op \in Writes /\ reqs[n].told = "done" =>
            \E m \in stored : SameMemory(m, n) /\ (m = n \/ reqs[n].answer = "ok")

\* A tool call that follows one that saved a memory finds that memory, however the calls,
\* the identity file and the answers given up interleave (do_read).
SavedIsFound ==
    \A m, n \in DOMAIN reqs :
        /\ m < n /\ reqs[m].run = reqs[n].run /\ reqs[m].task = reqs[n].task
        /\ reqs[m].op \in Writes /\ reqs[m].told = "done"
        /\ reqs[n].op = "read" /\ reqs[n].file = reqs[m].file
        => reqs[n].told # "nothing"

\* An upload command that ends by itself has, for each of its items, either a write the
\* server accepted or a failure to report; one failure stops no other item (cli.rs:70-93).
NoItemSkipped ==
    \A p \in Procs :
        proc[p].stage = "done" /\ Kind(p) = "upload" =>
            \A i \in DOMAIN task[p][First].items :
                \/ i \in DOMAIN task[p][First].told /\ task[p][First].told[i] = "error"
                \/ \E n \in DOMAIN reqs : /\ reqs[n].run = proc[p].run /\ reqs[n].answer = "ok"
                                          /\ reqs[n].file = task[p][First].items[i].file

\* What the agent and its hooks are told is so: no answer of success, of absence, or of
\* nothing at all hides a memory that was not stored or that is there.
ToldIsTrue == SavedIsStored /\ SavedIsFound /\ NoItemSkipped

\* A command whose environment names neither URL nor token sends the token of config.toml
\* to no server but the one it was saved with, also while the file is being rewritten or
\* cannot be read (run_config beside Config::from_file).  With MEMORYHUB_URL alone set the
\* token of the file goes there.
TokensStayHome ==
    \A n \in DOMAIN reqs :
        LET env == runs[reqs[n].run].env
        IN  env.url = None /\ env.token = None => reqs[n].url = reqs[n].token

Busy(p, t) == task[p][t].stage # "idle"

\* Every call ends, whether the server answers or not: a hung server cannot stall the
\* session of the agent (client.rs:13-14).
CallsEnd == \A p \in Procs : \A t \in Tasks[p] : Busy(p, t) ~> ~Busy(p, t)
=============================================================================
