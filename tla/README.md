# MemoryHub in TLA+

MemoryHub collects the memories that AI agents write, keeps them as Markdown
files with a SQLite search index beside them, and lets a language model fold
them into summaries. This directory models the parts of it in which steps
interleave, fail or happen in an order nobody chose, checks them with TLC on
small instances, and proves the central results with TLAPS for instances of any
size. Paths below are relative to `src/memoryhub/src/` unless they start with
`src/`.

1. [The system](#1-the-system): its parts, their state, how they interact
2. [The modules](#2-the-modules): which module models what, and how
3. [The runs](#3-the-runs): what each checks, the bounds, the fairness
4. [The proofs](#4-the-proofs): what holds for every value of the constants
5. [What the repository says and the code does not do](#5-what-the-repository-says-and-the-code-does-not-do)
6. [Assumptions](#6-assumptions) and [what is not modelled](#7-what-is-not-modelled)
7. [Plan](#8-plan)

## 1. The system

One process, on the actor framework acktor over Tokio. An actor handles one
message at a time; `send` waits for the answer, `do_send` only for room in the
mailbox. The `MemoryHub` supervisor starts the LLM service, the memory manager
and the HTTP server, in this order, and stops them in reverse.

| Component | State | Operations | Talks to |
| --- | --- | --- | --- |
| `FileOp` (`memory/file_op.rs`) | none; one short-lived actor per request | write, read, delete | Embedder, Indexer, Storage, Synthesizer |
| `MemoryManager` (`memory/manager.rs`) | its three children | dispatches requests, serves `GetSummary`, stops its children one by one | everything below it |
| `Storage` (`memory/storage.rs`) | files under the data folder; temp files | write to a temp file and rename, read, remove | the file system |
| `Indexer` (`memory/indexer.rs`) | tables `files`, `chunks`, `chunks_vec`, `chunks_fts`, `meta` | insert, delete, search, is-empty, reopen | SQLite with sqlite-vec |
| `SearchOp` (`memory/search_op.rs`) | none; one per search | is-empty, embed the query, search | Indexer, Embedder |
| `chunk_text` (`memory/chunking.rs`) | local | cuts a text into windows of lines | – |
| `Synthesizer` (`memory/synthesizer.rs`) | `changed_files`, `timer_armed` | batches changes, cools down, folds three tiers | Storage, LLM service, Embedder, Indexer |
| paths (`memory/path.rs`) | the summary folders | the latest summary, roll-over by date and size | the file system |
| `LlmService`, `SynthesisTask` (`llm.rs`, `llm/synthesis.rs`) | routes; per target a conversation | routes, starts, forgets tasks; seeds, rolls back, resets a conversation | the provider |
| `Embedder`, providers (`llm/`) | configuration | retries, validates | HTTP APIs |
| `AuthStore`, middleware, admin routes (`http/`) | users, tokens, the root token | authenticates, admits, manages users and tokens | SQLite |
| `HttpServer` (`http.rs`, `http/router.rs`) | the task that accepts connections | translates requests, limits their time | memory manager, auth store |
| `MemoryHub`, `main` (`supervisor.rs`, `main.rs`) | its three children | creates them, hears of their end, terminates them | every actor below it |
| MCP client (`src/memoryhub-mcp`) | `config.toml`; an identity file for each client name; the id a server process has resolved | tool calls; the commands upload, recall, check, config | the HTTP server |
| plugins (`src/plugins`) | none | start commands of the MCP client | MCP client |

A write goes HTTP → manager → a new `FileOp`, which embeds the chunks, replaces
the rows in the index, stores the file and tells the Synthesizer. A delete
removes the rows, then the file, then tells it. A search embeds the query and
asks the Indexer. The Synthesizer starts a timer at the first change of a batch;
when it fires, the changes are read, folded by the model into the summary of
each agent concerned, these into those of their users, and these into the global
one; each summary is stored and indexed like a memory.

What is hard about it:

- *Two stores, no transaction.* File and index are written by separate messages,
  in between which other `FileOp`s on the same path run, Storage or Indexer
  fail, the manager stops, or the process dies.
- *State in memory that stands for work to do.* The pending changes of the
  Synthesizer, its timer and flag, the notifications queued in its mailbox.
- *Several failures, several meanings.* A failing group must not take others
  along; what a failure drops must be exactly what was concerned.
- *Tasks that end themselves.* The service learns late that a task it routes to
  is gone, possibly after it has started the next one.
- *A conversation and a file that must tell the same story* over idle ends,
  resets, failed calls and restarts.
- *Decisions made in one call of the auth store and used in another*, with
  requests between them, and blocking calls that outlive their request.
- *A stop in the middle of everything.* Children are created before they know
  whether they can start; connections outlive the loop that accepted them; the
  process leaves after a limit whatever still runs.
- *Files shared by processes that know nothing of each other*: the identity and
  the configuration of an agent, written in place by servers and short commands
  that may be killed; and, within one process, temp files shared by several names.
- *Answers that come late, in another order, or not at all*, from the HTTP APIs and
  from MemoryHub to its clients.
- *k before the filter.* sqlite-vec takes the k nearest rows before the scope of
  a search is applied.

The correctness properties of each component are stated in its module; the
hazards, each with its line and its properties, are listed under `hazards` in
`PROJECT.json`.

## 2. The modules

| Module | Models | Checked by | Proved in |
| --- | --- | --- | --- |
| `MemoryKV` | abstract: what callers are promised about stored files | – | – |
| `FileOps` | write, read, delete pipelines of the memory manager; implements `MemoryKV` | `MCFileOps` | `FileOpsProofs` |
| `StorageFiles` | the Storage actor, call by call of the file system; implements `MemoryKV` too | `MCStorageFiles` | `StoresProofs` |
| `Synthesizer` | batching, cool-down, the cascade of three tiers | `MCSynthesizer` | `SynthesizerProofs` |
| `LlmService` | routing to synthesis tasks, their life, their conversations | `MCLlmService` | `LlmServiceProofs` |
| `HttpAuth` | requests, the middleware, the auth store | `MCHttpAuth` | `HttpAuthProofs` |
| `MemoryIndex` | the tables of the index, and a search beside their changes | `MCMemoryIndex` | `StoresProofs` |
| `Chunking` | `chunk_text` | `MCEmbedding` | `EmbeddingProofs` |
| `Provider` | the providers of the two roles, `retry`, the checks of embeddings | `MCEmbedding` | `EmbeddingProofs` |
| `Embedding` | the composition of the two: chunks, their vectors, and what the index is given | `MCEmbedding` | `EmbeddingProofs` |
| `Supervisor` | the life of the process and of the requests in it | `MCSupervisor` | `ProcessProofs` |
| `McpClient` | processes of the MCP client over shared files and a slow server | `MCMcpClient` | `ProcessProofs` |
| `SynthesisFiles` | the folder of a target's summaries, Storage's write, `GetSummary` | `MCSynthesisFiles` | `SynthesisFilesProofs` |

Conventions: an action is a handler, or the part of one between two awaits at
which others run; a message to an actor that runs alone and answers at once is
one step with its answer. Faults are injected only when the constant `Faults`
names them, so that the runs that refute a statement need no fault; the modules
without this constant (`StorageFiles`, `Embedding`, `McpClient`) have their faults
always. A definition
introduced as a "Seeded fault" is no part of any specification; it is the
variant of the definition behind it that a plausible mistake would make, and
shows that a property can fail. History variables (named as such) are written by
actions and read by no guard.

### MemoryKV and FileOps

`MemoryKV` says what a caller may rely on: each path is an atomic register. A
request takes effect at most once, between its arrival and its answer; an error
means no effect, success means all of it; a read returns what was stored at one
instant of its own execution.

`FileOps` has one slot for each request in flight (`pc`, `req`, `reply`, `got`),
the files, the index as the content its rows were made from, the children of the
manager that are `alive`, and the paths announced to the Synthesizer. Its
actions are the awaits of `file_op.rs`: `Embed`, `Insert`, `Store`, `Undo` for a
write (`Insert` at once when `chunk_text` makes no chunk), `Unindex`, `Unlink`
for a delete, `Load` for a read, `Notify` at the end. Each has its failure: an
error answer of the child, or a child that is gone, which for the storage step of
a write is another path of the code (the `?` at the send returns past the undo).
`StopChild` is the manager's `post_stop`, one child at a time, while requests
are in flight; `Restart` is a crash, or a start after a stop. `Digest` stands
for the whole Synthesizer: some time later it reads the file. `DigestFails` is the
read that fails: the pending set has been taken by then, the error is a warning, and
the change is forgotten.

Between its index step and its file step a request has its *window* open. The
history variable `alone` says whether another window on the same path overlapped
it, and `health` how file and index relate when none is open: equal, no entry,
or *suspect*. The history variable `unheard` has the paths whose last announcement
was lost with the process or given up by `DigestFails`. `IndexNeverAhead`, `SavedIsSearchable` and `NothingUnheard` state
exactly which events may leave the stores apart and that a later write or delete
which has its path to itself repairs it. `ImplementsKV` is the refinement: with
`file` for the registers and `notify` for "applied", the pipelines are
`MemoryKV`, although they touch two stores and can fail half-way.

### StorageFiles

A memory is named by its project, the characters of its stem and its extension.
`RawPath` and `SummaryPath` are `get_raw_path` and `synthesis_folder`: a reserved
project, or one with a separator, is refused before Storage hears of it (`.` and `..`
are not), and the separators in a file name become underscores, so that several names
are one file.
Storage takes messages in their order, one at a time (`Take`), and a write is
`Open`, `Fill`, `Rename`: the temp file bears the stem only and is shared by all
extensions, and a failed or interrupted write leaves it, half-written, for the
next. `Crash` ends the process between any two calls. `ImplementsKV` is the
refinement: for every name that is no temp file (`Kept`) Storage is the register of
`MemoryKV`. A memory with the extension `tmp` is its own temp file and that of its
namesakes; requests for one (`Foreign`) are served like any other, and the refinement
shows that they do not disturb the registers. So the step "storage answers" of
`FileOps`, which is atomic there, is justified here for all names but those.

### Synthesizer

`level[0]` is the raw files, `level[k][f]` what the stored summaries of tier k
reflect of file f. `Change` and `Announce` are a `FileOp`'s file step and its
`do_send`, with other steps between; the mailbox is bounded. `TakeChange` and
`TakeTick` are the two handlers; `Elapse` and `Fire` are the spawned sleep. The
handler of the tick runs `process()` to the end, so while `tier > 0` the mailbox
only fills. A pass is `Begin` for each group in any order, its reads (one message
for each raw file, so a file may change between two), the model, the write of the
summary and its indexing, each of which may fail, and `NextTier`. What a failure
drops goes to the history variable `lost`, until a later batch folds the file
again. The failure nobody is told of is a listing that fails, in `path.rs`: the folder
counts as empty or as shorter than it is. `ReadSummariesBlindly` passes groups over
or reads an older summary of theirs, `Ask` takes an older prior summary or none, and
`SaveBehind` writes to a file behind the newest, which then goes on to be read.
`misread` has the files a group works on with such a text; they join `lost` when
the summary is stored. What an older summary has of a file is any content (`Earlier`),
as it may be anything the file has had. `EmptyReply` and `IndexFails` are the two failures that differ: the
first stores nothing and yet counts as a change for the tier above, the second
has stored the summary and keeps it from the tier above.

`PendingIsTimed` relates flag, timer and queued ticks; `TiersAgree` says a file
is reflected, on its way, or lost; `Settles` is the liveness property.

### LlmService

`tasks` is the route of each target, `mailbox` that of the service, `phase`,
`owner`, `history`, `restore`, `attempt` belong to an incarnation of a task,
`disk` is the summary the Synthesizer has stored and `written` every text it put in
the folder. A text is the revision of every
document it covers; the model's reply covers what the conversation mentions, the
later mention winning. So a forgotten document shows as a summary that goes back
to an older revision (`NothingForgotten`). The call goes through `Route` or
`Spawn` (the service), `Forward` (the future that sends to the task outside the
service), `Start`, `Retry`, `ChatFails`, `Chat` (the task) and `Save` or `GiveUp`
(the Synthesizer). `Terminate` is the idle check of the task between messages,
which may find a call queued; `Notice` the watcher; `Forget` its message, which
removes the route of its target whatever that leads to. The prior summary of a call is `disk`,
or, when the listing of its folder fails, any text of `written` or none (`Priors`), and
then a conversation may begin without the stored summary. The history variable
`blind` has the targets of which that is so, until a reply is stored and becomes what
the conversation knows; `NothingForgotten` excepts them. `SaveBehind` is a listing that
fails when the reply is stored. `Chat` may clear the
history afterwards: when depends on lengths, which are not modelled, so it may at
any time and must at `MaxTurns`.

### HttpAuth

`role` and `tokens` are the two tables, `req` the requests under way, with the
secret, the operation and, once authenticated, the principal. A request with the
root secret asks `has_admin` (`HonorRoot`, `IgnoreRoot`) and then perhaps looks
the secret up (`Resolve`, `Refuse`); the extractor of the route admits it or
not; the handler makes one call of the store. Each call is one step under the
mutex, and anything may happen between two. `Abandon` is the time limit or a
client that hangs up: the request is gone, but a call handed to `spawn_blocking`
still runs (`orphan`). User names can be used again, so users and tokens carry
a birth number as history, and `stoodFor` collects whom a secret stood for while
its request was on its way.

### MemoryIndex

`chunks` and `vec` hold for each path the points of its rows; the keyword table
is kept by triggers and read by no query, and is left out. `table` is the
dimension `chunks_vec` was created with and `meta` the recorded one: they are
committed separately, so `RecordFails` leaves one without the other, and
`Reopen`, perhaps with another model, creates the table from the record. A search
is `CheckEmpty`, `Embedded`, `Query` and `Reply`, with inserts and deletes in
between. Embeddings are points on a line, the KNN query of sqlite-vec is any set
of k rows to which no other row is nearer (ties go either way), and `Answers`
merges, filters, sorts and cuts as `do_search` does. A vector of zeros (`Degenerate`)
has no distance: sqlite-vec answers NULL for it, at any place among its k rows, and
`Merged` drops it. In an index that has one the order of the others is not relied on
(`Regular`). The owner of a path is compared as `LIKE` compares, without regard to case
(`Folded`), although `Bob` and `bob` are two users; see section 5.

### Chunking

The function as a loop: the three ways out at its top, then one `Window` for each
pass. Of a text only the number of its lines and whether all are blank matter.
`chunk_size` and `chunk_overlap` come from a configuration file nobody
validates, so a size of zero and an overlap beyond the size are inputs like any
other. With a size of zero each line gets a chunk of its own that is empty
(`EmptyForZero`), so that nothing of the text is found by it; the other parts of
`ChunksFit` are about sizes above zero.

### Provider and Embedding

`Provider` is one call, from the construction of the provider to the answer. `Built`
is `build_providers` for every pair of vendors and every set of keys: one instance
for both roles where the vendor serves both, built from the key and the URL of the chat
role, and an error where a key is unset or a vendor unknown. `Send` is an attempt of `retry`; `NoAnswer`, `BadBody`, `Chatted`,
`Embedded` are what can come of it, and `Retried` says which of these is tried
again. A response holds the vectors in any order with their positions, or
without positions in the order of the texts; one of them may be flawed. `Sort`
and `Validate` follow.

`Embedding` runs `chunk_text` first and then one call, an embedding of the chunks or
a chat, and pairs the chunks with the vectors by position as `FileOp` does.
`LinesAreFound` is about the whole way: every line of the text ends up in a row of
the index, with the vector of the text of that row, and all vectors are of one
dimension. `EverythingEnds` and `AttemptsAreSound` bound the attempts from both sides;
`AttemptsAreSound` also says of each to whose URL it goes with whose key (`vendors`
remembers what was configured): those of the role, and those of the chat role where the
instance is shared.

### Supervisor

`child` is the life of the hub's three children, `parts` the manager's own, `inbox`
the events and signals the hub has not read, `hub` and `main` where these two
are. `Create` makes a child at a time; whether it can start shows only later, beside
the others (`Started`, `StartFails`). `Stop` reads any event; `Terminate`, in the
reverse order and each after the end of the one before (`Turn`), `StopPart` in the
order of the manager's `post_stop`, `Stopped`. The manager's parts are tasks of their
own: one that panics, or whose start fails half-way (`Begun`), leaves them behind, and
such a part goes on until nobody has its address (`OrphanEnds`). The accept loop is
told to end (`ServingThen`) and ends later (`AcceptEnds`). `LeaveAtLimit` may happen at
any point after ctrl-c: time is not counted, five seconds may be over before anything
else has happened. When `main` has returned the runtime drops the tasks and waits for
the calls that are on a blocking thread (`blocking`) before the process is gone
(`Exit`). A request goes from `Arrive`, over the accept loop or a kept
connection, through the manager's mailbox to a `FileOp` that needs the index and
then storage, and may meet a child that is gone at each step.

### McpClient

Two slots hold processes: a server whose tool calls run as tasks side by side, and
commands, one after another; each may be killed at any step and another be started.
`Load` reads the environment, then `config.toml` for what is missing there; a file that
cannot be read gives nothing. `run_config` writes that file in place (`SaveTruncates`,
`SaveWrites`) with what the user has entered, either of which may be empty. The agent's
id comes from the environment or from the identity file of the slug of the client's
name: `Resolve` reads it, and if it has none or cannot be read (`ReadFails`), `Truncate`
and `Fill` write a fresh one, with any step of other processes between. The history
variable `remade` has the slugs for which an id was made beside another or over one that
could not be read. Within a server a `OnceCell` lets one task
at a time resolve (`MayResolve`). `Send` makes a request; `Serve` is the MemoryHub
server, which may act on it at any time, also when its client has given up
(`GiveUp`) or is dead; `Hear` and `Outcome` are the client's reading of the answer.
`Slug` is computed from the characters of the name, as two names must not collapse
into one by accident: the last part of `OneIdentity` compares what names spell in the
letters and digits of ASCII (`Spelled`), and leaves out the names without any of these,
which are all the default client. Memories, calls and processes come from the constants `Files`, `Tools`,
`Batches` and `Starts`.

### SynthesisFiles

File names are a day and a suffix. `Pick` is `current_synthesis_path`, `Open`,
`Write`, `Rename` are Storage's `StorageWrite`, each of which may fail and leave
the temp file. `GetLatest` and `ReadLatest` are `GetSummary`, which lists the
folder itself and then asks Storage. A listing may fail, or stop half-way, in
which case the code takes what it has seen for all there is; and the clock may
be set back. The history variable `astray` says that the summary stored last was
placed by such a run, and the properties say what still holds then.

## 3. The runs

Ten runs pass; two refute a statement of the repository (section 5).

| Run | Instance | Distinct states | What it shows |
| --- | --- | --- | --- |
| `FileOps` | three requests, one path, a text and a blank one, every fault | 850 000 | how file, index, announcements and the abstract registers relate under every interleaving |
| `StorageFiles` | two requests; four names of three files in the folder `..`: two memories that share a temp file, and that temp file; two refused names; a summary; two contents (symmetry) | 635 000 | Storage is a set of atomic registers, whatever is asked of temp files |
| `Synthesizer` | two files of two agents of two users, three changes, cool-down 2, mailbox of 2, every fault | 132 000 | nothing is missed but what a failure drops, one tick for each pending batch, and the summaries converge |
| `LlmService` | one target, two task slots, two documents, three calls, two attempts, five turns, every fault | 103 000 | no call hangs, no dead route stays, no turn dangles, no summary forgets what its conversation was told |
| `HttpAuth` | two requests at a time, two names, one token, two births, two instants, every fault | 1 300 000 | tokens, principals, root and the last admin under overlapping requests |
| `MemoryIndex` | a memory and a summary of users whose names differ in case, two chunks each, three points and one without distances, two dimensions, queries of two embeddings, two results, every fault | 525 000 | the tables agree; which searches are exact, which only best |
| `Embedding` | up to 11 lines, sizes 0 to 5, overlaps 0 to 6; calls of up to three texts, limits of 0 and 2 attempts, with and without a pinned dimension, every pair of vendors and set of keys | 269 000 | coverage, progress, overlap; the right vector for each chunk, one space, keys at home, bounded repeats, termination |
| `Supervisor` | two requests, every fault, a manager that leaves its parts behind, a call on a blocking thread | 104 000 | the order of the stop, what is answered and cut, and that the process ends |
| `McpClient` | a server with two tasks, commands beside it, two client names of one slug and another, one memory, two setups, two process starts, two requests, reads and writes of the shared files that fail | 209 000 | one identity, truthful answers, no item skipped, tokens at home, every call ends |
| `SynthesisFiles` | four replies, three days, three suffixes, every fault | 1 060 000 | the latest file is the newest text and older files stay |

Why the bounds suffice. *FileOps*: two requests are the least that overlap;
the third lets a further request meet the state two rivals left behind, and slots
are reused without end. Distinct paths share nothing in `FileOps` except the order
of stopping, so one is enough; the proofs cover any number of both. The blank
content is there because it takes another way through the pipeline.
*Synthesizer*: two files in groups of their own on the two lower tiers that meet
on the third; three changes allow a first batch, a change while a second one is
read, asked about or written, and so a summary that has an earlier version to be
mistaken for it. A mailbox of two is full
when a tick and a notification wait in it. *LlmService*: three calls are one that
starts the conversation, one that fails, is not stored or comes after a reset or an
idle end, and one that would show what was forgotten; two slots let a new task
start while the notice of the old one waits. *HttpAuth*: every decision relates a
request to one other that changes the store under it, or two deletions to each
other; two names are the least for "the last admin". With two births a name is
used twice, and two instants let a token expire between its check and another.
*MemoryIndex*: two chunks in each path let a replacement grow, shrink and empty a
file, and four rows are twice the limit, so both the limit and k cut something
off; of four points one has no distances, and takes places among the k. *SynthesisFiles*: three suffixes allow two roll-overs in a day, three days a
roll-over by date forwards and backwards, and the fourth reply comes after a
failed one. *StorageFiles*: Storage handles one message at a time, so a second
request waits, is overtaken by a crash or finds the temp file the first has left,
and may name that file itself; two contents tell an old text from a new one. *Embedding*: with size 5 eleven lines
make up to eleven chunks, and every relation of size and overlap occurs; three
texts are the least that can be rotated as well as swapped, and two attempts the
least of which one is repeated. *Supervisor*: requests do not act on each other; two are
one on its way and one that keeps a connection open. *McpClient*: two processes
are what it takes to race for a file; two tool calls race within one of them; two
requests of a task are a write and the read that follows it, of one memory, as
different memories do not meet in the client; and a command without an environment
of its own, which depends on the configuration, is in either slot. In `MemoryIndex`, a search beside the changes is one of any number,
because searches change nothing.

Where a bound is a guard of the module it is a constant with "bound" in its
comment (`MaxChanges`, `Capacity`, `MaxTurns`, `MaxCalls`, `MaxNow`, `MaxBirths`,
`MaxPoint`, `MaxChunks`, `MaxEmbeddings`, `MaxSuffix`, `MaxTexts`, `MaxRuns`,
`MaxRequests`). `Capacity` is
also real: mailboxes are bounded.

Symmetry: the requests of `FileOps`, the names and the slots of `HttpAuth` are
interchangeable, no definition picks one of them, and these two runs check
safety properties only.

Deadlock is checked for `FileOps`, `HttpAuth` and `MemoryIndex`, which can
always go on. `Synthesizer`, `LlmService`, `SynthesisFiles` and `McpClient` stop
when the changes, calls, replies or processes are used up, `Embedding` when the call
has been answered, and `Supervisor` when the process has ended. `StorageFiles` is
never stuck for want of a crash, so its check for deadlock shows little.

Fairness. `Synthesizer`: the actor handles what is in its mailbox and its handler
runs on (`WF Handle`); the spawned task sleeps, sends and ends (`WF Elapse`,
`WF Fire`); a `FileOp` waiting for room in the mailbox gets it in turn, since the
channel queues its senders, so that it needs strong fairness, as others may fill the room
(`SF Announce`). Nothing obliges anybody to change a file, nor a fault
to happen. `LlmService`: the Synthesizer goes on once it has its answer (`WF
Caller`), the service handles its messages (`WF Service`), futures and watchers
run (`WF Forward`, `WF Notice`), and a handler runs on, because a provider call ends
with an answer, an error or its timeout (`WF Handler`). No fairness is assumed for
`Terminate`: a task may never end. `Embedding`: sequential code runs on (`WF
Chunked`), and each attempt ends with an answer, an error or the timeout of the HTTP
client, after which `retry` goes on (`WF Call`). `Supervisor`: the hub, `main` and
their timers go on, and the time limit of a request expires; nothing is said of the
children, which may be at a call that takes minutes. `ProcessEnds` assumes more in its
own statements. Both parts need that a call on a blocking thread ends (`WF Unblock`),
because the runtime waits for it when `main` has returned. The part about the death of a
child also needs that children that start or stop get there (`WF ChildWork`), since
`main` has no limit on that path. `McpClient`: a process goes on with what is ready, which
includes the client's time limit (`WF Works`), and the tasks that wait for the
`OnceCell` get it in turn, as its semaphore is fair (`SF Resolve`); the server
owes nobody an answer, and hooks need not finish.
The other modules state no liveness.

What each property means is said in a comment before it. Several are conjunctions
of parts about one question (`ChunksFit`, `ToldIsTrue`, `OneIdentity`, `ProcessEnds`
and others); the parts are defined beside them with comments of their own. Each property of a
passing run has a mutant in `PROJECT.json`: a definition of the module replaced
by its seeded fault, with which TLC finds that property violated in the same
run.

## 4. The proofs

Each theorem is about the specification of its module, for every value of the
constants that satisfies the module's assumptions: any number of requests, paths,
targets, documents, names, tokens, and any set of faults.

| Module | Theorems |
| --- | --- |
| `FileOpsProofs` | `TypeCorrect`, `StoresAlwaysAgree`, `NeverAhead`, `AlwaysSearchable`, `AllHeard`, `Refinement` |
| `LlmServiceProofs` | `Routing`, `TypeCorrect`, `AlwaysRouted`, `Histories`, `NoTurnDangles`, `NeverForgets` |
| `HttpAuthProofs` | `Authentic`, `TypeCorrect`, `OwnersRemain`, `RunsAuthentic`, `AdminStays`, `ChangesAdmitted` |
| `StoresProofs` | `StorageFiles`: `MailboxOrder`, `TypeCorrect`, `Refinement`; `MemoryIndex`: `IndexTypeCorrect`, `TablesAlwaysAgree`, `SearchesAlwaysRight` |
| `SynthesizerProofs` | `TypeCorrect`, `AlwaysTimed`, `NothingMissed` |
| `SynthesisFilesProofs` | `TypeCorrect`, `LatestAlwaysNewest`, `OldFilesAlwaysStay`, `AlwaysReadsWholeAndNew` |
| `EmbeddingProofs` | `Chunking`: `LoopInvariant`, `TypeCorrect`, `AllLinesCovered`, `AlwaysAdvance`, `AlwaysOverlap`, `AlwaysFit`; `Embedding` with `Provider`: `EmbeddingInvariant`, `EmbeddingTypeCorrect`, `LinesAlwaysFound`, `AttemptsAlwaysSound`, `EmbeddedChunksFit` |
| `ProcessProofs` | `Supervisor`: `HubTypeCorrect`, `DependenciesAlwaysOutlive`, `OkAlwaysMeansBoth`; `McpClient`: `McpTypeCorrect`, `IdentityAlwaysOne`, `ToldAlwaysTrue`, `TokensAlwaysStay` |

**FileOps.** `IndexNeverAhead` and `SavedIsSearchable` speak of paths without an
open window, so they say nothing of the step before one closes. `StoresAgree`
adds it: a request alone in its window has already made the index what it is
about to make the file, or is about to make it empty again; one that is not alone
has its path marked suspect. Opening, closing and abandoning a window are lemmas,
and each action is one of them or leaves windows alone. `PersistentIndex` may be
false here, which no run has. `Refinement` needs only types and the fit of step
and request: every failure is a failed call of `MemoryKV`, `Store` and `Unlink`
its `Apply`, `Notify` its `Succeed`, `Restart` its `Halt`, and everything else a
stutter.

**LlmService.** That a late notice does not cut off a successor follows from
`RoutingInv`: a task keeps its route until its notice has been handled
(`Held`), and a notice in the mailbox is the only one of its target, whose route
leads to a task that is gone (`NoticesFit`). `tasks.remove` needs no comparison
because nothing can take the place of the route before. `CallFits` ties the one
call to its message or to the task that has it.

`HistoryInv` carries `NothingForgotten`: no conversation tells an older revision
of a document than the stored summary of its target (`Newer`). An empty
conversation is seeded with it, a failed call falls back to a prefix that had the
property, and a reply, which covers what the conversation tells, is at least as
new as the summary it replaces (`ReplyFits`), also when it is never stored,
because then the conversation is newer than the disk, never older. Of a target in
`blind` less is claimed: its conversation is measured against nothing (`Base`) until
a reply has been stored, which its own conversation cannot be older than.

**HttpAuth.** `AuthInv` is the conjunction of the properties and `RunsAdmitted`.
They need each other: a lookup by name finds the user the secret stands for only
because a token's owner is still the user it was minted for, and what changes the
tables was admitted, as root or an admin that its secret stood for. That root
gives way only to an admin needs `AdminRemains`, which is an action property and
is proved for each step from the guard of `delete_user`.

**Chunking.** `ChunkingInv` is about neighbours: each chunk begins `Step` lines
after the one before and is full unless it is the last, `start` is one such step
further, and the lines before `start` are covered. The lines between the end of
a window and the next `start` leave no gap because `Step <= size`. With a size of
zero a window is empty and the step is one line (`ZeroFits`).

**StorageFiles.** The refinement needs that the file being renamed holds what the
write it belongs to put there, although other names share it and leave their own
remains in it. `StorageInv` gets it from two facts: one request is at work at a time,
and the request at the head of the mailbox is there once (`Mailbox`), so that it is
not at work already. `TempApart` says that no register is a temp file, `OwnTemp` that
a memory which is one is its own, so that its rename does nothing. A slot whose request
is for a temp file shows the abstract machine an idle slot from its arrival to its end
(`Unseen`); for this the invariant says that an idle slot has nothing left of its last
request.

**Synthesizer.** `PendingIsTimed` is inductive with the types: a tick in the mailbox
and a sleeping timer exclude each other, so the tick that is taken is the only one,
and the flag may be cleared with it. `TypeInv` adds that a pass leaves nothing in a
tier behind it (`FeedFits`). `TiersAgree` needs to know what a group is about to
store (`FoldInv`): its sources are files that are due, as they are now, or changed
since and on their way again (`DraftFits`); what is due and no source has no
summary below (`DraftWhole`), which by `StoredBelow` has then nothing to tell;
what the prior summary has of the other files of the group is what the stored one
has, or the file is in `misread` (`PriorFits`);
and a group whose summary is stored has nothing due (`SavedIsDone`). The steps of
the notifications, of the tick, of a group's end and of its save are lemmas.

**SynthesisFiles.** Names are in one total order (`BeforeTotal`, `BeforeTransitive`).
`PlacedLast` says that a run that saw the folder writes at its end, so that its rename
makes the newest text the latest. That a folder with files has a last one would take
an induction over finite sets; `NumbersFit` carries it along instead: the rename
names the new last file, as the old one or the file written is last.

**MemoryIndex.** `TablesAgree` is inductive with the types. Inserts and deletes treat
both tables alike; no step takes back a table or a record that is there, only what the
record says changes; and an insert with chunks has both before it adds a row.

`SearchesAreRight` is an action property, and needs no more than that: what answers
is a query of tables that agree (`StepAnswers`). The rest is counting. In a search of
everything (`AllIsBest`), a row left out that were nearer to an embedding than some
row `r` of the answer would have been fetched for it, or else a full `Limit` of
rows nearer still; these all come before `r`, so that the answer would have `r` and
`Limit` others. This, and that a search for one embedding has the nearest rows, is said
of an index without vectors of zeros, since one of them may take the place of a
nearer row; that answers are full and that nothing is lost for which there is room
counts them among the strangers, and holds with them. A query without any distance
finds nothing (`NoneIsBest`). A filter cannot drop more rows than there are strangers, so that
`Limit * Overfetch` rows leave `Limit` of them (`OneIsBest`). And rows for which there
is room are all fetched and all answered (`RoomForAll`). That a set of distances has a
least one comes from the library's theorem on well-founded relations.

**Embedding.** The invariant of a call (`CallInv`) has a part for each of its steps:
the endpoint is that of the role, or of the chat role where both share an instance
(`EndpointFits`), the attempts
are as many as allowed and follow an error that may pass (`AttemptFits`), and vectors
that were sorted are one for each text, in the order of the texts (`VectorsFit`).
The last is the point. The answer of a service may be in any order, and `Sort` puts an
item where as many are before it as have a smaller position, or the same and came
earlier. That this gives each text its own vector is shown by counting (`OrderRank`,
`SortedBy`): of different numbers up to `n` exactly `p[i] - 1` are below `p[i]`. Where
the service leaves the positions out the order stays as it is, which is why a
stable sort matters. `PairsFit` carries the vectors on to the
chunks they are stored with, and `LinesAreFound` follows with the cover that
`ChunkingInv` gives: the composition takes steps of `Chunking` or steps of
`Provider`, and the invariants of both hold along it.

**Supervisor.** `DependenciesOutlive` speaks of children that are gone, and is not
inductive: it does not say that a child which has been told to stop was told after
those that call it had ended. `StopsInOrder` does. `PartsInOrder` is the same for the
manager's children while its `post_stop` runs. Of the parts that a manager has left
behind the index may end before the storage does, but not while a `FileOp` is at work,
which has the addresses of both; `StartsInOrder` says that there are such only once the
manager has started. Together they give `OkMeansBoth`: who has reached the storage
finds the index open.

**McpClient.** An agent's id wanders from the file through a call and the cell of a
process into the requests, and each place may be gone while the others remain. The
invariant says of each what the next one relies on.

- `TypesFit`, `SlotsFit`: which stages of a process and of its calls go together. A
  call that writes an identity is the only one of its process that does, and the
  process has none yet: that is the `OnceCell`.
- `RequestsFit`: a request has the id, the server and the token its process has as
  long as the process is there, and of the requests of one call only the last is open.
  The first part of `OneIdentity` follows.
- `SlugsFit`: of a slug that is not in `remade`, whatever id is in a cell or a request is
  in the file. A call that writes one found none there, so nothing of its slug has one,
  which is what makes the step that writes the file harmless; a second such call, or one
  that could not read the file, puts the slug into `remade`. Steps that bring no new identity are treated at once (`Calm`).
- `IdsApart`: no id belongs to two slugs, wherever it is found: in a file, a cell, a call
  or a request (`Owns`). It is needed for the last part of `OneIdentity`, which holds of
  slugs in `remade` too. A new id is one that nobody has, dead processes and their requests
  included (`Used`).
- `AnswersFit`, `UploadsFit`: what is told agrees with the answer, and the answer with
  what the server holds; an upload that ends has an entry for each item, and an entry
  that is no error has an answered request.
- `ConfigFits`: a URL and a token that come from the file alone were saved
  together, because the file is empty between them.

`NamesAssumption` says of the client names that those which spell differently have
different slugs. This is true of `Slug` for every name, but takes an induction over
its characters, so it is assumed for the names of an instance, and TLC evaluates it,
for all names of up to three of seven characters, one of them outside ASCII.

What no theorem states: every liveness property (`Settles`, `NothingHangs`,
`EverythingEnds`, `ProcessEnds`, `CallsEnd`), as liveness under fairness and ENABLED are out
of the prover's reach, and what depends on induction over data: `NamesAssumption`.
These are model-checked. Every safety property of a passing run is proved. The other way
round, `RootGivesWay` (`RunsAuthentic`) and the types of `StorageFiles` and
`SynthesisFiles` (`TypeCorrect`) are proved and not run.

## 5. What the repository says and the code does not do

| Run | Statement | What happens |
| --- | --- | --- |
| `FileOpsDangling` | `memory/file_op.rs:123`: "search can never point at a file that was never written"; `src/docs/memory-manager-design.md:32` | a delete unindexes, a write of the same path inserts and stores, the delete unlinks: both succeed, and the index points at a file that is gone |
| `HttpAuthBootstrap` | `src/docs/http-server-design.md:66`: create the first admin, then mint it a token | root counts only while there is no admin, so it cannot mint the token, and nobody else can |

Also met while modelling, without a run of their own:

- `memory/config.rs:22` says that the Synthesizer waits "after the last
  `FileChanged`". The timer is armed by the first change of a batch and not
  restarted, so a batch may start right after a change.
- `src/docs/llm-service-design.md:28` says that after an idle end "the next call
  respawns cleanly". The service uses the address it has without asking whether the
  task still runs: a call between the end of a task and the handling of its notice
  goes to a closed mailbox and fails, and the Synthesizer drops the group.
- `memory/indexer.rs:322` says "`All` needs no filtering, so `limit` candidates
  suffice". `raw_only` filters a search of everything too, after sqlite-vec has taken
  the nearest `limit`: it answers with too few memories when summaries are nearer.
- A user's scope is `c.path LIKE '{user}/%'` (`memory/indexer.rs:317-321`, 337). `like_escape`
  (278-284) is there so that a name cannot "match another user's path", but SQLite's
  `LIKE` ignores the case of ASCII letters and no pragma changes that, while users are
  told apart by it (`http/auth.rs:116-119`): a search of `bob` in his own scope is
  answered with the memories of `Bob` too. `Matches` says what the query does, and the
  properties of searches are about the rows that match in this sense.
- A stored vector of zeros is dropped from the answer only after it has taken one of the
  k places (`memory/indexer.rs:350-373`), and so may leave a search of everything with too
  few results or without a nearer row; `AllIsExact` excepts an index that has one.
- `src/memoryhub-mcp/src/identity.rs:4-5` promises one id for each client name. Two
  processes that find no file at the same time each make one and go on with it; the
  later write stays. And every error of the read counts as the absence of the file (54):
  an id that is there and cannot be read is replaced. `OneIdentity` excepts the slugs of
  which either has happened (`remade`). Letters outside ASCII become dashes (13-36), so
  that names which differ only in these share an id. With `MEMORYHUB_AGENT_ID` set for the server alone, its hooks use the
  id of the file: what tools write and what hooks upload belong to two agents.
- A write the client has given up after its time limit may be carried out later, over
  a newer one that was answered: `ToldIsTrue` speaks of what was told at the time.
- Storage writes "atomically" (`src/docs/memory-manager-design.md:46`) all but one kind of
  name: a memory called `x.tmp` is the temp file of `x.md`, is overwritten and
  renamed away by a write of that one, and is written in place by its own.
  `ImplementsKV` speaks of the other names.
- `memory/path.rs:30-31` says what a project may not be; its message promises "a single
  path segment". `.` and `..` pass (36-43): a memory of project `..` is stored beside the
  folders of the user's agents, is one file for all of them, and has a row of the index
  for each agent that wrote it.
- `src/memoryhub-mcp/src/config.rs:71-73` take URL and token one by one from the
  environment or the file: with `MEMORYHUB_URL` alone set, the token saved for another
  server is sent there. `TokensStayHome` is about commands with neither set.
- `src/docs/supervisor-design.md:15` promises a wait with a limit, "so a stuck child
  cannot block process exit". After a child has died the hub stops on a path on which `main` has no
  limit (`main.rs:55`): a child that does not stop keeps the process, and
  `ProcessEnds` has to assume that it does. And where there is a limit (`main.rs:49`) it
  is one of `main`: the runtime that is dropped then still waits for calls on a blocking
  thread, to SQLite or the file system. The exit status is 0 after a death, also
  when a child could not even start.
- The same line, and `supervisor.rs:86-87`, stop the dependents before what they depend on.
  A manager that panics leaves Synthesizer, Storage and Indexer running
  (`memory/manager.rs:115-137`), and the hub, for which it is gone, stops the LLM service
  under them; so it does for a manager whose start failed half-way. `DependenciesOutlive`
  excepts a manager that has ended before its time.
- Nobody checks `chunk_size`: with zero every chunk is empty (`memory/chunking.rs:45-58`),
  the rows of the index have no text, and nothing is found by what it says.
- Connections that are open when the accept loop is aborted bring requests until the
  process ends.
- The twin of the first: when a delete runs inside the window of a write, the
  write stores a file whose rows are gone again: stored and not searchable, with
  success for both (`health` is suspect).
- `supervisor.rs` says of the manager's stop "flush in-flight ops"; `post_stop` terminates
  Synthesizer, Storage and Indexer and neither knows nor awaits the `FileOp`s.
- The vector table and the record of its dimension are separate commits. A crash between
  them and a model of another dimension leave an index that refuses every
  insert; the properties of `MemoryIndex` hold nonetheless.
- `do_search` and `do_ensure_vec_ready` take an error of the query that looks for
  the table, or for the recorded dimension, for its absence: a search is answered
  with nothing, and a record may be replaced. The history field `blind` marks
  such an answer, which the properties of searches except.
- A listing that fails is taken for an empty folder, and the next summary starts
  over in the file `-01` of the day, which it may overwrite; a clock that is set
  back puts it in front of newer files. The next run that sees the folder heals
  what is read, not what was overwritten.

## 6. Assumptions

- acktor: an actor handles one message at a time; a message to an actor that is
  gone fails at once; a terminated actor drops what is queued, and the senders get
  an error.
- acktor: a child whose `post_start` fails is reported to its supervisor as one that
  has ended; the supervisor is known to a child from its creation.
- acktor: an actor without a supervisor that stops it ends once no address of it is left
  (as `memory/manager.rs:101-103` relies on). In `Supervisor` no part of the manager panics
  itself.
- Tokio: a runtime that is dropped waits for blocking calls that have begun. Liveness
  relies on these to end.
- axum and Tokio: aborting the accept loop leaves its connections; a request whose
  client is gone may run on; the semaphore of a `OnceCell` is fair.
- SQLite: a transaction is all or nothing and survives a crash. A rename of a file is
  atomic.
- The language model folds faithfully: its reply covers what the conversation
  says, or nothing. `Synthesizer` takes the same for granted per call.
- `FileOps`: a message to Storage or Indexer with its answer is one step, since
  the answer changes nothing else. `SynthesisFiles` and `StorageFiles` open
  Storage's write up.
- `FileOps`: no memory is called `{stem}.tmp` or is in a project `..` (section 5), so
  that each name is a file of its own; `StorageFiles` has both.
- `Provider`: a service that leaves the positions out answers in the order of the
  texts, and positions are those of the request.
- `McpClient`: `fs::write` of a short text is a truncation and one write; fresh UUIDs
  differ; a MemoryHub server acts on a request once or not at all; who enters a URL and a
  token on saving enters those of one server.
- `Supervisor`: an HTTP request is a write; the others meet fewer children.
- `LlmService`: the Synthesizer is the only caller of `Synthesize` and makes one
  call at a time, which `Synthesizer` shows to be its way of working.
- `SynthesisFiles`: only the Synthesizer writes to the summary folders.
- `HttpAuth`: `auth.db` is persistent; the answer of a request is lost only when
  the request is abandoned. Status codes are not told apart.
- `McpClient`: client names that spell differently have different slugs
  (`NamesAssumption`, section 4); a server's calls and slots are finitely many.
- `MemoryIndex`: the paths are finitely many (`PathsAssumption`); embeddings are as many as chunks, which `validate_embeddings`
  ensures.

## 7. What is not modelled

- Configuration files and flags of the server, templates, the command line: they are
  read once at start and become values, the ones that matter being constants here.
- Bodies and status codes of the HTTP server, the text of requests to the providers
  and of the answers of tools: they translate, and keep no state. Two list routes of
  the admin API only read.
- The plugins, which start one command of the MCP client each and keep no state; in
  `McpClient` they are the environment that starts and kills commands.
- The keyword table of the index, which no query reads, and scores beyond their order.
- The in-memory index in the runs; the proofs about `FileOps` include it.
- The pauses between attempts and the lengths of timeouts: time passes or a limit
  expires at any point.

## 8. Plan

Done, in this order, the most important behaviour first: `FileOps` with its
abstract specification and proofs; `Synthesizer`; `LlmService` and its proofs;
`HttpAuth` and its proofs; `MemoryIndex`; `Chunking` and its proofs;
`SynthesisFiles`; `Provider` and its composition with `Chunking`; `Supervisor`;
`McpClient`; `StorageFiles` as a second implementation of `MemoryKV`, with the proof;
the proofs about `Synthesizer`, `SynthesisFiles` and the tables of `MemoryIndex`; those
about `Embedding`, `Supervisor`, `McpClient` and the searches of `MemoryIndex`, with
which every safety property of the runs is a theorem.

Next, modules: a composition of `FileOps` and `Synthesizer`, in which `Digest` is
replaced by the real passes, so that the abstraction in `FileOps` becomes a
refinement; and an abstract specification of summaries, "each tier eventually
reflects the files", that `Synthesizer` implements.
