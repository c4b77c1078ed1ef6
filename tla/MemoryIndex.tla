---------------------------- MODULE MemoryIndex ----------------------------
(***************************************************************************)
(* The Indexer: the tables of the index, and a search that runs beside the *)
(* inserts and deletes of others.  Each operation of the Indexer holds the *)
(* connection, so it is one step, except that a process may end, or SQLite *)
(* fail, between its statements.                                           *)
(*                                                                         *)
(* A chunk's text and its embedding are a point; the distance of two       *)
(* embeddings is that of the points, but a vector of zeros has no distance *)
(* from anything.  A row of chunks and its row of chunks_vec have the id   *)
(* path#i.  Searches change nothing, so one search at a time is enough to  *)
(* see what any of them can answer.                                        *)
(***************************************************************************)
EXTENDS Integers, Sequences, FiniteSets

CONSTANTS IndexedPaths,
          Owner, Agent,  \* path -> user and agent in it, or NoOne
          Source,        \* path -> "raw", or the tier of a summary
          NoOne,
          Folded,        \* user -> the name with its ASCII letters in lower case
          Me, MyAgent,   \* who searches
          MaxPoint,      \* bound: points are 0..MaxPoint
          Degenerate,    \* the points whose embedding is all zeros
          MaxChunks,     \* bound: chunks of a file
          MaxEmbeddings, \* bound: chunks of a query
          Limit,         \* limit of IndexSearch
          Overfetch,     \* SCOPE_OVERFETCH
          Dims, NoDim,   \* dimensions a provider may answer with
          Faults         \* the faults the environment may inject

FaultKinds == {"sqlite", "llm", "restart"}

ASSUME PathsAssumption == IsFiniteSet(IndexedPaths)
ASSUME NumbersAssumption ==
    /\ MaxPoint \in Nat /\ MaxChunks \in Nat /\ MaxEmbeddings \in Nat
    /\ Limit \in Nat \ {0} /\ Overfetch \in Nat \ {0}
ASSUME DimsAssumption == Dims # {} /\ NoDim \notin Dims
ASSUME FaultsAssumption == Faults \subseteq FaultKinds

VARIABLES files,   \* files: the paths that have a row
          chunks,  \* chunks: path -> the points of its rows
          vec,     \* chunks_vec: path -> the points of its rows
          table,   \* the dimension chunks_vec was created with, NoDim before
          meta,    \* embedding_dim in meta, or NoDim
          dim,     \* the dimension the provider answers with
          search,  \* the search under way
          stayed   \* history: paths that had chunks ever since it began

tables == <<files, chunks, vec>>
indexVars == <<tables, table, meta, dim, search, stayed>>

Points == 0..MaxPoint
Texts == UNION {[1..n -> Points] : n \in 0..MaxChunks}
Scopes == {"all", "user", "agent"}

Stages == {"idle", "check", "embed", "query", "done", "failed"}
Idle == [stage |-> "idle", scope |-> "all", raw |-> FALSE, embeddings |-> {}, result |-> {},
         blind |-> FALSE]  \* history: the vector table was there and was not found

\* The ids of the rows of a table.
RowsOf(t) == UNION {{<<p, i>> : i \in DOMAIN t[p]} : p \in IndexedPaths}

IndexInit ==
    /\ files = {}
    /\ chunks = [p \in IndexedPaths |-> <<>>]
    /\ vec = [p \in IndexedPaths |-> <<>>]
    /\ table = NoDim
    /\ meta = NoDim
    /\ dim \in Dims
    /\ search = Idle
    /\ stayed = {}
-----------------------------------------------------------------------------
(* Inserts and deletes.                                                     *)

Stay == stayed' = {p \in stayed : chunks'[p] # <<>>}

Ensured(t) == IF t = NoDim THEN dim ELSE t

\* What the record reads as: an error of the query counts as no record.
Recorded == {meta} \cup (IF "sqlite" \in Faults THEN {NoDim} ELSE {})

Accepts == Recorded \cap {NoDim, dim} # {}

\* do_ensure_vec_ready, which commits what it does; an insert without chunks skips it.
VecReady(texts) ==
    IF texts = <<>> THEN UNCHANGED <<table, meta>>
    ELSE /\ Accepts
         /\ table' = Ensured(table)
         /\ meta' = dim

\* Seeded fault: the old rows of chunks_vec are not deleted.
OldRowsStay(p, texts) ==
    /\ files' = files \cup {p}
    /\ chunks' = [chunks EXCEPT ![p] = texts]
    /\ vec' = [vec EXCEPT ![p] = [i \in DOMAIN @ \cup DOMAIN texts |->
                                      IF i \in DOMAIN texts THEN texts[i] ELSE @[i]]]

\* The transaction of do_insert.
Replace(p, texts) ==
    /\ files' = files \cup {p}
    /\ chunks' = [chunks EXCEPT ![p] = texts]
    /\ vec' = [vec EXCEPT ![p] = texts]

IndexInsert(p, texts) ==
    /\ VecReady(texts)
    /\ texts # <<>> => table' = dim
    /\ Replace(p, texts)
    /\ Stay
    /\ UNCHANGED <<dim, search>>

\* The transaction is rolled back: the table takes no vector of this dimension, or
\* SQLite fails.  What do_ensure_vec_ready did before it stays.
InsertRollsBack ==
    /\ Accepts
    /\ table' = Ensured(table)
    /\ meta' = dim
    /\ table' # dim \/ "sqlite" \in Faults
    /\ UNCHANGED <<tables, dim, search, stayed>>

\* do_ensure_vec_ready refuses another dimension than the recorded one.
DimensionMismatch ==
    /\ meta \notin {NoDim, dim}
    /\ UNCHANGED indexVars

\* The statements of do_ensure_vec_ready are not one transaction: the table may be
\* there without the record.
RecordFails ==
    /\ "sqlite" \in Faults
    /\ NoDim \in Recorded
    /\ table' = Ensured(table)
    /\ UNCHANGED <<tables, meta, dim, search, stayed>>

IndexDelete(p) ==
    /\ files' = files \ {p}
    /\ chunks' = [chunks EXCEPT ![p] = <<>>]
    /\ vec' = [vec EXCEPT ![p] = <<>>]
    /\ Stay
    /\ UNCHANGED <<table, meta, dim, search>>
-----------------------------------------------------------------------------
(* A search: SearchOp and the Indexer.                                      *)

AskSearch(scope, raw) ==
    /\ search.stage = "idle"
    /\ search' = [Idle EXCEPT !.stage = "check", !.scope = scope, !.raw = raw]
    /\ stayed' = {p \in IndexedPaths : chunks[p] # <<>>}
    /\ UNCHANGED <<tables, table, meta, dim>>

\* Seeded fault: files that are only raw do not count.
OnlySummaries == \A p \in IndexedPaths : chunks[p] # <<>> => Source[p] = "raw"

\* do_is_empty.
IsEmpty == RowsOf(chunks) = {}

\* The embedding is not asked for when the index is empty.
CheckEmpty ==
    /\ search.stage = "check"
    /\ search' = IF IsEmpty THEN [Idle EXCEPT !.stage = "done"]
                 ELSE [search EXCEPT !.stage = "embed"]
    /\ UNCHANGED <<tables, table, meta, dim, stayed>>

\* Seeded fault: the number of embeddings is not compared with that of the chunks.
AnyNumber ==
    /\ search.stage = "embed"
    /\ \E points \in SUBSET Points :
          search' = [search EXCEPT !.stage = "query", !.embeddings = points]
    /\ UNCHANGED <<tables, table, meta, dim, stayed>>

\* The Embedder answers with one embedding for each chunk of the query.
Embedded ==
    /\ search.stage = "embed"
    /\ \E points \in SUBSET Points :
          /\ Cardinality(points) \in 1..MaxEmbeddings
          /\ search' = [search EXCEPT !.stage = "query", !.embeddings = points]
    /\ UNCHANGED <<tables, table, meta, dim, stayed>>

EmbedFails ==
    /\ "llm" \in Faults
    /\ search.stage = "embed"
    /\ search' = [Idle EXCEPT !.stage = "failed"]
    /\ UNCHANGED <<tables, table, meta, dim, stayed>>

Distance(row, e) ==
    LET point == vec[row[1]][row[2]] IN IF point > e THEN point - e ELSE e - point

\* The cosine distance is defined; otherwise it is NULL.
Rated(row, e) == vec[row[1]][row[2]] \notin Degenerate /\ e \notin Degenerate

\* The clauses of do_search on path and source.  LIKE does not tell upper from lower case
\* in ASCII, and names of users are told apart by it.
Matches(row) ==
    LET p == row[1]
        own == Folded[Owner[p]] = Folded[Me]
    IN  /\ search.scope = "user" => own
        /\ search.scope = "agent" => own /\ Agent[p] = MyAgent
        /\ search.raw => Source[p] = "raw"

\* Seeded fault: a scoped search fetches no more than a search of all.
FetchLimit == Limit

FetchK == IF search.scope = "all" THEN Limit ELSE Limit * Overfetch

\* No row of the index is without distances.
Regular == \A r \in RowsOf(vec) : vec[r[1]][r[2]] \notin Degenerate

\* The rows nearest to e that sqlite-vec returns for k, before any other clause.  A row
\* without a distance may be among them at any place.
Nearest(e, k) ==
    {rows \in SUBSET RowsOf(vec) :
        /\ Cardinality(rows) <= k
        /\ Cardinality(rows) < k => rows = RowsOf(vec)
        /\ Regular => \A r \in rows, o \in RowsOf(vec) \ rows : Distance(r, e) <= Distance(o, e)}

\* The distance of the best match of a row that was found for several embeddings.
Found(best, r, found) == \E e \in search.embeddings :
    /\ r \in found[e] /\ Rated(r, e) /\ Distance(r, e) = best
    /\ \A f \in search.embeddings : r \in found[f] /\ Rated(r, f) => Distance(r, f) >= best

\* Seeded fault: the rows of the last embedding come in place of the earlier ones.
LastOnly(found) ==
    LET last == CHOOSE e \in search.embeddings : \A f \in search.embeddings : f <= e
    IN  {r \in found[last] : Rated(r, last)}

\* The rows of all embeddings, each once; one whose distance is NULL has taken a place
\* among the k and is dropped.
Merged(found) == UNION {{r \in found[e] : Rated(r, e)} : e \in search.embeddings}

\* The answers do_search may give: what is found matches, the best of it up to Limit.
Answers ==
    UNION {LET rows == {r \in Merged(found) : Matches(r)}
           IN  {result \in SUBSET rows :
                  /\ Cardinality(result) <= Limit
                  /\ Cardinality(result) < Limit => result = rows
                  /\ \A r \in result, o \in rows \ result : \A a, b \in Points :
                        Found(a, r, found) /\ Found(b, o, found) => a <= b} :
           found \in {f \in [search.embeddings -> SUBSET RowsOf(vec)] :
                         \A e \in search.embeddings : f[e] \in Nearest(e, FetchK)}}

\* An error of the query that looks for chunks_vec counts as none: no results.
QueryBlind ==
    /\ "sqlite" \in Faults
    /\ search.stage = "query"
    /\ search' = [Idle EXCEPT !.stage = "done", !.blind = TRUE]
    /\ UNCHANGED <<tables, table, meta, dim, stayed>>

\* chunks_vec may not be there yet, or be of another dimension than the query.
Query ==
    /\ search.stage = "query"
    /\ \/ table \in {NoDim, dim}
          /\ \E result \in IF table = NoDim THEN {{}} ELSE Answers :
                search' = [Idle EXCEPT !.stage = "done", !.result = result]
       \/ table \notin {NoDim, dim} /\ search' = [Idle EXCEPT !.stage = "failed"]
    /\ UNCHANGED <<tables, table, meta, dim, stayed>>

SearchFails ==
    /\ "sqlite" \in Faults
    /\ search.stage \in {"check", "query"}
    /\ search' = [Idle EXCEPT !.stage = "failed"]
    /\ UNCHANGED <<tables, table, meta, dim, stayed>>

Reply ==
    /\ search.stage \in {"done", "failed"}
    /\ search' = Idle
    /\ stayed' = {}
    /\ UNCHANGED <<tables, table, meta, dim>>
-----------------------------------------------------------------------------
\* The process starts again, perhaps with another embedding model, and opens the
\* index: restore_vec_table creates chunks_vec when it can read the record.
Reopen ==
    /\ "restart" \in Faults
    /\ dim' \in Dims
    /\ table' \in IF table = NoDim THEN Recorded ELSE {table}
    /\ search' = Idle
    /\ stayed' = {}
    /\ UNCHANGED <<tables, meta>>

Changes == \E p \in IndexedPaths : IndexDelete(p) \/ \E texts \in Texts : IndexInsert(p, texts)
Refusals == InsertRollsBack \/ DimensionMismatch \/ RecordFails
Asks == \E scope \in Scopes, raw \in BOOLEAN : AskSearch(scope, raw)
Searches == CheckEmpty \/ Embedded \/ EmbedFails \/ Query \/ QueryBlind \/ SearchFails \/ Reply

IndexNext == Changes \/ Refusals \/ Asks \/ Searches \/ Reopen

IndexSpec == IndexInit /\ [][IndexNext]_indexVars
-----------------------------------------------------------------------------
(* Properties.                                                              *)

Rows == IndexedPaths \X (1..MaxChunks)

\* Every variable has its type; a search has embeddings when it needs them.
IndexTypeOK ==
    /\ search.stage = "query" => Cardinality(search.embeddings) \in 1..MaxEmbeddings
    /\ files \subseteq IndexedPaths
    /\ chunks \in [IndexedPaths -> Texts]
    /\ table \in Dims \cup {NoDim} /\ meta \in Dims \cup {NoDim} /\ dim \in Dims
    /\ search \in [stage : Stages, scope : Scopes, raw : BOOLEAN,
                   embeddings : SUBSET Points, result : SUBSET Rows, blind : BOOLEAN]
    /\ stayed \subseteq IndexedPaths

\* The tables agree after every order of operations and failures: each chunk has its
\* vector and no vector is left of an earlier content, the join with files drops
\* nothing, and where there is a chunk there is a table, as do_is_empty assumes.
TablesAgree ==
    /\ vec = chunks
    /\ \A p \in IndexedPaths : chunks[p] # <<>> => p \in files
    /\ RowsOf(chunks) # {} => table # NoDim /\ meta # NoDim

\* The embeddings of the query that have distances.
Good == search.embeddings \ Degenerate

Matching == {r \in RowsOf(chunks) : Matches(r) /\ \E e \in search.embeddings : Rated(r, e)}
Nearness(r, e) == \A f \in Good : Distance(r, e) <= Distance(r, f)

\* r is at least as near to the query as o.
AsNear(r, o) == \E e \in Good : /\ Nearness(r, e)
                                /\ \A f \in Good : Distance(r, e) <= Distance(o, f)

\* Nothing that matches and is nearer than a row of the answer is left out of it.
BestOf(rows, answer) ==
    answer \subseteq rows /\ \A r \in answer, o \in rows \ answer : AsNear(r, o)

Answering == /\ search.stage = "query" /\ search'.stage = "done"
             /\ table # NoDim /\ ~search'.blind

\* A search of everything answers with the best rows there are, and with as many as
\* asked for, although each embedding of the query fetches for itself, in an index
\* without vectors of zeros.
AllIsExact ==
    Answering /\ search.scope = "all" /\ ~search.raw /\ Regular =>
        /\ BestOf(Matching, search'.result)
        /\ Cardinality(search'.result) = Limit \/ search'.result = Matching

\* A scoped or raw search for one embedding answers with rows that match, the nearest of
\* them in an index without vectors of zeros, if with too few of them; and it is full,
\* or complete, as long as fewer rows than Overfetch allows for are strangers or zeros.
ScopedIsBest ==
    Answering /\ Cardinality(search.embeddings) = 1 =>
        /\ search'.result \subseteq Matching
        /\ Regular => BestOf(Matching, search'.result)
        /\ search.scope # "all" /\ Cardinality(RowsOf(chunks) \ Matching) <= Limit * (Overfetch - 1)
               => Cardinality(search'.result) = Limit \/ search'.result = Matching

\* A memory that was in the index throughout a search, overwritten or not, is found with
\* all its chunks that have distances, when the answer has room for all rows and the query
\* has a distance: neither the early way out of SearchOp nor a replacement of its rows
\* loses it; only an error that do_search takes for a missing table does.
FindsWhatStays ==
    /\ search.stage \in {"check", "query"} /\ search'.stage = "done" /\ ~search'.blind
    /\ search.stage = "query" => Good # {}
    /\ Cardinality(RowsOf(chunks)) <= Limit
    => \A p \in stayed : (\A i \in DOMAIN chunks[p] : Matches(<<p, i>>)) =>
          \A i \in DOMAIN chunks[p] :
              chunks[p][i] \notin Degenerate => <<p, i>> \in search'.result

\* What a search answers beside inserts, deletes and failures: the best rows there are
\* where k is taken before any filter, no worse ones where a filter follows, and
\* never without what was there all the while.  Vectors of zeros are never in an answer,
\* and can take the places of others.
SearchesAreRight == [][AllIsExact /\ ScopedIsBest /\ FindsWhatStays]_indexVars
=============================================================================
