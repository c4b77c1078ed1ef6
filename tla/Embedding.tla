----------------------------- MODULE Embedding -----------------------------
(***************************************************************************)
(* From a text to its vectors: FileOp cuts the content into chunks, has    *)
(* them embedded in one call, and pairs chunks and vectors by position for *)
(* the index.  The same content later goes to the chat model, as a source  *)
(* of a summary; a behaviour makes one of the two calls.                   *)
(***************************************************************************)
EXTENDS Chunking, Provider

VARIABLE stored  \* the chunks the index is given, with their vectors

embeddingVars == <<vars, providerVars, stored>>

EmbeddingInit == Init /\ ProviderInit /\ stored = <<>>

\* chunk_text runs to its end first.
Chunked == Next /\ UNCHANGED <<providerVars, stored>>

\* No call is made for a content without chunks.
Embed ==
    /\ pc = "done"
    /\ Len(chunks) \in 1..MaxTexts
    /\ Begin("embed", Len(chunks))
    /\ UNCHANGED <<vars, stored>>

Synthesize ==
    /\ pc = "done"
    /\ Begin("chat", 0)
    /\ UNCHANGED <<vars, stored>>

Call == ProviderNext /\ UNCHANGED <<vars, stored>>

\* text_chunks.zip(embeddings), which ends with the shorter of the two.
Pair ==
    /\ role = "embed" /\ stage = "done" /\ stored = <<>>
    /\ stored' = [i \in {k \in DOMAIN chunks : k \in DOMAIN vectors} |->
                     [chunk |-> chunks[i], embedding |-> vectors[i]]]
    /\ UNCHANGED <<vars, providerVars>>

EmbeddingNext == Chunked \/ Embed \/ Synthesize \/ Call \/ Pair

\* The functions run on, and every request to a service has a time limit.
EmbeddingSpec ==
    EmbeddingInit /\ [][EmbeddingNext]_embeddingVars
      /\ WF_embeddingVars(Chunked) /\ WF_embeddingVars(Call)
-----------------------------------------------------------------------------
(* Properties.                                                              *)

\* The types of both parts.
EmbeddingTypeOK == TypeOK /\ ProviderTypeOK

\* Whatever order the service answers in, every line of the content ends up in
\* a chunk of the index, and each chunk with the vector of its own text; and the
\* vectors are of one space: none empty, none with a component that is not a number,
\* all of one dimension, the pinned one where there is one.
LinesAreFound ==
    stored # <<>> /\ size > 0 =>
        /\ \A l \in 1..total : \E i \in DOMAIN stored :
              stored[i].chunk.first <= l /\ l <= stored[i].chunk.last
        /\ \A i \in DOMAIN stored :
              LET v == stored[i].embedding
              IN  /\ stored[i].chunk = chunks[i] /\ v.of = i
                  /\ v.finite /\ v.dim > 0 /\ v.dim = stored[1].embedding.dim
                  /\ pin # NoPin => v.dim = pin

\* The cutting ends for every size and overlap, and a call for every service.
EverythingEnds == Returns /\ CallEnds
=============================================================================
