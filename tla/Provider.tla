------------------------------ MODULE Provider ------------------------------
(***************************************************************************)
(* One call of a language model: a chat (OpenAI or DeepSeek) or the        *)
(* embedding of a list of texts (OpenAI), as retry makes it, with what     *)
(* Embedder checks before anybody trusts the vectors.                      *)
(*                                                                         *)
(* A text is its position in the request.  A vector is the text it embeds, *)
(* its dimension and whether all its components are finite.                *)
(***************************************************************************)
EXTENDS Integers, Sequences, FiniteSets

CONSTANTS Retries,   \* values of max_retries
          Pins,      \* values of embedding_dim, with NoPin for none
          NoPin,
          MaxTexts   \* bound: texts of a request

ASSUME ProviderAssumption ==
    Retries \subseteq Nat /\ Pins \subseteq Nat \cup {NoPin} /\ NoPin \notin Nat /\ MaxTexts \in Nat

VARIABLES role,      \* "chat" or "embed"; "none" before the call
          texts,     \* number of texts
          retries, pin,
          vendors,   \* the configured vendor of each role
          endpoint,  \* the key and the base URL the provider was built with
          attempt,
          stage,
          last,      \* how the last request went
          data,      \* the data array of the response
          vectors    \* EmbedResult

providerVars == <<role, texts, retries, pin, vendors, endpoint, attempt, stage, last, data, vectors>>

Vendors == {"openai", "deepseek", "other"}
Owners == {"chat", "embedding"}
NoEndpoint == [key |-> "none", url |-> "none"]
NoVendors == [chat |-> "none", embedding |-> "none"]

Vector(t, d, ok) == [of |-> t, dim |-> d, finite |-> ok]
Item(i, v) == [index |-> i, embedding |-> v]

\* What a request can come to, before the body is looked at.
Transport == {"timeout", "connect", "broken"}
Status == {"5xx", "429", "4xx"}

ProviderInit ==
    /\ role = "none" /\ texts = 0
    /\ retries \in Retries /\ pin \in Pins
    /\ vendors = NoVendors /\ endpoint = NoEndpoint
    /\ attempt = 0
    /\ stage = "idle"
    /\ last = "none"
    /\ data = <<>> /\ vectors = <<>>
-----------------------------------------------------------------------------
(* Building the providers.                                                  *)

\* Seeded fault: the shared builder is handed the key of the other role.
CrossedEndpoint(owner) == [key |-> "chat", url |-> owner]

\* from_parts: the key and the URL of one role.
Endpoint(owner) == [key |-> owner, url |-> owner]

\* A vendor that serves both roles is built once, as the chat provider: the key and the
\* URL configured for embeddings are not read then.
Shared(chat, embedding) == chat = embedding /\ chat = "openai"

\* Seeded fault: the embedding provider is built by the constructor of the chat role.
BuiltForChat(r, chat, embedding, keys) ==
    IF chat \in {"openai", "deepseek"} /\ embedding = "openai" /\ "chat" \in keys
    THEN Endpoint("chat") ELSE NoEndpoint

\* build_providers, for the role of this call: no endpoint where it is refused.
Built(r, chat, embedding, keys) ==
    LET owner == IF r = "chat" \/ Shared(chat, embedding) THEN "chat" ELSE "embedding"
        known == chat \in {"openai", "deepseek"} /\ embedding = "openai"
        needed == IF Shared(chat, embedding) THEN {"chat"} ELSE Owners
    IN  IF known /\ needed \subseteq keys THEN Endpoint(owner) ELSE NoEndpoint

Begin(r, n) ==
    /\ stage = "idle"
    /\ role' = r /\ texts' = n
    /\ \E chat, embedding \in Vendors, keys \in SUBSET Owners :
          /\ vendors' = [chat |-> chat, embedding |-> embedding]
          /\ endpoint' = Built(r, chat, embedding, keys)
    /\ stage' = IF endpoint' = NoEndpoint THEN "failed" ELSE "ready"
    /\ UNCHANGED <<retries, pin, attempt, last, data, vectors>>
-----------------------------------------------------------------------------
(* One request, and what retry makes of its outcome.                        *)

\* Seeded fault: the attempts left are counted, from nought.
SendDown ==
    /\ stage = "ready"
    /\ attempt' = attempt - 1
    /\ stage' = "sent"
    /\ UNCHANGED <<role, texts, retries, pin, vendors, endpoint, last, data, vectors>>

\* Seeded fault: an attempt is not counted, so they never run out.
SendUncounted ==
    /\ stage = "ready"
    /\ attempt' = 1
    /\ stage' = "sent"
    /\ UNCHANGED <<role, texts, retries, pin, vendors, endpoint, last, data, vectors>>

Send ==
    /\ stage = "ready"
    /\ attempt' = attempt + 1
    /\ stage' = "sent"
    /\ UNCHANGED <<role, texts, retries, pin, vendors, endpoint, last, data, vectors>>

\* Seeded fault: every error of the server or the line is worth another try.
AlwaysTransient(outcome) == TRUE

\* map_reqwest and map_status.
Transient(outcome) == outcome \in {"timeout", "connect", "5xx", "429"}

\* One more attempt, after a pause, for a transient error; the error otherwise.
Retried(outcome) ==
    IF Transient(outcome) /\ attempt < (IF retries = 0 THEN 1 ELSE retries) THEN "ready" ELSE "failed"

Erred(outcome) ==
    /\ last' = outcome
    /\ stage' = Retried(outcome)
    /\ UNCHANGED <<role, texts, retries, pin, vendors, endpoint, attempt, data, vectors>>

NoAnswer == stage = "sent" /\ \E outcome \in Transport \cup Status : Erred(outcome)

\* resp.json(): the body breaks off, comes too late, or does not parse.
BadBody == stage = "sent" /\ \E outcome \in {"timeout", "broken"} : Erred(outcome)

Chatted ==
    /\ stage = "sent" /\ role = "chat"
    /\ \/ last' = "ok" /\ stage' = "done"
       \/ last' = "no choices" /\ stage' = Retried("no choices")
    /\ UNCHANGED <<role, texts, retries, pin, vendors, endpoint, attempt, data, vectors>>
-----------------------------------------------------------------------------
(* The embeddings of a response.  The service answers in any order and says *)
(* where each belongs; one that leaves the index out keeps the order.       *)

Orders(n) == {p \in [1..n -> 1..n] : \A i, j \in 1..n : i # j => p[i] # p[j]}

\* One vector is empty, of another dimension, or not finite.
Flawed(n, j) ==
    {[i \in 1..n |-> Item(i - 1, IF i = j THEN Vector(i, flaw[1], flaw[2]) ELSE Vector(i, 2, TRUE))] :
        flaw \in {<<0, TRUE>>, <<3, TRUE>>, <<2, FALSE>>}}

\* Indexed in any order; not indexed and in order; or flawed.
Responses(n) ==
    {[i \in 1..n |-> Item(p[i] - 1, Vector(p[i], 2, TRUE))] : p \in Orders(n)}
      \cup {[i \in 1..n |-> Item(0, Vector(i, 2, TRUE))]}
      \cup UNION {Flawed(n, j) : j \in 1..n}

\* The number of vectors may be off by one; the response is refused then.
Embedded ==
    /\ stage = "sent" /\ role = "embed"
    /\ \E n \in (texts - 1)..(texts + 1) :
          IF n # texts
          THEN /\ last' = "count" /\ stage' = Retried("count")
               /\ UNCHANGED data
          ELSE /\ data' \in Responses(n)
               /\ last' = "ok" /\ stage' = "parsed"
    /\ UNCHANGED <<role, texts, retries, pin, vendors, endpoint, attempt, vectors>>

\* Seeded fault: the vectors are taken in the order in which they arrive.
Unsorted(d) == [i \in DOMAIN d |-> d[i].embedding]

\* What comes before an item: the smaller indices, and of the same index the earlier.
Before(d, i) ==
    {j \in DOMAIN d : \/ d[j].index < d[i].index
                      \/ d[j].index = d[i].index /\ j < i}

\* sort_by_key(index), which is stable.
Sorted(d) ==
    [r \in DOMAIN d |->
        d[CHOOSE i \in DOMAIN d : Cardinality(Before(d, i)) = r - 1].embedding]

Sort ==
    /\ stage = "parsed"
    /\ vectors' = Sorted(data)
    /\ data' = <<>>
    /\ stage' = "sorted"
    /\ UNCHANGED <<role, texts, retries, pin, vendors, endpoint, attempt, last>>

\* Seeded fault: only a pinned dimension is enforced.
ValidIfPinned(vs) ==
    /\ Len(vs) = texts
    /\ \A i \in DOMAIN vs : vs[i].dim > 0 /\ (pin # NoPin => vs[i].dim = pin) /\ vs[i].finite

\* validate_embeddings: the first vector sets the dimension if none is pinned.
Valid(vs) ==
    /\ Len(vs) = texts
    /\ \A i \in DOMAIN vs :
          vs[i].dim > 0 /\ vs[i].dim = (IF pin = NoPin THEN vs[1].dim ELSE pin) /\ vs[i].finite

Validate ==
    /\ stage = "sorted"
    /\ stage' = IF Valid(vectors) THEN "done" ELSE "failed"
    /\ UNCHANGED <<role, texts, retries, pin, vendors, endpoint, attempt, last, data, vectors>>

ProviderNext == Send \/ NoAnswer \/ BadBody \/ Chatted \/ Embedded \/ Sort \/ Validate
-----------------------------------------------------------------------------
(* Properties.                                                              *)

\* Every variable has its type.
ProviderTypeOK ==
    /\ role \in {"none", "chat", "embed"} /\ texts \in Nat
    /\ retries \in Retries /\ pin \in Pins
    /\ vendors \in {NoVendors} \cup [chat : Vendors, embedding : Vendors]
    /\ endpoint \in {NoEndpoint} \cup [key : Owners, url : Owners]
    /\ attempt \in Nat
    /\ stage \in {"idle", "ready", "sent", "parsed", "sorted", "done", "failed"}
    /\ last \in Transport \cup Status \cup {"none", "ok", "count", "no choices"}
    /\ data \in Seq([index : Nat, embedding : [of : Nat, dim : Nat, finite : BOOLEAN]])
    /\ vectors \in Seq([of : Nat, dim : Nat, finite : BOOLEAN])

\* A chat goes with the key of the chat role to the URL of that role.  So does an
\* embedding when one vendor is configured for both roles, whatever URL and key the
\* configuration names for embeddings; otherwise it goes with its own key to its own
\* URL.  And an attempt is repeated only where that can help, never after the service
\* has answered and been understood, and no more than max_retries times in all.
AttemptsAreSound ==
    [][attempt' # attempt =>
          /\ LET owner == IF role = "chat" \/ vendors.chat = vendors.embedding THEN "chat" ELSE "embedding"
             IN  endpoint = [key |-> owner, url |-> owner]
          /\ attempt > 0 => last \in {"timeout", "connect", "5xx", "429"} /\ attempt < retries]_providerVars

\* A call that has begun is answered.
CallEnds == (role # "none") ~> (stage \in {"done", "failed"})
=============================================================================
