--------------------------- MODULE EvidenceCache ---------------------------
(***************************************************************************)
(* Evidence retrieval through the cache in Redis, and the ingestion of     *)
(* documents into the knowledge base meanwhile.                            *)
(*                                                                         *)
(* _cached_retrieve looks a query up, searches the database when nothing   *)
(* was found, and stores what the search returned for an hour.  These are  *)
(* separate steps, and so are the statements of a search, each of which    *)
(* reads what is committed by then: documents are committed, other         *)
(* requests store their searches and entries expire between them.  Redis   *)
(* may be down at any of them, which only turns the cache off.             *)
(*                                                                         *)
(* A search is not complete.  Its statements have a LIMIT, the index of    *)
(* the vectors is approximate and filtered by tenant after the fact, the   *)
(* words of the query may be in no document, and MMR and the reranker keep *)
(* a few passages of the pool.  So a search finds any part of what it      *)
(* reads; "considered" is what its first statement could have found.       *)
(***************************************************************************)
EXTENDS Naturals

CONSTANTS
    Lookup,       \* retrievals of one and the same query text
    Tenant,       \* the tenants they are made for
    Doc,          \* the documents of the knowledge base
    TTL,          \* the life of an entry, _TTL_S
    LastTime      \* bound: the clock runs over 0..LastTime

\* grounding_intensity as the code tells it apart: above 0.7 it raises rerank_k.
Grounding == {"light", "strict"}

ASSUME CacheConstants == TTL \in Nat \ {0} /\ LastTime \in Nat

VARIABLES
    asks,         \* the tenant and the grounding of each retrieval
    step,         \* where each retrieval stands
    began,        \* history: when it looked the query up
    found,        \* what it has found or was served
    owner,        \* the tenant of each document
    docs,         \* "new", "flushed" or "committed", by document
    committedAt,  \* history: when the document became visible
    cache,        \* the entries of Redis, by key
    clock

cacheVars == <<asks, step, began, found, owner, docs, committedAt, cache, clock>>

\* rerank_k: how many passages are asked for.
RerankK(grounding) == IF grounding = "strict" THEN 7 ELSE 5

\* A search: for whom and how it is made, when it began and (history) what was
\* visible then, what it found, and when that was stored.
Search == [tenant : Tenant, grounding : Grounding, at : 0..LastTime, considered : SUBSET Doc,
           docs : SUBSET Doc, stored : 0..LastTime]

NoEvidence == [docs |-> {}, stored |-> 0]      \* nothing cached, nothing found yet

\* _key: a digest of the tenant, the query and rerank_k.  Digests of different
\* keys are taken to differ; the query is the same for every retrieval here.
KeyWithoutK(l) == <<asks[l].tenant, 5>>
Key(l) == <<asks[l].tenant, RerankK(asks[l].grounding)>>
Keys == Tenant \X {5, 7}

CacheTypeOK ==
    /\ asks \in [Lookup -> [tenant : Tenant, grounding : Grounding]]
    /\ step \in [Lookup -> {"idle", "missed", "searching", "searched", "done"}]
    /\ began \in [Lookup -> 0..LastTime]
    /\ \A l \in Lookup : found[l] \in Search \union {NoEvidence}
    /\ owner \in [Doc -> Tenant]
    /\ docs \in [Doc -> {"new", "flushed", "committed"}]
    /\ committedAt \in [Doc -> 0..LastTime]
    /\ \A k \in Keys : cache[k] \in Search \union {NoEvidence}
    /\ clock \in 0..LastTime

CacheInit ==
    /\ asks \in [Lookup -> [tenant : Tenant, grounding : Grounding]]
    /\ step = [l \in Lookup |-> "idle"]
    /\ began = [l \in Lookup |-> 0]
    /\ found = [l \in Lookup |-> NoEvidence]
    /\ owner \in [Doc -> Tenant]
    /\ docs = [d \in Doc |-> "new"]
    /\ committedAt = [d \in Doc |-> 0]
    /\ cache = [k \in Keys |-> NoEvidence]
    /\ clock = 0

\* An entry that Redis has not expired.
Alive(entry, time) == time < entry.stored + TTL

\* An entry is served when it holds evidence: an empty list is a miss.
HitAtAll(l) == cache[Key(l)] # NoEvidence
Hit(l) == cache[Key(l)].docs # {}

\* get_cached: a hit ends the retrieval; Redis may also be out of reach.
LookUp(l) ==
    /\ step[l] = "idle"
    /\ began' = [began EXCEPT ![l] = clock]
    /\ \/ /\ Hit(l)
          /\ found' = [found EXCEPT ![l] = cache[Key(l)]]
          /\ step' = [step EXCEPT ![l] = "done"]
       \/ /\ step' = [step EXCEPT ![l] = "missed"]
          /\ UNCHANGED found
    /\ UNCHANGED <<asks, owner, docs, committedAt, cache, clock>>

\* Rows of the tenant whose session was committed.
Visible(tenant) == {d \in Doc : docs[d] = "committed" /\ owner[d] = tenant}

\* The first statement of a search: vector_search of the first query.
VectorSearch(l) ==
    LET visible == Visible(asks[l].tenant) IN
    /\ step[l] = "missed"
    /\ step' = [step EXCEPT ![l] = "searching"]
    /\ \E some \in SUBSET visible :
          found' = [found EXCEPT ![l] =
                       [tenant |-> asks[l].tenant, grounding |-> asks[l].grounding, at |-> clock,
                        considered |-> visible, docs |-> some, stored |-> clock]]
    /\ UNCHANGED <<asks, began, owner, docs, committedAt, cache, clock>>

\* keyword_search, and both searches for the further queries of retrieve_multi:
\* fusion keeps whatever any of them found, so one that finds nothing more
\* changes nothing.
SearchFurther(l) ==
    /\ step[l] = "searching"
    /\ \E more \in SUBSET (Visible(asks[l].tenant) \ found[l].docs) \ {{}} :
          found' = [found EXCEPT ![l].docs = @ \union more]
    /\ UNCHANGED <<asks, step, began, owner, docs, committedAt, cache, clock>>

\* MMR, then the reranker: of a pool that is not empty at least one is kept.
Rank(l) ==
    /\ step[l] = "searching"
    /\ step' = [step EXCEPT ![l] = "searched"]
    /\ \E kept \in SUBSET found[l].docs :
          /\ kept = {} => found[l].docs = {}
          /\ found' = [found EXCEPT ![l].docs = kept]
    /\ UNCHANGED <<asks, began, owner, docs, committedAt, cache, clock>>

\* set_cached overwrites whatever is there; an unreachable Redis is suppressed.
Store(l) ==
    /\ step[l] = "searched"
    /\ step' = [step EXCEPT ![l] = "done"]
    /\ \/ cache' = [cache EXCEPT ![Key(l)] = [found[l] EXCEPT !.stored = clock]]
       \/ UNCHANGED cache
    /\ UNCHANGED <<asks, began, found, owner, docs, committedAt, clock>>

\* Document and chunks, flushed together.
AddChunks(d) == docs' = [docs EXCEPT ![d] = "flushed"]

\* ingest adds the document and its chunks, visible to nobody yet ...
Ingest(d) ==
    /\ docs[d] = "new"
    /\ AddChunks(d)
    /\ UNCHANGED <<asks, step, began, found, owner, committedAt, cache, clock>>

\* ... until its session is closed: committed, or rolled back, and the client may
\* send the document again.
CloseIngest(d) ==
    /\ docs[d] = "flushed"
    /\ \/ /\ docs' = [docs EXCEPT ![d] = "committed"]
          /\ committedAt' = [committedAt EXCEPT ![d] = clock]
       \/ docs' = [docs EXCEPT ![d] = "new"] /\ UNCHANGED committedAt
    /\ UNCHANGED <<asks, step, began, found, owner, cache, clock>>

\* Time passes, and Redis drops the entries whose time has come.
Tick ==
    /\ clock < LastTime
    /\ clock' = clock + 1
    /\ cache' = [k \in Keys |-> IF Alive(cache[k], clock + 1) THEN cache[k] ELSE NoEvidence]
    /\ UNCHANGED <<asks, step, began, found, owner, docs, committedAt>>

CacheNext ==
    \/ \E l \in Lookup : \/ LookUp(l) \/ Store(l)
                          \/ VectorSearch(l) \/ SearchFurther(l) \/ Rank(l)
    \/ \E d \in Doc : Ingest(d) \/ CloseIngest(d)
    \/ Tick

CacheSpec == CacheInit /\ [][CacheNext]_cacheVars

-----------------------------------------------------------------------------
\* Properties.

\* Evidence, fresh or cached, was searched for the tenant that gets it and, if
\* grounding is strict, by a strict search: neither the cache nor the order in
\* which retrievals store their results mixes them up (_key, _cached_retrieve).
EvidenceIsOnesOwn ==
    \A l \in Lookup :
        found[l] # NoEvidence =>
            /\ found[l].tenant = asks[l].tenant
            /\ \A d \in found[l].docs : owner[d] = asks[l].tenant
            /\ asks[l].grounding = "strict" <=> found[l].grounding = "strict"

\* The cache hides a document for a bounded time only: a retrieval that begins
\* after it was committed comes from a search that could have found it, or from
\* one that began no later than the commit, found something, and was stored less
\* than the TTL before the retrieval.  So the delay is the TTL and the time that
\* search took, and a tenant whose searches found nothing waits for no entry to
\* expire.  Whether a search then picks the document is up to its ranking
\* (_cached_retrieve, set_cached, ingest).
DocumentsAreConsidered ==
    \A l \in Lookup, d \in Doc :
        (/\ step[l] = "done" /\ docs[d] = "committed"
         /\ owner[d] = asks[l].tenant /\ committedAt[d] < began[l])
        => \/ d \in found[l].considered
           \/ /\ found[l].docs # {} /\ found[l].at <= committedAt[d]
              /\ began[l] < found[l].stored + TTL
=============================================================================
