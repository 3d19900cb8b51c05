---------------------------- MODULE SharingProofs ----------------------------
(***************************************************************************)
(* What the requests of a process share, proved for any number of them:    *)
(*   - every answered call is on exactly one bill, and a pipeline that ran *)
(*     alone has exactly its own calls on its bill (Usage);                *)
(*   - retrieval through the cache never mixes up tenants or evidence, for *)
(*     any number of documents and any life of an entry (EvidenceCache);   *)
(*   - a process reads each artifact once, for any number of threads,      *)
(*     models, retrainings and restarts (Registry);                        *)
(*   - a behaviour of the three side by side is one of each.               *)
(***************************************************************************)
EXTENDS MCSharing, TLAPS

-----------------------------------------------------------------------------
\* The gateway and its meters.

\* A pending call is new, and the meter it will be charged to is known; no call
\* of a pipeline is beyond those it asked for; a gateway is published as soon as
\* a pipeline runs.
PendingIsNew ==
    \A p \in Pipe :
        /\ stage[p] # "idle" => gateway \in Pipe
        /\ \A c \in answered : Caller(c) = p => c[2] <= asked[p]
        /\ stage[p] = "calling" =>
              target[p] \in Pipe /\ <<p, asked[p]>> \in Call \ answered

\* What holds of a pipeline that met no other: while it runs the gateway is its
\* own and nobody else runs; nobody's pending call is charged to it; its meter
\* holds its own calls.
Alone(p) ==
    /\ Running(p) => gateway = p /\ \A q \in Pipe \ {p} : ~Running(q)
    /\ stage[p] = "calling" => target[p] = p
    /\ \A q \in Pipe \ {p} : Running(q) => gateway # p
    /\ \A q \in Pipe \ {p} : stage[q] = "calling" => target[q] # p
    /\ meter[p] = OwnCalls(p)

UsageInv ==
    /\ UsageTypeOK
    /\ PendingIsNew
    /\ ChargedOnce
    /\ \A p \in Pipe \ met : Alone(p)
    /\ AloneIsExact

\* Initially nothing was asked, answered or charged.
LEMMA UsageInitHolds == UsageInit => UsageInv
BY UsageConstants DEF UsageInit, UsageInv, UsageTypeOK, PendingIsNew, ChargedOnce, Alone, Running,
   AloneIsExact, OwnCalls, Call, Caller

\* The variables keep their types.
LEMMA UsageTypeStep ==
    ASSUME UsageInv, [UsageNext]_usageVars
    PROVE  UsageTypeOK'
<1> USE UsageConstants DEF UsageInv, UsageTypeOK, usageVars, Call
<1>1. ASSUME NEW p \in Pipe, StartPipe(p) PROVE UsageTypeOK'
  BY <1>1 DEF StartPipe, Published
<1>2. ASSUME NEW p \in Pipe, AskModel(p) PROVE UsageTypeOK'
  BY <1>2 DEF AskModel, Ask
<1>3. ASSUME NEW p \in Pipe, AskNLI(p) PROVE UsageTypeOK'
  BY <1>3 DEF AskNLI, Ask
<1>4. ASSUME NEW p \in Pipe, Answer(p) PROVE UsageTypeOK'
  <2>1. <<p, asked[p]>> \in Call /\ target[p] \in Pipe
    BY <1>4 DEF Answer, PendingIsNew
  <2>2. meter' \in [Pipe -> SUBSET Call]
    BY <1>4, <2>1 DEF Answer, Charged
  <2> QED BY <1>4, <2>1, <2>2 DEF Answer
<1>5. ASSUME NEW p \in Pipe, Fail(p) PROVE UsageTypeOK'
  BY <1>5 DEF Fail, MeterAfterFailure
<1>6. ASSUME NEW p \in Pipe, PersistUsage(p) PROVE UsageTypeOK'
  BY <1>6 DEF PersistUsage
<1>7. ASSUME NEW p \in Pipe, Respond(p) PROVE UsageTypeOK'
  BY <1>7 DEF Respond
<1>8. CASE UNCHANGED usageVars
  BY <1>8
<1> QED BY <1>1, <1>2, <1>3, <1>4, <1>5, <1>6, <1>7, <1>8 DEF UsageNext, UsageStep

\* What Ask does to the invariant, whichever meter m the call goes to, as long as
\* a pipeline that met no other asks through its own gateway and nobody else's
\* call is charged to it.
LEMMA AskKeeps ==
    ASSUME UsageInv, NEW p \in Pipe, NEW m \in Pipe, Ask(p, m),
           p \notin met => m = p,
           \A q \in Pipe \ met : q # p => m # q
    PROVE  PendingIsNew' /\ ChargedOnce' /\ (\A q \in Pipe \ met : Alone(q))' /\ AloneIsExact'
<1> USE UsageConstants DEF UsageInv, UsageTypeOK, Ask
<1>1. PendingIsNew'
  BY DEF PendingIsNew, Call, Caller
<1>2. ChargedOnce'
  BY DEF ChargedOnce
<1>3. (\A q \in Pipe \ met : Alone(q))'
  BY DEF Alone, Running, OwnCalls
<1>4. AloneIsExact'
  BY DEF AloneIsExact, OwnCalls
<1> QED BY <1>1, <1>2, <1>3, <1>4

\* An answered call is charged to one meter, that of its target.
LEMMA AnswerKeeps ==
    ASSUME UsageInv, NEW p \in Pipe, Answer(p)
    PROVE  PendingIsNew' /\ ChargedOnce' /\ (\A q \in Pipe \ met : Alone(q))' /\ AloneIsExact'
<1> DEFINE c == <<p, asked[p]>>
<1> USE UsageConstants DEF UsageInv, UsageTypeOK
<1>1. /\ stage[p] = "calling" /\ target[p] \in Pipe /\ c \in Call /\ c \notin answered
      /\ Caller(c) = p /\ c[2] = asked[p]
  BY DEF Answer, PendingIsNew, Caller
<1>2. /\ stage' = [stage EXCEPT ![p] = "working"]
      /\ meter' = [meter EXCEPT ![target[p]] = @ \union {c}]
      /\ answered' = answered \union {c}
      /\ UNCHANGED <<gateway, asked, target, stored, reported, met>>
  BY DEF Answer, Charged
<1> HIDE DEF c
<1>3. PendingIsNew'
  BY <1>1, <1>2 DEF PendingIsNew, Caller
<1>4. ChargedOnce'
  <2>1. \A q \in Pipe : meter'[q] = IF q = target[p] THEN meter[q] \union {c} ELSE meter[q]
    BY <1>1, <1>2
  <2>2. \A q \in Pipe : c \notin meter[q]
    BY <1>1 DEF ChargedOnce
  <2> QED BY <1>1, <1>2, <2>1, <2>2 DEF ChargedOnce
<1>5. \A q \in Pipe : OwnCalls(q)' = IF q = p THEN OwnCalls(q) \union {c} ELSE OwnCalls(q)
  BY <1>1, <1>2 DEF OwnCalls
<1>6. (\A q \in Pipe \ met : Alone(q))'
  <2> SUFFICES ASSUME NEW q \in Pipe \ met PROVE Alone(q)'
    BY <1>2
  <2>1. Alone(q)
    OBVIOUS
  <2>2. q = p <=> q = target[p]
    BY <1>1, <2>1 DEF Alone
  <2>3. meter'[q] = OwnCalls(q)'
    BY <1>1, <1>2, <1>5, <2>1, <2>2 DEF Alone
  <2> QED BY <1>1, <1>2, <2>1, <2>3 DEF Alone, Running
<1>7. AloneIsExact'
  BY <1>1, <1>2, <1>5 DEF AloneIsExact
<1> QED BY <1>3, <1>4, <1>6, <1>7

\* Steps that neither ask nor answer leave the bills alone.
LEMMA UsageNextKeeps == UsageInv /\ [UsageNext]_usageVars => UsageInv'
<1> SUFFICES ASSUME UsageInv, [UsageNext]_usageVars PROVE UsageInv'
  OBVIOUS
<1> DEFINE Rest == PendingIsNew' /\ ChargedOnce' /\ (\A q \in Pipe \ met : Alone(q))'
                   /\ AloneIsExact'
<1>0. UsageTypeOK'
  BY UsageTypeStep
<1>1. ASSUME NEW p \in Pipe, StartPipe(p) PROVE Rest
  <2> USE UsageConstants, <1>1 DEF StartPipe, Published, UsageInv, UsageTypeOK
  <2>1. met \subseteq met'
    OBVIOUS
  <2>2. PendingIsNew'
    BY DEF PendingIsNew
  <2>3. ChargedOnce'
    BY DEF ChargedOnce
  <2>4. ASSUME NEW q \in Pipe \ met' PROVE Alone(q)'
    <3>1. Alone(q) /\ meter'[q] = OwnCalls(q)'
      BY <2>1 DEF Alone, OwnCalls
    <3>2. CASE q = p
      <4>1. \A r \in Pipe \ {p} : ~Running(r)
        BY <2>4, <3>2 DEF Running
      <4> QED BY <3>1, <3>2, <4>1 DEF Alone, Running
    <3>3. CASE q # p
      <4>1. ~Running(q)
        BY <2>4, <3>3
      <4> QED BY <3>1, <3>3, <4>1 DEF Alone, Running
    <3> QED BY <3>2, <3>3
  <2>5. AloneIsExact'
    BY <2>1 DEF AloneIsExact, OwnCalls
  <2> QED BY <2>2, <2>3, <2>4, <2>5
<1>2. ASSUME NEW p \in Pipe, AskModel(p) PROVE Rest
  BY <1>2, AskKeeps DEF AskModel
<1>3. ASSUME NEW p \in Pipe, AskNLI(p) PROVE Rest
  <2>1. stage[p] = "working" /\ gateway \in Pipe
    BY <1>3 DEF AskNLI, Ask, UsageInv, PendingIsNew
  <2>2. p \notin met => gateway = p
    BY <2>1 DEF UsageInv, Alone, Running
  <2>3. \A q \in Pipe \ met : q # p => gateway # q
    BY <2>1 DEF UsageInv, Alone, Running
  <2> QED BY <1>3, <2>1, <2>2, <2>3, AskKeeps DEF AskNLI
<1>4. ASSUME NEW p \in Pipe, Answer(p) PROVE Rest
  BY <1>4, AnswerKeeps
<1>5. ASSUME NEW p \in Pipe, Fail(p) \/ PersistUsage(p) \/ Respond(p) PROVE Rest
  <2> USE UsageConstants, <1>5 DEF Fail, MeterAfterFailure, PersistUsage, Respond, UsageInv,
                                   UsageTypeOK
  <2>1. PendingIsNew'
    BY DEF PendingIsNew
  <2>2. ChargedOnce'
    BY DEF ChargedOnce
  <2>3. (\A q \in Pipe \ met : Alone(q))'
    BY DEF Alone, Running, OwnCalls
  <2>4. AloneIsExact'
    BY DEF AloneIsExact, Alone, OwnCalls
  <2> QED BY <2>1, <2>2, <2>3, <2>4
<1>6. CASE UNCHANGED usageVars
  BY <1>6 DEF usageVars, UsageInv, UsageTypeOK, PendingIsNew, ChargedOnce, Alone, Running,
     AloneIsExact, OwnCalls
<1>7. Rest
  BY <1>1, <1>2, <1>3, <1>4, <1>5, <1>6 DEF UsageNext, UsageStep, UsageInv
<1> QED BY <1>0, <1>7 DEF UsageInv

\* The invariant holds in every reachable state.
THEOREM UsageInvariance == UsageSpec => []UsageInv
BY UsageInitHolds, UsageNextKeeps, PTL DEF UsageSpec

\* Every call the model answered is on exactly one bill, and no other call is.
THEOREM BillsAreExactTogether == UsageSpec => []ChargedOnce
<1>1. UsageInv => ChargedOnce
  BY DEF UsageInv
<1> QED BY <1>1, UsageInvariance, PTL

\* A request that ran alone is billed for its own calls and nothing else.
THEOREM BillOfOneAlone == UsageSpec => []AloneIsExact
<1>1. UsageInv => AloneIsExact
  BY DEF UsageInv
<1> QED BY <1>1, UsageInvariance, PTL

-----------------------------------------------------------------------------
\* The evidence cache.

\* Evidence holds documents of its tenant only, and its search could have found
\* all of them but those that became visible after it had begun.
Sound(e) ==
    /\ e \in Search
    /\ e.at <= clock
    /\ \A d \in e.docs : owner[d] = e.tenant
    /\ \A d \in Doc : docs[d] = "committed" /\ owner[d] = e.tenant
                      => d \in e.considered \/ e.at <= committedAt[d]

\* An entry is what a search for the tenant and the count of its key found, and
\* its time has not come yet.
EntriesSound ==
    \A k \in Keys :
        cache[k] # NoEvidence =>
            /\ Sound(cache[k])
            /\ Alive(cache[k], clock)
            /\ cache[k].tenant = k[1]
            /\ cache[k].grounding = "strict" <=> k[2] = 7

\* What a retrieval has comes from a search like its own; and either the search
\* is its own, or an entry with documents was served that was alive.
ResultsSound ==
    \A l \in Lookup :
        /\ step[l] \in {"idle", "missed"} => found[l] = NoEvidence
        /\ step[l] \in {"searching", "searched", "done"} =>
              /\ Sound(found[l])
              /\ found[l].tenant = asks[l].tenant
              /\ asks[l].grounding = "strict" <=> found[l].grounding = "strict"
        /\ step[l] \in {"searching", "searched"} => began[l] <= found[l].at
        /\ step[l] = "done" =>
              \/ began[l] <= found[l].at
              \/ found[l].docs # {} /\ Alive(found[l], began[l])

PastIsPast ==
    /\ \A l \in Lookup : began[l] <= clock
    /\ \A d \in Doc : committedAt[d] <= clock

Domains == DOMAIN found = Lookup /\ DOMAIN cache = Keys

CacheInv == CacheTypeOK /\ Domains /\ PastIsPast /\ EntriesSound /\ ResultsSound

\* The key of a retrieval tells its tenant and whether it is strict.
LEMMA KeyTells ==
    ASSUME CacheTypeOK, NEW l \in Lookup
    PROVE  /\ Key(l) \in Keys
           /\ Key(l)[1] = asks[l].tenant
           /\ Key(l)[2] = 7 <=> asks[l].grounding = "strict"
BY DEF CacheTypeOK, Key, Keys, RerankK

LEMMA CacheInitHolds == CacheInit => CacheInv
BY CacheConstants
   DEF CacheInit, CacheInv, CacheTypeOK, Domains, PastIsPast, EntriesSound, ResultsSound

\* Evidence stays sound when time passes or a document becomes visible.
LEMMA SoundStays ==
    ASSUME NEW e \in Search, CacheTypeOK, Sound(e), UNCHANGED owner,
           clock <= clock', clock' \in Nat,
           \A d \in Doc : docs'[d] = "committed" =>
               \/ docs[d] = "committed" /\ committedAt'[d] = committedAt[d]
               \/ committedAt'[d] = clock
    PROVE  Sound(e)'
<1>1. e.at \in Nat /\ clock \in Nat
  BY CacheConstants DEF CacheTypeOK, Search
<1> QED BY <1>1 DEF Sound

LEMMA LookUpKeeps ==
    ASSUME CacheInv, NEW l \in Lookup, LookUp(l)
    PROVE  CacheInv'
<1> USE CacheConstants DEF CacheInv
<1>1. UNCHANGED <<asks, owner, docs, committedAt, cache, clock>>
  BY DEF LookUp
<1>2. \A e : Sound(e) <=> Sound(e)'
  BY <1>1 DEF Sound
<1>3. EntriesSound' /\ Domains' /\ PastIsPast'
  BY <1>1, <1>2 DEF EntriesSound, LookUp, Domains, PastIsPast, CacheTypeOK
<1>4. CASE Hit(l) /\ found' = [found EXCEPT ![l] = cache[Key(l)]]
           /\ step' = [step EXCEPT ![l] = "done"]
  <2>1. cache[Key(l)] # NoEvidence
    BY <1>4 DEF Hit, NoEvidence
  <2>2. /\ Sound(cache[Key(l)])
        /\ cache[Key(l)].tenant = asks[l].tenant
        /\ cache[Key(l)].grounding = "strict" <=> asks[l].grounding = "strict"
    BY <2>1, KeyTells DEF EntriesSound
  <2>3. cache[Key(l)].docs # {} /\ clock < cache[Key(l)].stored + TTL
    BY <1>4, <2>1, KeyTells DEF Hit, Alive, EntriesSound
  <2>4. CacheTypeOK'
    BY <1>1, <1>4, <2>2, KeyTells DEF CacheTypeOK, LookUp, Domains, Sound
  <2>5. ResultsSound'
    BY <1>1, <1>2, <1>4, <2>2, <2>3 DEF ResultsSound, LookUp, Domains, CacheTypeOK, Alive
  <2> QED BY <1>3, <2>4, <2>5
<1>5. CASE step' = [step EXCEPT ![l] = "missed"] /\ UNCHANGED found
  <2>1. CacheTypeOK'
    BY <1>1, <1>5 DEF CacheTypeOK, LookUp
  <2>2. ResultsSound'
    BY <1>1, <1>2, <1>5 DEF ResultsSound, LookUp, CacheTypeOK
  <2> QED BY <1>3, <2>1, <2>2
<1> QED BY <1>4, <1>5 DEF LookUp

\* A retrieval goes on with sound evidence of its own search.
LEMMA GoesOn ==
    ASSUME CacheInv, NEW l \in Lookup, NEW e \in Search, Sound(e),
           NEW s \in {"searching", "searched"}, step[l] # "done",
           e.tenant = asks[l].tenant, e.grounding = asks[l].grounding, began[l] <= e.at,
           found' = [found EXCEPT ![l] = e], step' = [step EXCEPT ![l] = s],
           UNCHANGED <<asks, began, owner, docs, committedAt, cache, clock>>
    PROVE  CacheInv'
<1> USE CacheConstants DEF CacheInv
<1>1. \A f : Sound(f) <=> Sound(f)'
  BY DEF Sound
<1>2. EntriesSound' /\ Domains' /\ PastIsPast'
  BY <1>1 DEF EntriesSound, Domains, PastIsPast
<1>3. CacheTypeOK'
  BY DEF CacheTypeOK, Domains
<1>4. ResultsSound'
  BY <1>1 DEF ResultsSound, Domains, CacheTypeOK
<1> QED BY <1>2, <1>3, <1>4

LEMMA SearchKeeps ==
    ASSUME CacheInv, NEW l \in Lookup, VectorSearch(l)
    PROVE  CacheInv'
<1> USE CacheConstants DEF CacheInv
<1> DEFINE Fresh(some) ==
        [tenant |-> asks[l].tenant, grounding |-> asks[l].grounding, at |-> clock,
         considered |-> Visible(asks[l].tenant), docs |-> some, stored |-> clock]
<1>1. PICK some \in SUBSET Visible(asks[l].tenant) : found' = [found EXCEPT ![l] = Fresh(some)]
  BY DEF VectorSearch
<1>2. Fresh(some) \in Search
  BY DEF CacheTypeOK, Search, Visible
<1>3. Sound(Fresh(some))
  BY <1>2 DEF CacheTypeOK, Sound, Visible
<1>4. /\ Fresh(some).tenant = asks[l].tenant /\ Fresh(some).grounding = asks[l].grounding
      /\ began[l] <= Fresh(some).at
  BY DEF PastIsPast
<1> HIDE DEF Fresh
<1> QED BY <1>1, <1>2, <1>3, <1>4, GoesOn DEF VectorSearch

\* More documents, or fewer, of the same tenant: the search is the same.
LEMMA SearchGoesOn ==
    ASSUME CacheInv, NEW l \in Lookup, SearchFurther(l) \/ Rank(l)
    PROVE  CacheInv'
<1> USE CacheConstants DEF CacheInv
<1>1. /\ step[l] = "searching" /\ Sound(found[l]) /\ found[l] \in Search
      /\ found[l].tenant = asks[l].tenant /\ began[l] <= found[l].at
      /\ (asks[l].grounding = "strict" <=> found[l].grounding = "strict")
  BY DEF SearchFurther, Rank, ResultsSound, Sound
<1>2. found[l].grounding = asks[l].grounding
  BY <1>1 DEF CacheTypeOK, Search, Grounding
<1>3. PICK some \in SUBSET {d \in Doc : owner[d] = asks[l].tenant} :
        found' = [found EXCEPT ![l].docs = some]
  <2>1. CASE SearchFurther(l)
    <3>1. PICK more \in SUBSET Visible(asks[l].tenant) :
            found' = [found EXCEPT ![l].docs = @ \union more]
      BY <2>1 DEF SearchFurther
    <3>2. found[l].docs \union more \in SUBSET {d \in Doc : owner[d] = asks[l].tenant}
      BY <1>1 DEF Visible, Sound, Search
    <3>3. found' = [found EXCEPT ![l].docs = found[l].docs \union more]
      BY <3>1 DEF Domains
    <3> QED BY <3>2, <3>3
  <2>2. CASE Rank(l)
    BY <1>1, <2>2 DEF Rank, Sound, Search
  <2> QED BY <2>1, <2>2
<1> DEFINE e == [found[l] EXCEPT !.docs = some]
<1>4. /\ e \in Search /\ e.docs = some /\ e.tenant = found[l].tenant /\ e.at = found[l].at
      /\ e.grounding = found[l].grounding /\ e.considered = found[l].considered
  BY <1>1, <1>3 DEF Search
<1>5. found' = [found EXCEPT ![l] = e]
  BY <1>3
<1> HIDE DEF e
<1>6. Sound(e)
  BY <1>1, <1>3, <1>4 DEF Sound
<1>7. PICK s \in {"searching", "searched"} : step' = [step EXCEPT ![l] = s]
  <2>1. CASE SearchFurther(l)
    <3>1. step' = [step EXCEPT ![l] = "searching"]
      BY <1>1, <2>1 DEF SearchFurther, CacheTypeOK
    <3> QED BY <3>1
  <2>2. CASE Rank(l)
    BY <2>2 DEF Rank
  <2> QED BY <2>1, <2>2
<1> QED BY <1>1, <1>2, <1>4, <1>5, <1>6, <1>7, GoesOn DEF SearchFurther, Rank

LEMMA StoreKeeps ==
    ASSUME CacheInv, NEW l \in Lookup, Store(l)
    PROVE  CacheInv'
<1> USE CacheConstants DEF CacheInv
<1>1. UNCHANGED <<asks, began, found, owner, docs, committedAt, clock>>
      /\ step[l] = "searched" /\ step' = [step EXCEPT ![l] = "done"]
  BY DEF Store
<1>2. \A e : Sound(e) <=> Sound(e)'
  BY <1>1 DEF Sound
<1> DEFINE e == [found[l] EXCEPT !.stored = clock]
<1>3. /\ Sound(found[l])
      /\ found[l].tenant = asks[l].tenant
      /\ found[l].grounding = "strict" <=> asks[l].grounding = "strict"
  BY <1>1 DEF ResultsSound
<1>4. /\ e \in Search /\ e.tenant = found[l].tenant /\ e.grounding = found[l].grounding
      /\ e.at = found[l].at /\ e.docs = found[l].docs /\ e.considered = found[l].considered
      /\ e.stored = clock
  BY <1>3 DEF Sound, Search, CacheTypeOK
<1>5. Sound(e) /\ Alive(e, clock)
  BY <1>3, <1>4 DEF Sound, Alive, CacheTypeOK
<1>6. cache' = [cache EXCEPT ![Key(l)] = e] \/ UNCHANGED cache
  BY DEF Store
<1> HIDE DEF e
<1>7. Domains' /\ PastIsPast'
  BY <1>1, <1>6 DEF Domains, PastIsPast
<1>8. CacheTypeOK'
  BY <1>1, <1>4, <1>6, KeyTells DEF CacheTypeOK, Domains
<1>9. EntriesSound'
  <2>1. \A f : Alive(f, clock)' <=> Alive(f, clock)
    BY <1>1 DEF Alive
  <2> QED BY <1>1, <1>2, <1>3, <1>4, <1>5, <1>6, <2>1, KeyTells DEF EntriesSound, Domains
<1>10. ResultsSound'
  BY <1>1, <1>2 DEF ResultsSound, CacheTypeOK
<1> QED BY <1>7, <1>8, <1>9, <1>10

\* Ingestion, and the clock.
LEMMA WorldKeeps ==
    ASSUME CacheInv, Tick \/ \E d \in Doc : Ingest(d) \/ CloseIngest(d)
    PROVE  CacheInv'
<1> USE CacheConstants DEF CacheInv
<1>1. /\ UNCHANGED <<asks, step, began, found, owner>> /\ DOMAIN cache' = Keys
      /\ \A k \in Keys :
            \/ cache'[k] = NoEvidence
            \/ cache'[k] = cache[k] /\ (Alive(cache[k], clock) => Alive(cache[k], clock'))
  <2>1. CASE Tick
    <3>1. clock' = clock + 1
          /\ cache' = [k \in Keys |-> IF Alive(cache[k], clock') THEN cache[k] ELSE NoEvidence]
      BY <2>1 DEF Tick
    <3> HIDE DEF CacheInv
    <3>2. \A k \in Keys : \/ cache'[k] = NoEvidence
                          \/ cache'[k] = cache[k] /\ Alive(cache[k], clock')
      BY <3>1
    <3>3. DOMAIN cache' = Keys
      BY <3>1
    <3> QED BY <2>1, <3>2, <3>3 DEF Tick
  <2>2. CASE \E d \in Doc : Ingest(d) \/ CloseIngest(d)
    BY <2>2 DEF Ingest, CloseIngest, Domains
  <2> QED BY <2>1, <2>2
<1>2. CacheTypeOK'
  BY <1>1 DEF CacheTypeOK, Tick, Ingest, AddChunks, CloseIngest
<1>3. /\ clock \in Nat /\ clock' \in Nat /\ clock <= clock'
  BY DEF CacheTypeOK, Tick, Ingest, CloseIngest
<1>4. \A d \in Doc : docs'[d] = "committed" =>
          \/ docs[d] = "committed" /\ committedAt'[d] = committedAt[d]
          \/ committedAt'[d] = clock
  BY DEF CacheTypeOK, Tick, Ingest, AddChunks, CloseIngest
<1>5. \A e \in Search : Sound(e) => Sound(e)'
  BY <1>1, <1>3, <1>4, SoundStays
<1>6. \A e : Sound(e) => Sound(e)'
  BY <1>5 DEF Sound
<1>7. EntriesSound' /\ ResultsSound' /\ Domains'
  <2>1. Domains' /\ ResultsSound'
    BY <1>1, <1>6 DEF ResultsSound, Domains, Alive
  <2>2. EntriesSound'
    <3> SUFFICES ASSUME NEW k \in Keys, cache'[k] # NoEvidence
                 PROVE  /\ Sound(cache[k])' /\ Alive(cache[k], clock)'
                        /\ cache'[k].tenant = k[1]
                        /\ cache'[k].grounding = "strict" <=> k[2] = 7
      BY DEF EntriesSound
    <3>1. cache'[k] = cache[k] /\ (Alive(cache[k], clock) => Alive(cache[k], clock'))
      BY <1>1
    <3>2. /\ Sound(cache[k]) /\ Alive(cache[k], clock) /\ cache[k].tenant = k[1]
          /\ cache[k].grounding = "strict" <=> k[2] = 7
      BY <3>1 DEF EntriesSound
    <3>3. Sound(cache[k])'
      BY <1>6, <3>1, <3>2
    <3> QED BY <3>1, <3>2, <3>3 DEF Alive
  <2> QED BY <2>1, <2>2
<1>8. PastIsPast'
  BY <1>1, <1>3 DEF PastIsPast, CacheTypeOK, Tick, Ingest, CloseIngest
<1> QED BY <1>2, <1>7, <1>8

LEMMA CacheNextKeeps == CacheInv /\ [CacheNext]_cacheVars => CacheInv'
<1> SUFFICES ASSUME CacheInv, [CacheNext]_cacheVars PROVE CacheInv'
  OBVIOUS
<1>1. CASE UNCHANGED cacheVars
  BY <1>1 DEF cacheVars, CacheInv, CacheTypeOK, Domains, PastIsPast, EntriesSound, ResultsSound, Sound,
     Alive
<1>2. CASE CacheNext
  BY <1>2, LookUpKeeps, SearchKeeps, SearchGoesOn, StoreKeeps, WorldKeeps DEF CacheNext
<1> QED BY <1>1, <1>2

\* Entries and results stay sound under every retrieval, ingestion and expiry.
THEOREM CacheInvariance == CacheSpec => []CacheInv
BY CacheInitHolds, CacheNextKeeps, PTL DEF CacheSpec

\* Tenants never see each other's evidence through the cache, and a strict
\* retrieval never gets what a lighter one found (_key, _cached_retrieve).
THEOREM EvidenceIsNotMixedUp == CacheSpec => []EvidenceIsOnesOwn
<1>1. CacheInv => EvidenceIsOnesOwn
  BY DEF CacheInv, CacheTypeOK, ResultsSound, Sound, EvidenceIsOnesOwn
<1> QED BY <1>1, CacheInvariance, PTL

\* A document is hidden by the cache for the life of an entry and the search that
\* made it, no longer (_cached_retrieve, set_cached, ingest).
THEOREM DelayIsBounded == CacheSpec => []DocumentsAreConsidered
<1>1. ASSUME CacheInv PROVE DocumentsAreConsidered
  <2>1. SUFFICES ASSUME NEW l \in Lookup, NEW d \in Doc,
                        step[l] = "done", docs[d] = "committed",
                        owner[d] = asks[l].tenant, committedAt[d] < began[l]
                 PROVE  \/ d \in found[l].considered
                        \/ /\ found[l].docs # {} /\ found[l].at <= committedAt[d]
                           /\ began[l] < found[l].stored + TTL
    BY DEF DocumentsAreConsidered
  <2>2. d \in found[l].considered \/ found[l].at <= committedAt[d]
    BY <1>1, <2>1 DEF CacheInv, ResultsSound, Sound
  <2>3. \/ began[l] <= found[l].at
        \/ found[l].docs # {} /\ began[l] < found[l].stored + TTL
    BY <1>1, <2>1 DEF CacheInv, ResultsSound, Alive
  <2>4. found[l].at \in Nat /\ committedAt[d] \in Nat /\ began[l] \in Nat
    BY <1>1, <2>1, CacheConstants DEF CacheInv, CacheTypeOK, ResultsSound, Sound, Search
  <2> QED BY <2>1, <2>2, <2>3, <2>4
<1> QED BY <1>1, CacheInvariance, PTL

-----------------------------------------------------------------------------
\* The registry of models.

\* The lock is held by the thread that is past it, and by no other; a thread
\* that came to ask wants an artifact.
LockIsExclusive ==
    \A w \in Worker :
        /\ at[w] \in {"inside", "reading"} <=> lock = w
        /\ at[w] # "out" => wants[w] \in Artifact

\* A file is read for a name that is still unknown, and it is there: whatever
\* retraining does to it meanwhile, it does not remove it.
ReadsAreDue ==
    \A w \in Worker :
        at[w] = "reading" => registry[wants[w]] = Unknown /\ files[wants[w]] # Missing

RegistryInv == RegistryTypeOK /\ LockIsExclusive /\ ReadsAreDue /\ ReadOnce

\* Nothing is loaded, and nobody asks, when the process starts.
LEMMA RegistryInitHolds == RegistryInit => RegistryInv
BY RegistryConstants
   DEF RegistryInit, RegistryInv, RegistryTypeOK, LockIsExclusive, ReadsAreDue, ReadOnce, Generation,
       Missing, Unknown, Fallback, NoArtifact

\* A model that was read, or the rules in its place, is never mistaken for a
\* name that is not in the cache.
LEMMA OutcomeIsKnown ==
    ASSUME RegistryTypeOK, NEW w \in Worker, wants[w] \in Artifact, files[wants[w]] # Missing
    PROVE  Outcome(w) \in Generation \union {Fallback} /\ Outcome(w) # Unknown
<1>1. files[wants[w]] \in Generation \union {Torn}
  BY DEF RegistryTypeOK
<1>2. Fallback # Unknown /\ Unknown \notin Generation
  BY RegistryConstants DEF Generation, Unknown, Fallback
<1> QED BY <1>1, <1>2 DEF Outcome

\* The steps of load.
LEMMA LoadKeeps ==
    ASSUME RegistryInv, NEW w \in Worker,
           \/ \E a \in Artifact : LoadArtifact(w, a)
           \/ TakeLock(w) \/ LookAgain(w) \/ ReadFile(w)
    PROVE  RegistryInv'
<1> USE RegistryConstants DEF RegistryInv, RegistryTypeOK, retrainVars
<1>1. ASSUME NEW a \in Artifact, LoadArtifact(w, a) PROVE RegistryInv'
  BY <1>1 DEF LoadArtifact, LockIsExclusive, ReadsAreDue, ReadOnce
<1>2. CASE TakeLock(w)
  BY <1>2 DEF TakeLock, LockIsExclusive, ReadsAreDue, ReadOnce
<1>3. CASE LookAgain(w)
  <2>1. wants[w] \in Artifact /\ lock = w /\ at[w] = "inside"
    BY <1>3 DEF LookAgain, LockIsExclusive
  <2>2. Fallback # Unknown
    BY DEF Fallback, Unknown
  <2>3. RegistryTypeOK'
    BY <1>3, <2>1 DEF LookAgain, Release
  <2>4. LockIsExclusive'
    BY <1>3, <2>1 DEF LookAgain, Release, LockIsExclusive
  <2>5. ReadsAreDue'
    BY <1>3, <2>1 DEF LookAgain, Release, ReadsAreDue, StillUnknown, LockIsExclusive
  <2>6. ReadOnce'
    BY <1>3, <2>1, <2>2 DEF LookAgain, Release, ReadOnce, StillUnknown, LockIsExclusive
  <2> QED BY <2>3, <2>4, <2>5, <2>6
<1>4. CASE ReadFile(w)
  <2>1. /\ wants[w] \in Artifact /\ lock = w /\ at[w] = "reading"
        /\ registry[wants[w]] = Unknown /\ loads[wants[w]] = 0
        /\ Outcome(w) \in Generation \union {Fallback} /\ Outcome(w) # Unknown
    BY <1>4, OutcomeIsKnown DEF ReadFile, LockIsExclusive, ReadsAreDue, ReadOnce
  <2>2. \A v \in Worker \ {w} : at[v] \notin {"inside", "reading"}
    BY <2>1 DEF LockIsExclusive
  <2>3. RegistryTypeOK'
    BY <1>4, <2>1 DEF ReadFile, Release
  <2>4. LockIsExclusive' /\ ReadsAreDue'
    BY <1>4, <2>1, <2>2 DEF ReadFile, Release, LockIsExclusive, ReadsAreDue
  <2>5. ReadOnce'
    BY <1>4, <2>1, <2>2 DEF ReadFile, Release, ReadOnce
  <2> QED BY <2>3, <2>4, <2>5
<1> QED BY <1>1, <1>2, <1>3, <1>4

\* The steps of retraining: files become torn or newer, never missing.
LEMMA RetrainKeeps ==
    ASSUME RegistryInv, Retrain \/ \E a \in Artifact : Dump(a) \/ Dumped(a)
    PROVE  RegistryInv'
<1> USE RegistryConstants DEF RegistryInv, RegistryTypeOK, LockIsExclusive, ReadsAreDue, ReadOnce
<1>1. CASE Retrain
  BY <1>1 DEF Retrain, Generation
<1>2. ASSUME NEW a \in Artifact, Dump(a) PROVE RegistryInv'
  <2>1. Torn # Missing
    BY DEF Torn, Missing
  <2>2. CASE files' = [files EXCEPT ![a] = Torn] /\ writer' = a /\ UNCHANGED promoted
    BY <1>2, <2>1, <2>2 DEF Dump
  <2>3. CASE promoted' = promoted \union {a} /\ UNCHANGED <<files, writer>>
    BY <1>2, <2>3 DEF Dump
  <2> QED BY <1>2, <2>2, <2>3 DEF Dump
<1>3. ASSUME NEW a \in Artifact, Dumped(a) PROVE RegistryInv'
  BY <1>3 DEF Dumped, Generation, Missing
<1> QED BY <1>1, <1>2, <1>3

LEMMA RestartKeeps == RegistryInv /\ Restart => RegistryInv'
BY RegistryConstants
   DEF RegistryInv, RegistryTypeOK, LockIsExclusive, ReadsAreDue, ReadOnce, Restart, retrainVars,
       Unknown, NoArtifact

LEMMA RegistryNextKeeps == RegistryInv /\ [RegistryNext]_registryVars => RegistryInv'
<1> SUFFICES ASSUME RegistryInv, [RegistryNext]_registryVars PROVE RegistryInv'
  OBVIOUS
<1>1. CASE UNCHANGED registryVars
  BY <1>1 DEF registryVars, RegistryInv, RegistryTypeOK, LockIsExclusive, ReadsAreDue, ReadOnce
<1>2. CASE RegistryNext
  BY <1>2, LoadKeeps, RetrainKeeps, RestartKeeps DEF RegistryNext
<1> QED BY <1>1, <1>2

\* The lock has one holder, and only the holder reads a file not yet read.
THEOREM RegistryInvariance == RegistrySpec => []RegistryInv
BY RegistryInitHolds, RegistryNextKeeps, PTL DEF RegistrySpec

\* However many threads ask for a model at once, its file is read at most once
\* in the life of a process, and by one of them (registry.load).
THEOREM FilesAreReadOnce == RegistrySpec => []ReadOnce
<1>1. RegistryInv => ReadOnce
  BY DEF RegistryInv
<1> QED BY <1>1, RegistryInvariance, PTL

-----------------------------------------------------------------------------
\* The three together.

\* A behaviour of the three programs side by side is a behaviour of each: one
\* of them moves, the others stutter.
THEOREM SharingIsEach == SharingSpec => UsageSpec /\ CacheSpec /\ RegistrySpec
<1>1. SharingInit => UsageInit /\ CacheInit /\ RegistryInit
  BY DEF SharingInit
<1>2. [SharingNext]_<<part, usageVars, cacheVars, registryVars>> => [UsageNext]_usageVars
  BY DEF SharingNext
<1>3. [SharingNext]_<<part, usageVars, cacheVars, registryVars>> => [CacheNext]_cacheVars
  BY DEF SharingNext
<1>4. [SharingNext]_<<part, usageVars, cacheVars, registryVars>>
         => [RegistryNext]_registryVars
  BY DEF SharingNext
<1> QED BY <1>1, <1>2, <1>3, <1>4, PTL DEF SharingSpec, UsageSpec, CacheSpec, RegistrySpec

\* A behaviour stays with the part it exercises.
PartKnown == part \in {"usage", "cache", "registry"}

\* Every variable of the three modules keeps its type, in every behaviour.
THEOREM SharingTypes == SharingSpec => []SharingTypeOK
<1>1. SharingInit => PartKnown
  BY DEF SharingInit, PartKnown
<1>2. PartKnown /\ [SharingNext]_<<part, usageVars, cacheVars, registryVars>> => PartKnown'
  BY DEF SharingNext, PartKnown
<1>3. UsageInv /\ CacheInv /\ RegistryInv /\ PartKnown => SharingTypeOK
  BY DEF UsageInv, CacheInv, RegistryInv, PartKnown, SharingTypeOK
<1> QED BY <1>1, <1>2, <1>3, SharingIsEach, UsageInvariance, CacheInvariance,
           RegistryInvariance, PTL DEF SharingSpec
=============================================================================
