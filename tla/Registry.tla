------------------------------ MODULE Registry ------------------------------
(***************************************************************************)
(* Trained models: the files in the artifacts directory, the job that      *)
(* replaces them, and the registry through which a serving process loads   *)
(* them.                                                                   *)
(*                                                                         *)
(* registry.load remembers the first outcome for a name, a missing or      *)
(* unreadable file included, and every later caller gets that outcome.     *)
(* retrain_from_eval --promote, another process, writes over the files in  *)
(* place.  The same lock, tested twice, guards the models of the           *)
(* embeddings, the reranker, NLI and zero-shot classification, which come  *)
(* from files nobody writes.                                               *)
(***************************************************************************)
EXTENDS Naturals, FiniteSets

CONSTANTS
    Worker,       \* threads of the serving process
    Artifact,     \* the models, numbered in the order retraining writes them:
                  \* 1 is the risk model, 2 the calibrator
    Nobody,       \* nobody holds the lock
    Promotions,   \* bound: retrainings with --promote
    Restarts      \* bound: restarts of the serving process

ASSUME RegistryConstants ==
    Artifact \subseteq Nat \ {0} /\ Nobody \notin Worker /\ Promotions \in Nat /\ Restarts \in Nat

Generation == 1..(Promotions + 1)     \* 1: the shipped models
Missing == Promotions + 2
Torn == Promotions + 3                \* a file that is being written

Fallback == 0                         \* None: the caller's rules decide
Unknown == Promotions + 2             \* the name is not in _cache

VARIABLES
    files,        \* what each artifact's file holds
    writer,       \* the artifact that joblib.dump is writing, or none
    promoted,     \* artifacts the current retraining has written
    generation,   \* the models of the current retraining
    registry,     \* _cache of the serving process
    lock,         \* _lock
    wants,        \* the artifact each thread is asking for, or none
    at,           \* where load stands in each thread
    loads,        \* history: files loaded by the process, by artifact
    restarts

registryVars == <<files, writer, promoted, generation, registry, lock, wants, at,
                  loads, restarts>>
NoArtifact == 0

RegistryTypeOK ==
    /\ files \in [Artifact -> Generation \union {Torn, Missing}]
    /\ writer \in Artifact \union {NoArtifact}
    /\ promoted \subseteq Artifact
    /\ generation \in Generation
    /\ registry \in [Artifact -> Generation \union {Fallback, Unknown}]
    /\ lock \in Worker \union {Nobody}
    /\ wants \in [Worker -> Artifact \union {NoArtifact}]
    /\ at \in [Worker -> {"out", "asking", "inside", "reading"}]
    /\ loads \in [Artifact -> Nat]
    /\ restarts \in 0..Restarts

RegistryInit ==
    /\ files \in [Artifact -> {1, Missing}]
    /\ writer = NoArtifact
    /\ promoted = Artifact
    /\ generation = 1
    /\ registry = [a \in Artifact |-> Unknown]
    /\ lock = Nobody
    /\ wants = [w \in Worker |-> NoArtifact]
    /\ at = [w \in Worker |-> "out"]
    /\ loads = [a \in Artifact |-> 0]
    /\ restarts = 0

retrainVars == <<writer, promoted, generation>>

\* load(name): in the cache or not; without the lock.
LoadArtifact(w, a) ==
    /\ at[w] = "out" /\ registry[a] = Unknown
    /\ at' = [at EXCEPT ![w] = "asking"]
    /\ wants' = [wants EXCEPT ![w] = a]
    /\ UNCHANGED <<files, retrainVars, registry, lock, loads, restarts>>

\* with _lock
TakeLock(w) ==
    /\ at[w] = "asking" /\ lock = Nobody
    /\ lock' = w
    /\ at' = [at EXCEPT ![w] = "inside"]
    /\ UNCHANGED <<files, retrainVars, registry, wants, loads, restarts>>

\* The second look, with the lock held.
NotAgain(w) == TRUE
StillUnknown(w) == registry[wants[w]] = Unknown

Release(w) ==
    /\ lock' = Nobody
    /\ at' = [at EXCEPT ![w] = "out"]
    /\ wants' = [wants EXCEPT ![w] = NoArtifact]

\* Another thread was first, or the file exists, or it does not.
LookAgain(w) ==
    /\ at[w] = "inside"
    /\ \/ /\ ~StillUnknown(w)
          /\ Release(w)
          /\ UNCHANGED registry
       \/ /\ StillUnknown(w) /\ files[wants[w]] = Missing
          /\ registry' = [registry EXCEPT ![wants[w]] = Fallback]
          /\ Release(w)
       \/ /\ StillUnknown(w) /\ files[wants[w]] # Missing
          /\ at' = [at EXCEPT ![w] = "reading"]
          /\ UNCHANGED <<lock, wants, registry>>
    /\ UNCHANGED <<files, retrainVars, loads, restarts>>

\* joblib.load: a whole model, or an exception on a file being written.
TornAccepted(w) == files[wants[w]]
Outcome(w) == IF files[wants[w]] = Torn THEN Fallback ELSE files[wants[w]]

ReadFile(w) ==
    /\ at[w] = "reading"
    /\ registry' = [registry EXCEPT ![wants[w]] = Outcome(w)]
    /\ loads' = [loads EXCEPT ![wants[w]] = @ + 1]
    /\ Release(w)
    /\ UNCHANGED <<files, retrainVars, restarts>>

\* retrain_from_eval --promote starts with the rows of an evaluation.
Retrain ==
    /\ promoted = Artifact /\ writer = NoArtifact /\ generation <= Promotions
    /\ generation' = generation + 1
    /\ promoted' = {}
    /\ UNCHANGED <<files, writer, registry, lock, wants, at, loads, restarts>>

\* joblib.dump opens the file for writing; too few rows skip the artifact.
Dump(a) ==
    /\ a \notin promoted /\ writer = NoArtifact
    /\ \A b \in Artifact : b < a => b \in promoted
    /\ \/ files' = [files EXCEPT ![a] = Torn] /\ writer' = a /\ UNCHANGED promoted
       \/ promoted' = promoted \union {a} /\ UNCHANGED <<files, writer>>
    /\ UNCHANGED <<generation, registry, lock, wants, at, loads, restarts>>

Dumped(a) ==
    /\ writer = a
    /\ files' = [files EXCEPT ![a] = generation]
    /\ writer' = NoArtifact
    /\ promoted' = promoted \union {a}
    /\ UNCHANGED <<generation, registry, lock, wants, at, loads, restarts>>

\* The serving process starts again with an empty cache.
Restart ==
    /\ restarts < Restarts
    /\ restarts' = restarts + 1
    /\ registry' = [a \in Artifact |-> Unknown]
    /\ lock' = Nobody
    /\ wants' = [w \in Worker |-> NoArtifact]
    /\ at' = [w \in Worker |-> "out"]
    /\ loads' = [a \in Artifact |-> 0]
    /\ UNCHANGED <<files, retrainVars>>

RegistryNext ==
    \/ \E w \in Worker : \/ \E a \in Artifact : LoadArtifact(w, a)
                         \/ TakeLock(w) \/ LookAgain(w) \/ ReadFile(w)
    \/ \E a \in Artifact : Dump(a) \/ Dumped(a)
    \/ Retrain
    \/ Restart

RegistrySpec == RegistryInit /\ [][RegistryNext]_registryVars

-----------------------------------------------------------------------------
\* Properties.

\* A process reads an artifact's file at most once, however many threads ask
\* for it at the same time, and what it got is what every thread has until the
\* process ends, although the file is replaced meanwhile (load).
ReadOnce ==
    \A a \in Artifact :
        /\ loads[a] <= 1
        /\ registry[a] = Unknown => loads[a] = 0
        /\ \A v, w \in Worker :
              at[v] = "reading" /\ at[w] = "reading" => v = w
=============================================================================
