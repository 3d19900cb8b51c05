----------------------------- MODULE MCSharing -----------------------------
(* What the requests of a process share: the gateway's global, the evidence  *)
(* cache and the registry of models.  The three have no variable in common:  *)
(* a behaviour exercises the one named by part, the others stand still.      *)
EXTENDS Usage, EvidenceCache, Registry, TLC

CONSTANTS p1, p2, p3, l1, l2, t1, t2, d1, d2, w1, w2

VARIABLE part

Interchangeable == Permutations({p1, p2, p3}) \union Permutations({w1, w2})

SharingInit ==
    /\ UsageInit /\ CacheInit /\ RegistryInit
    /\ part \in {"usage", "cache", "registry"}
    /\ asks[l1].tenant = t1 /\ owner[d1] = t1      \* the tenants are interchangeable
    /\ part # "cache" => /\ asks = [l \in Lookup |-> [tenant |-> t1, grounding |-> "light"]]
                         /\ owner = [d \in Doc |-> t1]
    /\ part # "registry" => files = [a \in Artifact |-> 1]

SharingNext ==
    /\ UNCHANGED part
    /\ \/ part = "usage" /\ UsageNext /\ UNCHANGED <<cacheVars, registryVars>>
       \/ part = "cache" /\ CacheNext /\ UNCHANGED <<usageVars, registryVars>>
       \/ part = "registry" /\ RegistryNext /\ UNCHANGED <<usageVars, cacheVars>>

SharingSpec == SharingInit /\ [][SharingNext]_<<part, usageVars, cacheVars, registryVars>>

\* Every variable of the three modules has its type.
SharingTypeOK ==
    /\ part \in {"usage", "cache", "registry"}
    /\ UsageTypeOK /\ CacheTypeOK /\ RegistryTypeOK

=============================================================================
