----------------------------- MODULE TenantConfig -----------------------------
(***************************************************************************)
(* The tenants a process serves (internal/config/config.go): those of the   *)
(* configuration file, overlaid by the list of TENANT_API_KEYS, a developer  *)
(* key if there are none, and the defaults for what an entry leaves open.    *)
(***************************************************************************)
EXTENDS Integers, Sequences

CONSTANTS
    Keys,          \* the API keys
    NoKey, NoId,   \* an entry without a key, without a tenant ID
    FileTenants,   \* the tenants of the file, in its order; << >> without a file
    EnvTenants,    \* the well-formed pairs of TENANT_API_KEYS, in their order
    PrefixId,      \* the ID made of the first eight characters of each key
    DevKey, DevId, \* dev-key-1 and default-tenant
    DefaultRate, DefaultBurst  \* TENANT_RATE_RPS and TENANT_RATE_BURST, of either sign

TenantIds == {FileTenants[i].id : i \in DOMAIN FileTenants}
               \cup {EnvTenants[i].id : i \in DOMAIN EnvTenants}
               \cup {PrefixId[k] : k \in Keys} \cup {DevId}

\* A rate or burst of zero or less stands for one that is not configured.
Tenant == [id : TenantIds, rate : Int, burst : Int]

ASSUME TenantAssumption ==
    /\ NoKey \notin Keys /\ DevKey \in Keys
    /\ FileTenants \in Seq([key : Keys \cup {NoKey}, id : TenantIds, rate : Int, burst : Int])
    /\ EnvTenants \in Seq([key : Keys, id : TenantIds])
    /\ DOMAIN PrefixId = Keys
    /\ NoId \notin {PrefixId[k] : k \in Keys} \cup {DevId}
    /\ DefaultRate \in Int /\ DefaultBurst \in Int

\* The last entry of a list for a key: later ones overwrite earlier ones.
LastFor(list, key) ==
    list[CHOOSE i \in DOMAIN list :
            list[i].key = key /\ \A j \in DOMAIN list : j > i => list[j].key # key]

KeysOf(list) == {list[i].key : i \in DOMAIN list} \ {NoKey}

overlayFile ==
    [key \in KeysOf(FileTenants) |->
        LET entry == LastFor(FileTenants, key)
        IN  [id |-> entry.id, rate |-> entry.rate, burst |-> entry.burst]]

\* An entry of the environment replaces the whole entry of the file, its limits too.
parseTenantKeys(tenants) ==
    [key \in KeysOf(EnvTenants) \cup DOMAIN tenants |->
        IF key \in KeysOf(EnvTenants)
        THEN [id |-> LastFor(EnvTenants, key).id, rate |-> 0, burst |-> 0]
        ELSE tenants[key]]

withDevTenant(tenants) ==
    IF DOMAIN tenants = {}
    THEN [key \in {DevKey} |-> [id |-> DevId, rate |-> DefaultRate, burst |-> DefaultBurst]]
    ELSE tenants

\* A variant of withDefaults that forgets the burst.
withDefaultRate(key, tenant) ==
    [tenant EXCEPT !.rate = IF @ <= 0 THEN DefaultRate ELSE @,
                   !.id   = IF @ = NoId THEN PrefixId[key] ELSE @]

withDefaults(key, tenant) ==
    [tenant EXCEPT !.rate  = IF @ <= 0 THEN DefaultRate ELSE @,
                   !.burst = IF @ <= 0 THEN DefaultBurst ELSE @,
                   !.id    = IF @ = NoId THEN PrefixId[key] ELSE @]

\* What Load leaves in cfg.TenantsByKey.
TenantsByKey ==
    LET tenants == withDevTenant(parseTenantKeys(overlayFile))
    IN  [key \in DOMAIN tenants |-> withDefaults(key, tenants[key])]

=============================================================================
