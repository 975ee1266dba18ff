CONSTANTS
    k1 = k1
    k2 = k2
    k3 = k3
    k4 = k4
    devKey = devKey
    t1 = t1
    t2 = t2
    devTenant = devTenant
    Keys <- AllKeys
    NoKey = NoKey
    NoId = NoId
    FileTenants <- File
    EnvTenants <- Environment
    PrefixId <- Prefixes
    DevKey = devKey
    DevId = devTenant
    DefaultRate <- NegativeRate
    DefaultBurst = 4
    Unit = 4
    Horizon = 7
SPECIFICATION Spec
INVARIANTS
    TypeOK
    WindowBound
    RefusedWhenSpent
PROPERTY RefillsContinuously
