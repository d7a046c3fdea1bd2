SPECIFICATION HSpec
CONSTANTS
    a = a
    f = f
    g = g
    Checks = {a}
    Required = {a}
    Files = {f, g}
    Repo = {f, g}
    Proven <- OneCheck
    Configs = {c1}
    NoConfig = NoConfig
    Envs = {e1}
    Concurrency = 1
    MaxClock = 3
    MaxConfigOps = 0
    MaxTrustOps = 0
    MaxStops = 0
    MaxFaults = 0
    MaxSaveFaults = 1
    MaxLoadFaults = 0
INVARIANTS
    TypeOK
    VerdictUntorn
    VerdictSawNoPhantom
PROPERTIES
    ImplementsContract
