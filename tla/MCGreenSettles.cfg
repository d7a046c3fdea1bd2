SPECIFICATION FairSpec
CONSTANTS
    a = a
    b = b
    f = f
    g = g
    x = x
    Checks = {a}
    Required = {a}
    Files = {f}
    Repo = {f}
    Proven <- OneFile
    Configs = {c1}
    NoConfig = NoConfig
    Envs = {e1}
    Concurrency = 1
    MaxClock = 2
    MaxConfigOps = 1
    MaxTrustOps = 2
    MaxStops = 1
    MaxFaults = 1
    MaxSaveFaults = 0
    MaxLoadFaults = 0
PROPERTIES
    EventuallyCurrent
