SPECIFICATION Spec
CONSTANTS
    a = a
    b = b
    f = f
    g = g
    x = x
    Checks = {a, b}
    Required = {a}
    Files = {f, x}
    Repo = {f}
    Proven <- Shared
    Configs = {c1}
    NoConfig = NoConfig
    Envs = {e1, e2}
    Concurrency = 1
    MaxClock = 2
    MaxConfigOps = 0
    MaxTrustOps = 0
    MaxStops = 1
    MaxFaults = 0
    MaxSaveFaults = 0
    MaxLoadFaults = 1
INVARIANTS
    RunningOwned
PROPERTIES
    NoRedundantRun
