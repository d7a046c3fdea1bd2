SPECIFICATION Spec
CONSTANTS
    a = a
    b = b
    f = f
    g = g
    x = x
    Checks = {a, b}
    Required = {a}
    Files = {f, g}
    Repo = {f, g}
    Proven <- Pair
    Configs = {c1, c2}
    NoConfig = NoConfig
    Envs = {e1}
    Concurrency = 1
    MaxClock = 1
    MaxConfigOps = 1
    MaxTrustOps = 1
    MaxStops = 0
    MaxFaults = 0
    MaxSaveFaults = 0
    MaxLoadFaults = 0
INVARIANTS
    GreenIsEarned
