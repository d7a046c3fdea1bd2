SPECIFICATION SessionSpec
CONSTANTS
    Adapters = {a1}
    Clis = {c1}
    Registries = {}
    None = none
    MaxPids = 2
INVARIANTS
    TypeOK
    OneMaintainer
    SocketLeadsToServer
PROPERTY
    EventuallyServed
CHECK_DEADLOCK FALSE
