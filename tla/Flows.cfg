SPECIFICATION Spec
CONSTANTS
    a = a
    b = b
    c = c
    ssh = ssh
    web = web
    NoKey = NoKey
    NoPort = NoPort
    Pairs <- MCPairs
    Ports <- MCPorts
    RiskyPorts = {ssh}
    Packets <- Flows
    Times = {1, 2, 3}
    Configs <- Limits
    MaxHosts = 2
    MaxEvents = 2
    MaxPorts = 1
    MaxHistory = 2
INVARIANTS
    TypeOK
    FlowsTrackedOnce
    SlotsInUse
    OutOfReachNeverClaims
PROPERTIES
    RefusedOnlyWhenBusy
    LiveEventsStay
