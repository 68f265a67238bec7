SPECIFICATION Spec
CONSTANTS
    a = a
    b = b
    c = c
    ssh = ssh
    web = web
    NoKey = NoKey
    NoPort = NoPort
    Pairs <- MCPairs
    Ports <- MCPorts
    RiskyPorts = {ssh}
    Packets <- OnePair
    Times = {1, 2, 3}
    Configs <- AllRules
    MaxHosts = 2
    MaxEvents = 2
    MaxPorts = 2
    MaxHistory = 2
INVARIANTS
    EvidenceHolds
