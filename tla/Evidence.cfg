SPECIFICATION OrderedSpec
CONSTANTS
    a = a
    b = b
    c = c
    ssh = ssh
    web = web
    NoKey = NoKey
    NoPort = NoPort
    Pairs = {a, b}
    Ports <- MCPorts
    RiskyPorts = {ssh}
    Packets <- Contest
    Times = {1, 2, 3}
    Configs <- Loud
    MaxHosts = 2
    MaxEvents = 2
    MaxPorts = 2
    MaxHistory = 2
INVARIANTS
    EvidenceHolds
PROPERTIES
    RulesImplemented
