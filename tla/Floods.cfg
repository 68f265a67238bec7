SPECIFICATION FloodSpec
CONSTANTS
    a = a
    b = b
    c = c
    ssh = ssh
    NoKey = NoKey
    NoPort = NoPort
    Pairs <- MCPairs
    Ports <- MCPorts
    RiskyPorts = {}
    Packets <- ThreeFlows
    Times = {1, 2, 3, 4}
    Configs <- EitherFlood
    MaxHosts = 2
    MaxEvents = 2
    MaxPorts = 1
    MaxHistory = 1
    ArrivalCap = 2
INVARIANTS
    NoFalseAlarm
    MissedOnlyAfterLoss
    LossHasCause
SYMMETRY Symmetry
