SPECIFICATION ScanSpec
CONSTANTS
    a = a
    b = b
    ssh = ssh
    web = web
    dns = dns
    NoKey = NoKey
    NoPort = NoPort
    Pairs <- MCPairs
    Ports <- MCPorts
    RiskyPorts = {}
    Packets <- Scanners
    Times = {1, 2, 3}
    Configs <- Chains
    MaxHosts = 1
    MaxEvents = 2
    MaxPorts = 2
    MaxHistory = 1
INVARIANTS
    NoFalseScan
    MissedScanHasCause
