SPECIFICATION OrderedAuditSpec
CONSTANTS
    a = a
    b = b
    ssh = ssh
    web = web
    NoKey = NoKey
    NoPort = NoPort
    Pairs <- MCPairs
    Ports <- MCPorts
    RiskyPorts = {ssh}
    Packets <- Busy4
    Times = {1, 2, 3, 4, 5, 6}
    Configs <- Cooldowns
    MaxHosts = 1
    MaxEvents = 1
    MaxPorts = 1
    MaxHistory = 2
INVARIANTS
    AuditTypeOK
    FlowsTrackedOnce
    SilenceJustified
PROPERTIES
    RulesImplemented
    RepeatsOnlyForgotten
    ForgottenOnlyWhenCrowded
