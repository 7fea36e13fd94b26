CONSTANTS
    Transports = {"tcp", "tls"}
    Servers = {0, 1, 2}
    MaxEndpoints = 2
    MaxGen = 3
    Faults = {"cancel", "shutdown", "timeout", "fatal"}
SPECIFICATION FairSpec
PROPERTIES
    KeepsGoodConnection
    
    EveryReconnectEnds
    
