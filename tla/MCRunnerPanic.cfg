SPECIFICATION Spec
CONSTANTS
    n1 = n1
    n2 = n2
    n3 = n3
    NodeNames <- MCNodeNames
    DefaultGrpcPort = 65534
    HttpPort = 9650
    Faults = {}
    MaxSignals = 2
INVARIANT NoPanic
