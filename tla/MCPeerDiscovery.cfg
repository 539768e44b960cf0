SPECIFICATION FairSpec
CONSTANTS
    n1 = n1
    n2 = n2
    Nodes = {n1, n2}
    Self = n1
    WireIds = {n1, n2}
    Wire <- ShortIds
    Loads = {idle}
    NoReading = NoReading
    PeerTimeout = 1
    MaxAir = 1
INVARIANTS
    NoGhostPeers
PROPERTIES
    SilentPeerForgotten
    RestartReturns
