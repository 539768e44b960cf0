SPECIFICATION FairSpec
CONSTANTS
    c1 = c1
    c2 = c2
    Clients = {c1, c2}
    NoClient = NoClient
    ReqLen <- Requests
    RespLen <- Responses
    Header = 1
    MaxLen = 2
    Buffer = 2
    Timeout = 1
    SendTimeout = 1
    ServerTimeout = 1
    MaxSpurious = 1
INVARIANTS
    WholeRequests
    OkMeansAnswered
    RoundTripBounded
 
