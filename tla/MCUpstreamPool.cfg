SPECIFICATION Spec
CONSTANTS
    h1 = h1
    h2 = h2
    ad1 = ad1
    ad2 = ad2
    NoId = NoId
    Ids <- MCIds
    Addrs <- MCAddrs
    Builds = {1, 2}
    MaxPlayers = 1
    MaxAgents = 2
    MaxRestarts = 1
    MaxDupAdds = 0
INVARIANT TypeOK
PROPERTY ClosedAgentExits UnpooledAgentExits
