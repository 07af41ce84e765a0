CONSTANTS
    p1 = p1
    p2 = p2
    s1 = s1
    s2 = s2
    NoPeer = NoPeer
    Peers <- MCPeers
    Services = {s1, s2}
    MaxRev = 6
SYMMETRY Symm
SPECIFICATION Spec
INVARIANT TypeOK
INVARIANT KeysPaired
PROPERTY RefinesServiceLock
