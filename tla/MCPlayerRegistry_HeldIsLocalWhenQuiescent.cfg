CONSTANTS
    p1 = p1
    p2 = p2
    u1 = u1
    u2 = u2
    NoPeer = NoPeer
    Peers <- MCPeers
    Users = {u1}
    Types <- MCTypes
    PeerType <- MCPeerType
    MaxRev = 6
SYMMETRY Symm
SPECIFICATION Spec
INVARIANT HeldIsLocalWhenQuiescent
