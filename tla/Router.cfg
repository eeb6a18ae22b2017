SPECIFICATION Spec
CONSTANTS
    BITS = 4
    NoNode = NoNode
    Own = Own
    Seen = Seen
    Endpoint = {Own, Seen}
    SelfUuid = 13
    PeerUuids = {0, 3, 8, 12, 14, 15}
    Aliased = {13, 15}
    self <- MCSelf
    Peers <- MCPeers
INVARIANTS
    TypeOK
    FingersInInterval
    FingersOrdered
    FingersTight
    NoGhost
    ExactWithoutFailures
    PrecedingNodesOrdered
    PredecessorKnown
PROPERTY
    FingersMonotone
