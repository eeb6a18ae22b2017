SPECIFICATION Spec
CONSTANTS
    BITS = 4
    NoNode = NoNode
    Endpoint = {"adv", "peer", "none"}
    Members = {0, 4, 8, 12}
    Bootstrap = {0}
    JoinAddr <- ConfigJoinAddr
    Leavers = {0, 4, 8, 12}
    Crashers = {}
    Tasks = {}
    Runs = 2
    MaxChanges = 1
    MaxTimeouts = 0
    MaxDepth = 4
INVARIANTS
    CalmIdeal
