SPECIFICATION Spec
CONSTANTS
    BITS = 4
    NoNode = NoNode
    Endpoint = {"adv", "peer", "none"}
    Members = {0, 4, 12}
    Bootstrap = {0}
    JoinAddr <- ConfigJoinAddr
    Leavers = {}
    Crashers = {4}
    Tasks = {"stab"}
    Runs = 1
    MaxChanges = 2
    MaxTimeouts = 0
    MaxDepth = 4
INVARIANTS
    NoUndefined OneRing
PROPERTIES
    JoinSucceeds SuccessorKept
