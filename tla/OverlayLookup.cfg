SPECIFICATION Spec
CONSTANTS
    BITS = 4
    NoNode = NoNode
    Endpoint = {"adv", "peer", "none"}
    Members = {1, 4, 7}
    Bootstrap = {1}
    JoinAddr <- MCJoinAddr
    Leavers = {}
    Crashers = {4,7}
    Tasks = {"fix"}
    Runs = 2
    MaxChanges = 1
    MaxTimeouts = 0
    MaxDepth = 4
INVARIANTS
    LookupCorrect
PROPERTIES
    LookupsEnd
