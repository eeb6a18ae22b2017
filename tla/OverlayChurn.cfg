SPECIFICATION Spec
CONSTANTS
    BITS = 4
    NoNode = NoNode
    Endpoint = {"adv", "peer", "none"}
    Members = {0, 4}
    Bootstrap = {0}
    JoinAddr <- MCJoinAddr
    Leavers = {0}
    Crashers = {4}
    Tasks = {"stab", "check"}
    Runs = 1
    MaxChanges = 2
    MaxTimeouts = 1
    MaxDepth = 4
INVARIANTS
    TypeOK
PROPERTIES
    ProcessesEnd
