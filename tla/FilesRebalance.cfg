SPECIFICATION Spec
CONSTANTS
    None = None
    Blank = Blank
    Tainted = Tainted
    Size = 8
    Node = {1, 4, 6}
    Uris = {0, 1, 2, 3}
    Parent <- MCParent
    Regular = {2, 3}
    Position <- MCPosition
    a = a
    b = b
    Content = {a, b}
    Thread <- MCThread1
    Home <- MCHome1
    Commands <- MCCommands1
    Overlap <- MCOverlap1
    ReplicationCnt = 1
    Initial = {1, 4}
    Made = {}
    Joiners = {6}
    Leavers = {4, 6}
    Crashers = {1, 4, 6}
    MaxCommands <- MCMaxCommands1
    MaxChanges = 2
INVARIANTS
    GetCorrect Durable ReplicaChain Gone
PROPERTIES
    Settles
CHECK_DEADLOCK FALSE
