SPECIFICATION Spec
CONSTANTS
    None = None
    Blank = Blank
    Tainted = Tainted
    Size = 8
    Node = {1, 4, 6}
    Uris = {0, 1, 2, 3}
    Parent <- MCParent
    Regular = {2, 3}
    Position <- MCPosition
    a = a
    b = b
    Content = {a, b}
    Thread <- MCThread
    Home <- MCHome
    Commands <- MCCommands
    Overlap = {}
    ReplicationCnt = 1
    Initial = {1, 4, 6}
    Made = {}
    Joiners = {}
    Leavers = {}
    Crashers = {}
    MaxCommands <- MCMaxCommands
    MaxChanges = 0
INVARIANTS
    Durable Listed
PROPERTIES
    ImplementsStore
CHECK_DEADLOCK FALSE
