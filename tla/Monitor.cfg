\* One file of this peer, one of another; one call served at a time.  The
\* races are between the server thread and the poll thread.
SPECIFICATION Spec
CONSTANTS
    Uri = {1, 2}
    Owned = {1}
    Content = {a, b}
    None = None
    Blank = Blank
    Server = {"s1"}
    MaxChanges = 2
    MaxFailures = 1
CHECK_DEADLOCK FALSE
INVARIANTS
    Shielded
PROPERTIES
    EchoEnds
    
