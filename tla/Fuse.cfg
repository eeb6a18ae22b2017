\* Two names, two handles; one write by another peer, one failing call, one crash.
SPECIFICATION Spec
CONSTANTS
    Uri = {u1, u2}
    Content = {a, b}
    None = None
    Blank = Blank
    Handle = {h1, h2}
    Inode = {1, 2, 3, 4, 5}
    MaxForeign = 1
    MaxFailures = 1
    MaxCrashes = 1
INVARIANTS
    WritesStored
    Coherent
    Attached
SYMMETRY Symmetry
