\* Three peers that may move between two endpoints, room for two channels.
SPECIFICATION Spec
CONSTANTS
    Key = {u1, u2, u3}
    Endpoint = {e1, e2}
    Value <- Channel
    None = None
    Slot = {s1, s2, s3, s4}
    Capacity = 2
INVARIANTS
    Consistent
PROPERTIES
    ImplementsCache
