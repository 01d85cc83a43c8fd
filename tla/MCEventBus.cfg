SPECIFICATION MCSpec
CONSTANTS
    Session = {s1, s2, s3}
    Worker = {w1, w2}
    Event = {e1, e2}
    None = None
    MaxQueued = 2
INVARIANTS
    OneTokenPerSession
PROPERTIES
    HandlesInOrder
