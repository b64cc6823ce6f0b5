SPECIFICATION Spec
CONSTANTS
    Symbol = {s1}
    Product = {mis, nrml}
    Client = {c1}
    Worker = {x1, x2}
    Before = {{}, {"analyze", "live"}}
    MaxRequests = 1
    MaxEvents = 1
SYMMETRY Symmetry
CHECK_DEADLOCK FALSE
INVARIANT OneExit
INVARIANT NeverReverses
 
PROPERTY ClearedIsClosed
