CONSTANTS
    Requests = {r1, r2}
    NoRequest = NoRequest
    Graphs <- MCGraphs
    Wrenches = {"fresh", "stale"}
    Arrays <- MCArrays
    MaxCalls = 1
    MaxChanges = 2
    Pages = {p1, p2}
    Tasks = {b1}
    MaxWrench = 1
    MaxRest = 1
    MaxQueue = 3
    MaxLost = 1
SPECIFICATION MCSpec

INVARIANT HealthIncludesStatus
