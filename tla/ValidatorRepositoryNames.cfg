SPECIFICATION Spec
CONSTANTS
    r1 = r1
    r2 = r2
    v1 = v1
    v2 = v2
    n1 = n1
    name1 = name1
    name2 = name2
    Requests = {r1, r2}
    Votes = {v1, v2}
    Nodes = {n1}
    NodeOf <- MCNodeOf
    NameOf <- MCNameOf
    NoNode = NoNode
    NoName = NoName
    None = None
    TTL = 1
    MaxServe = 1
    Limit = 1
SYMMETRY Symmetry
INVARIANT NameWasFetched
