CONSTANTS
    p1 = p1
    p2 = p2
    w1 = w1
    w2 = w2
    Processes = {p1, p2}
    Workers = {w1, w2}
    Home <- Together
    Jobs = {"execute", "credit", "quote", "refresh"}
    None = None
SPECIFICATION FairSpec
INVARIANTS
    TypeOK
    SchemaIsWhole
    TrafficAfterSchema
    RefusedAfterSuccess
    NoStartDeadlock
PROPERTIES
    EveryStartEnds
    EveryRequestEnds
