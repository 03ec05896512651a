SPECIFICATION Spec
CONSTANTS
    Request <- MCRequest
    Agent = {"a"}
    AgentOf <- MCAgentOf
    Key = {"k1"}
    Hash = {"h1", "h2"}
    Limit = 1
    MaxOther = 1
    MaxFaults = 1
INVARIANTS
    TypeOK
    OneJobPerKey
    RepliesHonest
    LimitKept
PROPERTIES
    ReservationsSettle
\* The requests of a behaviour are bounded.
CHECK_DEADLOCK FALSE
