SPECIFICATION Spec
CONSTANTS
    Producers = {p1, p2}
    Consumers = {c1, c2}
    Values = {a, b}
    NoValue = NoValue
    Capacity = 2
    MaxPush = 4
SYMMETRY Symmetry
INVARIANTS
    NoDataRace
PROPERTIES
    ImplementsTicketQueue
    FalseIsTruthful
