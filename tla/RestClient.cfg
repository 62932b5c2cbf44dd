SPECIFICATION Spec
CONSTANTS
    Calls = {c1, c2}
    Links = {l1}
    Orders = {o1, o2}
    Positions = {p1, p2}
    Coins = {b1}
    Instruments = {i1}
    Key = Key
    None = None
SYMMETRY Symmetry
CONSTRAINT OneReader
INVARIANTS
    TypeOK
    OrderKnown
    AckIsReal
    NoDoubleOrder
    OpenOrdersComplete
    OrderStatusTruthful
    HoldingsTruthful
PROPERTY ImplementsAtomicAccount
