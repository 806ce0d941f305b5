SPECIFICATION Spec
CONSTANTS
    Variants = {v1}
    MaxLine = 1
    StockLevels = {1}
    Orders = {o1}
    Requests = {r1, r2}
    Ppids = {p1, p2}
    MaxPayments = 2
    NoOrder = NoOrder
    NoPpid = NoPpid
SYMMETRY IdSymmetry
INVARIANTS TypeOK References StatusIsJustified
PROPERTIES StatusMoves
