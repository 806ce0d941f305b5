SPECIFICATION Spec
CONSTANTS
    Variants = {v1}
    MaxLine = 1
    StockLevels = {0, 2}
    Orders = {o1, o2}
    Requests = {r1, r2}
    Ppids = {p1}
    MaxPayments = 1
    NoOrder = NoOrder
    NoPpid = NoPpid
SYMMETRY IdSymmetry
INVARIANTS ReservationsAreBacked
PROPERTIES LedgerSpec OnlyAdminOversells
