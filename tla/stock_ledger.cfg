SPECIFICATION Spec
CONSTANTS
    Variants = {v1, v2}
    MaxLine = 2
    StockLevels = {0, 2, 3}
    Orders = {o1, o2}
SYMMETRY IdSymmetry
INVARIANTS ReservationsAreBacked
PROPERTIES OnlyAdjustOversells
