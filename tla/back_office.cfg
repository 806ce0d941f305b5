SPECIFICATION BackOfficeSpec
CONSTANTS
    Products = {p1}
    Variants = {v1}
    MaxEdits = 2
    HasOrders = TRUE
    MaxRunning = 1
    None = None
INVARIANTS TypeOK SavesAreShown
