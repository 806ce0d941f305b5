SPECIFICATION Spec
CONSTANTS
    Users = {u1}
    Variants = {v1}
    CartIds = {c1, c2}
    ItemIds = {i1, i2}
    Requests = {r1, r2, r3}
    MaxAvail = 2
    Free = Free
    LeaseExpires = FALSE
    NoRef = NoRef
SYMMETRY IdSymmetry
INVARIANTS TypeOK OneRowPerVariant RowsWithinStock
PROPERTIES LockSpec
