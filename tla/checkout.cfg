SPECIFICATION Spec
CONSTANTS
    Users = {u1, u2}
    Variants = {v1}
    CartIds = {c1, c2, c3}
    ItemIds = {i1, i2}
    Keys = {k1, k2}
    OrderIds = {o1, o2}
    Requests = {r1, r2}
    RedisFails = TRUE
    NoRef = NoRef
SYMMETRY IdSymmetry
INVARIANTS OneOrderPerKey KeyPointsHome CartsCompletedByOrders
PROPERTIES PromiseSpec
