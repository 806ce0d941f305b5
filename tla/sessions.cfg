SPECIFICATION Spec
CONSTANTS
    Users = {u1, u2}
    Tokens = {t1, t2, t3, t4}
    Requests = {r1, r2, r3}
    None = None
SYMMETRY IdSymmetry
INVARIANTS TokenBuysOnce LogoutIsFinal SessionsPerLogin
PROPERTIES PromiseSpec
