SPECIFICATION ClientSpec
CONSTANTS
    Users = {u1, u2}
    Admins = {u2}
    Tokens = {n1, n2}
    Slots = {c1, c2}
    None = None
    Undefined = Undefined
INVARIANTS QueueIsServed ShownIsStored
PROPERTIES ApiSpec CallsSettle
