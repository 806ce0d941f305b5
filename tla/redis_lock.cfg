SPECIFICATION RedisSpec
CONSTANTS
    Resources = {k1, k2}
    Clients = {c1, c2}
    Free = Free
    Overruns = {k2}
    Products = {p1}
    Variants = {v1}
    Kinds = {"list", "product", "variants"}
    Readers = {r1}
    MaxEdits = 1
    None = None
INVARIANTS MutualExclusion CacheIsPast
PROPERTIES DeletedLeaves
