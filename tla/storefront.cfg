CONSTANTS
    AddressIds = {a1, a2}
    None = None
    Orders = {o1}
    MaxVisits = 1
    MaxSubmits = 2
    MaxAdds = 1
    MaxPolls = 3
    MaxWrites = 2
SPECIFICATION Spec
INVARIANTS TypeOK OneOrderPerVisit OrdersHaveAddress OneDefault
PROPERTIES PollingNotices
CHECK_DEADLOCK FALSE
