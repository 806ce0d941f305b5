CONSTANTS
    Users = {admin, customer}
    Admins = {admin}
    Sessions = {tab, script}
    TabSession = tab
    MaxRequests = 3
    MaxRestarts = 1
    Nobody = Nobody
SPECIFICATION BotSpec
INVARIANTS BotTypeOK PendingIsLatest
PROPERTIES CalledOnce  LoadingEnds
