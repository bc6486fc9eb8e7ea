SPECIFICATION FairSpec
CONSTANTS
    a1 = a1
    a2 = a2
    alice = alice
    bob = bob
    carol = carol
    right = right
    NoName = NoName
    NoPass = NoPass
    Admins <- OneAdmin
    Names = {alice}
    Passwords = {right}
    MAX_USERS = 2
    Accounts <- OneAccount
    SendOutcomes = {"all"}
    PopenOutcomes = {"ok"}
    Unmakeable = {}
    BUFFER_LINES = 1
    MAX_SENDS = 1
    Requests <- Everything
    Clients = {}
    MIN_TOTAL = 0
CHECK_DEADLOCK FALSE
PROPERTIES
    DeletedIsGone
