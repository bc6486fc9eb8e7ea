SPECIFICATION FairSpec
CONSTANTS
    a1 = a1
    a2 = a2
    alice = alice
    bob = bob
    carol = carol
    right = right
    NoName = NoName
    NoPass = NoPass
    Admins <- TwoAdmins
    Names = {alice, bob, carol}
    Passwords = {right}
    MAX_USERS = 2
    Accounts <- OneAccount
    SendOutcomes = {"all", "short", "error"}
    PopenOutcomes = {"ok", "fail"}
    Unmakeable = {carol}
    BUFFER_LINES = 1
    MAX_SENDS = 2
    Requests <- Everything
    Clients = {alice, NoName}
    MIN_TOTAL = 1
CHECK_DEADLOCK FALSE
INVARIANTS
    TypeOK
    CommandKeepsItsSession
    
    AdminPlaceNotLost
    NamesAreUnique
    
PROPERTIES
    
    
    NewAccountsHaveMaildir
    ImplementsAdminSession
    CommandIsAnswered
    GoneIsClosed
