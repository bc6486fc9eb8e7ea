SPECIFICATION Spec
CONSTANTS
    c1 = c1
    c2 = c2
    c3 = c3
    alice = alice
    bob = bob
    nobody = nobody
    right = right
    wrong = wrong
    NoName = NoName
    NoPass = NoPass
    Conns <- TwoConns
    Names = {alice}
    Passwords = {right}
    MAX_USERS = 2
    Accounts <- OneAccount
    SendOutcomes = {"all", "short", "error"}
    BUFFER_LINES = 1
INVARIANTS
    NobodyLockedOut
