SPECIFICATION Spec
CONSTANTS
    c1 = c1
    c2 = c2
    c3 = c3
    alice = alice
    bob = bob
    nobody = nobody
    right = right
    wrong = wrong
    NoName = NoName
    NoPass = NoPass
    Conns <- TwoConns
    Names = {alice, bob}
    Passwords = {right}
    MAX_USERS = 3
    Accounts <- TwoAccounts
    SendOutcomes = {"all", "short", "error"}
    BUFFER_LINES = 1
SYMMETRY ConnSymmetry
INVARIANTS
    TypeOK
    MaildropExclusive
    HolderAgreesWithTable
    
    CountsOpenConnections
    ReplyTellsTheTruth
PROPERTIES
    HoldUndisturbed
    ImplementsMaildropLock
