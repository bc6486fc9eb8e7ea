SPECIFICATION Spec
CONSTANTS
    m1 = m1
    m2 = m2
    m3 = m3
    Mails <- TwoMails
    Early = {}
    OUTPUT = 2
    SED_PRINTS = TRUE
    CAT = FALSE
    MAX_BYTES_SEND = 2
    BUFFER_LINES = 2
    SendOutcomes = {"all", "short", "error"}
    PipeOutcomes = {"ok", "fail"}
    DiskOutcomes = {"ok", "fail"}
CHECK_DEADLOCK FALSE
INVARIANTS
    TypeOK
    ReaderServesOneRetr
PROPERTIES
    ImplementsSession
