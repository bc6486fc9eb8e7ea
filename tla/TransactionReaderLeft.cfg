SPECIFICATION Spec
CONSTANTS
    m1 = m1
    m2 = m2
    m3 = m3
    Mails <- TwoMails
    Early = {m1}
    OUTPUT = 1
    SED_PRINTS = TRUE
    CAT = TRUE
    MAX_BYTES_SEND = 2
    BUFFER_LINES = 1
    SendOutcomes = {"all", "error"}
    PipeOutcomes = {"ok"}
    DiskOutcomes = {"ok"}
CHECK_DEADLOCK FALSE
INVARIANTS
    ClosedLeavesNoReader
