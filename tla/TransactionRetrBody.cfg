SPECIFICATION Spec
CONSTANTS
    m1 = m1
    m2 = m2
    m3 = m3
    Mails <- TwoMails
    Early = {m1}
    OUTPUT = 2
    SED_PRINTS = FALSE
    CAT = TRUE
    MAX_BYTES_SEND = 2
    BUFFER_LINES = 1
    SendOutcomes = {"all"}
    PipeOutcomes = {"ok"}
    DiskOutcomes = {"ok"}
CHECK_DEADLOCK FALSE
INVARIANTS
    RetrSendsTheOutput
