SPECIFICATION FairSpec
CONSTANTS
    m1 = m1
    m2 = m2
    m3 = m3
    Mails <- ThreeMails
    Early = {m1, m2}
    OUTPUT = 2
    SED_PRINTS = TRUE
    CAT = TRUE
    MAX_BYTES_SEND = 2
    BUFFER_LINES = 2
    SendOutcomes = {"all", "short", "error"}
    PipeOutcomes = {"ok"}
    DiskOutcomes = {"ok"}
CHECK_DEADLOCK FALSE
INVARIANTS
    SomebodyIsAwake
    
PROPERTIES
    EveryResponseEnds
