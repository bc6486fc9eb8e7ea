SPECIFICATION Spec
CONSTANTS
    MAX_FD = 3
    Masters = {0}
CHECK_DEADLOCK FALSE
INVARIANTS
    TypeOK
    SelectSeesTheTable
    UsedAreOpen
    CommandHasItsSession
    
PROPERTIES
    ImplementsDispatcher
