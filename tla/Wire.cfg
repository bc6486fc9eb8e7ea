SPECIFICATION FairSpec
CONSTANTS
    Letters <- MCLetters
    Others = {"1"}
    MAX_CMD_LEN = 2
    MONITOR_MAX_CMD_LEN = 3
    MAX_ARG_LEN = 4
    Quit = "q"
    Login = "l"
    Zero = "z"
    One = "o"
    Two = "t"
    Argvs <- MCArgvs
    Pipelines <- MCPipelines
    READ_BUFFER_SIZE = 5
    WRITE_BUFFER_SIZE = 9
    Alphabet = {"a", "1", "SP", "CR", "LF"}
    LENGTH = 6
CHECK_DEADLOCK FALSE
INVARIANTS
    ParsersAgree
    NothingIsLost
    RoomOnBothSides
    ClientReadsItsAnswer
PROPERTIES
    ImplementsExchange
    AnsweredInTheEnd
    ClientGoesOn
