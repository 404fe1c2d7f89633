\* A client and a server over one connection, cut into reads.
SPECIFICATION Spec
CONSTANTS
    MaxHeaderSize = 140
    ULLONG_MAX = 1023
    BufferSize = 48
    FreeReads = 1
    MaxRounds = 2
    Glob <- MCGlob
    Handle <- MCHandle
    Accept <- MCAccept
    WSServlets <- MCWSServlets
    Servers <- MCServers
INVARIANTS
    SplitInvisible
    
    NoParserAbort
    KeepAliveAgrees
PROPERTIES
    AnswerComes
