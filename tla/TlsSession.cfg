CONSTANTS
    Servers <- AllServers
    Host = "host"
    SegMax = 4
    StreamMax = 4
    FlightMax = 5
    TranscriptMax = 7
    ChunkMax = 2
    RespMax = 3
    MaxCalls = 3
SPECIFICATION FairSpec
CHECK_DEADLOCK FALSE
INVARIANTS Agreement OwnResponse HonestServed
PROPERTIES RequestsReturn
