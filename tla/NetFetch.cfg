CONSTANTS
    Nets = {"A"}
    Hosts = {"g", "h"}
    Local = {"g"}
    Replies <- CutReplies
    RespMax = 2
    HdrLen = 1
    CloseMax = 1
    MaxCalls = 3
    MaxDups = 1
SPECIFICATION FairSpec
CHECK_DEADLOCK FALSE
INVARIANTS LeaseIsOurs SentToHost OwnReply HonestGet
PROPERTIES CommandsReturn
