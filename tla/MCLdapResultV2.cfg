SPECIFICATION FairSpec
CONSTANTS
    MaxMsgid = 2
    MaxReplies = 1
    Version = 2
    Kinds = {"search", "other"}
    Asked <- MCAsked
PROPERTIES StreamSpec WaitEnds
CHECK_DEADLOCK FALSE
