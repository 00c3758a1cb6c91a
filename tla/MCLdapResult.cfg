SPECIFICATION Spec
CONSTANTS
    MaxMsgid = 2
    MaxReplies = 2
    Version = 3
    Kinds = {"search", "other"}
    Asked <- MCAskedOne
INVARIANTS StreamIntact QueueExact AbandonedOutOfReach
PROPERTIES AbandonedQuiet AllIsWhole TimeoutMissesNothing
CHECK_DEADLOCK FALSE
