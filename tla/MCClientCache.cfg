SPECIFICATION Spec
CONSTANTS
    Requests <- MCRequests
    Entries = {"d2"}
    Codes = {"success", "sizeLimitExceeded"}
    Buckets = 2
    Base = 2
    Width = 32
    Timeouts = {1}
    Limits = {0, 8}
    Options = {"noerrs"}
    MaxMsgid = 3
    MaxEntries = 1
    Pauses = FALSE
INVARIANTS MemusedExact
PROPERTIES AnswersTrue ReduceEnds
CHECK_DEADLOCK FALSE
