SPECIFICATION FairSpec
CONSTANTS
    Setups <- MCSetups
    Exchanging <- MCOneServer
    Timed = TRUE
    MaxLost = 1
    Requests <- MCRequests
    Replies <- MCReplies
    MaxRequests <- MCMaxRequests
    MaxReplies = 2
    MaxIncoming = 0
    Size = 3
    Modes <- MCModes
    Stale = {9}
INVARIANTS SocketsExact StreamsExact
PROPERTIES ConnectEnds RepliesRead
CHECK_DEADLOCK FALSE
