CONSTANTS
    a = a  b = b  x = x
    Client <- TwoClients
    Topic <- OneTopic
    mask <- maskTwo
    EagerUnregister = FALSE
    Cap = 2
    MaxConn = 2
    MaxPub = 2
    MaxExit = 1
SPECIFICATION FairSpec
INVARIANTS NodesLive RegisterReplyAlone NotifyOrder ManagerProtocol
PROPERTIES ClosedReleased
CHECK_DEADLOCK FALSE
