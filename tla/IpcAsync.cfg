CONSTANTS
    t1 = t1  t2 = t2  h1 = h1  h2 = h2  k1 = k1  k2 = k2
    Task <- MCTask
    Slot <- MCSlot
    Cookie <- MCCookie
    NoCookie = NoCookie
    NoSlot = NoSlot
    NoMsg = NoMsg
    Class <- Requesters
    mintasks = 1
    maxtasks = 2
    linger = 1
    MaxConn = 3
    MaxReq = 2
SPECIFICATION FairSpec
INVARIANTS CookieOwnership ReplyToSender 
PROPERTIES RequestServed
CHECK_DEADLOCK FALSE
