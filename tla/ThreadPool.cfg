CONSTANTS
    t1 = t1  t2 = t2  t3 = t3
    j1 = j1  j2 = j2  j3 = j3
    w1 = w1  w2 = w2
    Thread <- MCThread
    Job <- MCJob
    NoJob = NoJob
    Waiter <- MCWaiter
    minthreads = 1
    maxthreads = 3
    keepalive = 1
SPECIFICATION FairSpec
INVARIANTS TypeOK ThreadAccounting JobConservation NoLostWakeup WaitNotMissed
PROPERTIES JobServed DestroyReturns
CHECK_DEADLOCK FALSE
