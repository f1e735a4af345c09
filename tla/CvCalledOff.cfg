SPECIFICATION FairSpec
CONSTANTS
    Threads = {t1, t2, t3}
PROPERTY BroadcastNotifiesAll
CHECK_DEADLOCK FALSE
