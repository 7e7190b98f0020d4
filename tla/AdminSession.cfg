SPECIFICATION FairSpec
CONSTANTS
    b1 = b1
    Tab = {t1, t2}
    Browser <- MCBrowser
    BrowserOf <- MCBrowserOf
    Strong = {p1}
    Default = d0
    MaxFailures = 2
    MaxWrong = 1
    MaxLoads = 1
    MaxReqs = 1
PROPERTIES AdminGetsIn
INVARIANTS TypeOK DefaultBlocked LockoutHolds
CHECK_DEADLOCK FALSE
