SPECIFICATION MCSpec
CONSTANTS
    t1 = t1
    t2 = t2
    p1 = p1
    p2 = p2
    j1 = j1
    Thread = {t1, t2}
    Proc = {p1, p2}
    Job = {j1}
    NoProc = NoProc
    NoJob = NoJob
    Shutdown = Shutdown
    HarnessOrder <- TwoHarnesses
    Caps = {1, 2}
    MaxQueue = 1
    MaxAsked = 4
    Requests = {"start", "hibernate", "destroy", "shutdown", "write", "purge", "setMax"}
INVARIANTS HasOneOwner RecordsFollow CapAtRest
PROPERTIES PurgeSparesInUse LoopsAndChildrenEnd
CHECK_DEADLOCK FALSE
